---- MODULE DasProxyProofs ----
(***************************************************************************)
(* The limiter of the DAS route, for every number of clients, every limit, *)
(* every length of the window and every size of the table.                 *)
(*                                                                         *)
(* The bounds on what is let through speak of the last window; they are    *)
(* inductive only when they are asked of every window that is still to     *)
(* come: what a history will still hold at a later instant u.              *)
(***************************************************************************)
EXTENDS DasProxy, FiniteSetTheorems, SequenceTheorems, TLAPS

---------------------------------------------------------------------------
(* Histories *)

Occurrence == [at : Nat, nth : Nat]

Current(history, t) == {s \in history : s.at = t}

(* A history at time t: finite, no older than a window, and numbered so    *)
(* that the next stamp is a new one.                                       *)
Dated(history, t) ==
    /\ IsFiniteSet(history)
    /\ history \subseteq Occurrence
    /\ \A s \in history : s.at <= t /\ s.at + RateWindow > t
    /\ \A s \in Current(history, t) : s.nth < Cardinality(Current(history, t))

(* How much of a history is still recent at time u. *)
Size(history, u) == Cardinality(Recent(history, u))

(* The recent part of a dated history is finite. *)
LEMMA SizeType ==
    ASSUME NEW t, NEW history, Dated(history, t), NEW u
    PROVE  IsFiniteSet(Recent(history, u)) /\ Size(history, u) \in Nat
<1>1. Recent(history, u) \subseteq history
    BY DEF Recent
<1>2. IsFiniteSet(Recent(history, u))
    BY <1>1, FS_Subset DEF Dated
<1> QED BY <1>2, FS_CardinalityType DEF Size

(* Nothing of a history is older than a window, so all of it is recent.    *)
LEMMA SizeNow ==
    ASSUME NEW t \in Nat, NEW history, Dated(history, t)
    PROVE  Size(history, t) = Cardinality(history)
<1>1. \A s \in history : s.at + RateWindow > t
    BY DEF Dated
<1>2. Recent(history, t) = history
    BY <1>1, Zenon DEF Recent
<1> QED BY <1>2 DEF Size

(* What was recorded by time t is forgotten a window later.                *)
LEMMA SizeLate ==
    ASSUME NEW t \in Nat, NEW history, Dated(history, t), NEW u \in Nat,
           u >= t + RateWindow
    PROVE  Size(history, u) = 0
<1>1. \A s \in history : ~(s.at + RateWindow > u)
    <2>1. \A s \in history : s.at \in Nat /\ s.at <= t
        BY DEF Dated, Occurrence
    <2>2. RateWindow \in Nat
        BY ProxyAssumption
    <2> QED BY <2>1, <2>2
<1>2. Recent(history, u) = {}
    BY <1>1, Zenon DEF Recent
<1> QED BY <1>2, FS_EmptySet DEF Size

(* The empty history is dated, and of size zero. *)
LEMMA EmptyDated == ASSUME NEW t PROVE Dated({}, t) /\ \A u : Size({}, u) = 0
<1>1. Current({}, t) = {} /\ \A u : Recent({}, u) = {}
    BY Zenon DEF Current, Recent
<1>2. IsFiniteSet({}) /\ Cardinality({}) = 0
    BY FS_EmptySet
<1>3. Dated({}, t)
    BY <1>1, <1>2, Zenon DEF Dated
<1> QED BY <1>1, <1>2, <1>3 DEF Size

(* The clock advances: what stays is what was recent at the new time.      *)
LEMMA ForgetDated ==
    ASSUME NEW t \in Nat, NEW history, Dated(history, t)
    PROVE  /\ Dated(Recent(history, t + 1), t + 1)
           /\ \A u \in Nat : u >= t + 1 => Size(Recent(history, t + 1), u) = Size(history, u)
<1> DEFINE kept == Recent(history, t + 1)
<1>1. IsFiniteSet(kept)
    BY SizeType
<1>2. \A s \in history : s \in Occurrence /\ s.at \in Nat /\ s.at <= t
    BY DEF Dated, Occurrence
<1>3. kept \subseteq history /\ \A s \in kept : s.at + RateWindow > t + 1
    BY DEF Recent
<1> HIDE DEF kept
<1>4. \A s \in kept : s.at <= t + 1 /\ s.at # t + 1
    BY <1>2, <1>3
<1>5. Current(kept, t + 1) = {}
    BY <1>4, Zenon DEF Current
<1>6. Dated(kept, t + 1)
    BY <1>1, <1>2, <1>3, <1>4, <1>5 DEF Dated
<1>7. ASSUME NEW u \in Nat, u >= t + 1
      PROVE  Recent(kept, u) = Recent(history, u)
    <2>1. \A s \in history : s.at + RateWindow > u => s.at + RateWindow > t + 1
        BY <1>2, <1>7, ProxyAssumption
    <2> QED BY <2>1, Zenon DEF Recent, kept
<1> QED BY <1>6, <1>7 DEF Size, kept

(* One more occurrence is counted by every window that still sees it.      *)
LEMMA RecordDated ==
    ASSUME now \in Nat, NEW history, Dated(history, now)
    PROVE  /\ Dated(Record(history), now)
           /\ Cardinality(Record(history)) = Cardinality(history) + 1
           /\ \A u \in Nat :
                 Size(Record(history), u)
                    = IF u < now + RateWindow THEN Size(history, u) + 1
                      ELSE Size(history, u)
<1> DEFINE stamp == Stamp(history)
           numbered == Cardinality(Current(history, now))
<1>1. IsFiniteSet(Current(history, now)) /\ numbered \in Nat
    <2>1. IsFiniteSet(Current(history, now))
        BY FS_Subset DEF Dated, Current
    <2> QED BY <2>1, FS_CardinalityType
<1>2. stamp \in Occurrence /\ stamp.at = now /\ stamp.nth = numbered
    BY <1>1 DEF Stamp, Current, Occurrence
<1> HIDE DEF stamp
<1>3. stamp \notin history
    <2>1. stamp \in history => stamp \in Current(history, now)
        BY <1>2 DEF Current
    <2>2. stamp \in Current(history, now) => stamp.nth < numbered
        BY DEF Dated
    <2> QED BY <1>1, <1>2, <2>1, <2>2
<1>4. Record(history) = history \cup {stamp}
    BY DEF Record, stamp
<1>5. Current(Record(history), now) = Current(history, now) \cup {stamp}
    BY <1>2, <1>4 DEF Current
<1>6. Cardinality(Current(Record(history), now)) = numbered + 1
    <2>1. stamp \notin Current(history, now)
        BY <1>3 DEF Current
    <2> QED BY <1>1, <1>5, <2>1, FS_AddElement
<1>7. IsFiniteSet(Record(history)) /\ Cardinality(Record(history)) = Cardinality(history) + 1
    BY <1>3, <1>4, FS_AddElement DEF Dated
<1>8. Dated(Record(history), now)
    <2>1. \A s \in Record(history) : s.at <= now /\ s.at + RateWindow > now
        BY <1>2, <1>4, ProxyAssumption DEF Dated
    <2>2. \A s \in Current(history, now) : s.nth \in Nat /\ s.nth < numbered
        BY DEF Dated, Current, Occurrence
    <2>3. \A s \in Current(Record(history), now) : s.nth < numbered + 1
        BY <1>1, <1>2, <1>5, <2>2
    <2>4. Record(history) \subseteq Occurrence
        BY <1>2, <1>4 DEF Dated
    <2> QED BY <1>6, <1>7, <2>1, <2>3, <2>4 DEF Dated
<1>9. ASSUME NEW u \in Nat
      PROVE  Size(Record(history), u)
                = IF u < now + RateWindow THEN Size(history, u) + 1 ELSE Size(history, u)
    <2>1. IsFiniteSet(Recent(history, u)) /\ stamp \notin Recent(history, u)
        BY <1>3, SizeType DEF Recent
    <2>2. CASE u < now + RateWindow
        <3>1. Recent(Record(history), u) = Recent(history, u) \cup {stamp}
            BY <1>2, <1>4, <2>2, ProxyAssumption DEF Recent
        <3> QED BY <2>1, <2>2, <3>1, FS_AddElement DEF Size
    <2>3. CASE ~(u < now + RateWindow)
        <3>1. Recent(Record(history), u) = Recent(history, u)
            BY <1>2, <1>4, <2>3, ProxyAssumption DEF Recent
        <3> QED BY <2>3, <3>1 DEF Size
    <2> QED BY <2>2, <2>3
<1> QED BY <1>7, <1>8, <1>9

---------------------------------------------------------------------------
(* The table *)

Entry == [key : Key, count : 1 .. MaxSent, resetsAt : 0 .. MaxTime + RateWindow]

Absent(k) == \A i \in DOMAIN requests : requests[i].key # k

(* The table is a sequence of entries. *)
LEMMA TableIsEntries == TypeOK => requests \in Seq(Entry)
BY DEF TypeOK, Entry

(* Position finds the entry of a key, or says 0 when there is none. *)
LEMMA PositionOf ==
    ASSUME NEW k
    PROVE  \/ Absent(k) /\ Position(k) = 0
           \/ Position(k) \in DOMAIN requests /\ requests[Position(k)].key = k
BY DEF Absent, Position

(* The entry of a client after its request was counted. *)
Renewed(k) ==
    IF WindowOpen(Position(k))
    THEN [requests[Position(k)] EXCEPT !.count = @ + 1]
    ELSE Fresh(k)

LimiterWrites(k) ==
    requests' = IF WindowOpen(Position(k)) THEN CountRequest(Position(k)) ELSE StartWindow(k)

(* What a request of k leaves of the table: the entry of k is renewed, one  *)
(* other client may be pushed out, every other entry stays as it is.       *)
Settled(k) ==
    /\ requests' \in Seq(Entry)
    /\ Len(requests') <= TableSize
    /\ \A i, j \in DOMAIN requests' : requests'[i].key = requests'[j].key => i = j
    /\ \E j \in DOMAIN requests' : requests'[j] = Renewed(k)
    /\ \A j \in DOMAIN requests' :
          \/ requests'[j] = Renewed(k)
          \/ \E i \in DOMAIN requests :
                requests'[j] = requests[i] /\ requests[i].key \notin {k, Victim(k)}
    /\ \A i \in DOMAIN requests :
          requests[i].key \notin {k, Victim(k)} =>
             \E j \in DOMAIN requests' : requests'[j] = requests[i]

(* After the limiter wrote for k, k has its renewed entry, and every *)
(* other key the entry it had or none.                               *)
LEMMA TableAfter ==
    ASSUME TypeOK, NEW k \in Key, LimiterWrites(k), Renewed(k) \in Entry, Renewed(k).key = k
    PROVE  Settled(k)
<1> DEFINE p == Position(k)
           new == Renewed(k)
           n == Len(requests)
<1>1. requests \in Seq(Entry) /\ n \in Nat /\ n <= TableSize /\ DOMAIN requests = 1 .. n
    BY TableIsEntries, LenProperties DEF TypeOK
<1>2. \A i \in 1 .. n : requests[i] \in Entry
    BY <1>1, ElementOfSeq
<1>3. \A i, j \in 1 .. n : requests[i].key = requests[j].key => i = j
    BY <1>1 DEF TypeOK
<1>4. new \in Entry /\ new.key = k
    OBVIOUS
<1>5. CASE p # 0
    <2>1. p \in 1 .. n /\ requests[p].key = k /\ Victim(k) = None
        BY <1>1, <1>5, PositionOf DEF Victim
    <2>2. requests' = [requests EXCEPT ![p] = new]
        BY <1>5, <2>1 DEF LimiterWrites, CountRequest, StartWindow, Renewed
    <2> HIDE DEF new, p
    <2>3. /\ requests' \in Seq(Entry) /\ Len(requests') = n
          /\ \A j \in 1 .. n : requests'[j] = IF j = p THEN new ELSE requests[j]
        BY <1>1, <1>4, <2>1, <2>2, ExceptSeq
    <2>4. DOMAIN requests' = 1 .. n
        BY <2>3, LenProperties
    <2>5. \A j \in 1 .. n : requests'[j].key = requests[j].key
        BY <1>4, <2>1, <2>3
    <2>6. \A i \in 1 .. n : i # p => requests[i].key # k
        BY <1>3, <2>1
    <2>7. None \notin Key /\ \A i \in 1 .. n : requests[i].key # None
        BY <1>2, ProxyAssumption DEF Entry
    <2>8. \A i, j \in DOMAIN requests' : requests'[i].key = requests'[j].key => i = j
        BY <1>3, <2>4, <2>5
    <2>9. \E j \in DOMAIN requests' : requests'[j] = new
        BY <2>1, <2>3, <2>4
    <2>10. ASSUME NEW j \in DOMAIN requests', requests'[j] # new
           PROVE  \E i \in DOMAIN requests :
                     requests'[j] = requests[i] /\ requests[i].key \notin {k, Victim(k)}
        BY <1>1, <2>1, <2>3, <2>4, <2>6, <2>7, <2>10
    <2>11. ASSUME NEW i \in DOMAIN requests, requests[i].key \notin {k, Victim(k)}
           PROVE  \E j \in DOMAIN requests' : requests'[j] = requests[i]
        BY <1>1, <2>1, <2>3, <2>4, <2>11
    <2> QED BY <1>1, <2>3, <2>8, <2>9, <2>10, <2>11 DEF Settled, new
<1>6. CASE p = 0
    <2> DEFINE kept == IF n >= TableSize THEN Tail(requests) ELSE requests
               d == IF n >= TableSize THEN 1 ELSE 0
    <2>1. \A i \in 1 .. n : requests[i].key # k
        BY <1>1, <1>6, PositionOf DEF Absent
    <2>2. requests' = Append(kept, new)
        BY <1>6 DEF LimiterWrites, StartWindow, Renewed, WindowOpen
    <2>3. n >= TableSize => n >= 1 /\ requests # <<>>
        BY <1>1, EmptySeq, ProxyAssumption
    <2>4. Victim(k) = IF n >= TableSize THEN requests[1].key ELSE None
        BY <1>1, <1>6, <2>3 DEF Victim
    <2>5. /\ kept \in Seq(Entry) /\ Len(kept) = n - d
          /\ \A j \in 1 .. n - d : kept[j] = requests[j + d]
        <3>1. CASE n >= TableSize
            <4>1. /\ Tail(requests) \in Seq(Entry) /\ Len(Tail(requests)) = n - 1
                  /\ \A j \in 1 .. Len(Tail(requests)) : Tail(requests)[j] = requests[j + 1]
                BY <1>1, <2>3, <3>1, HeadTailProperties
            <4> QED BY <3>1, <4>1
        <3>2. CASE ~(n >= TableSize)
            BY <1>1, <3>2
        <3> QED BY <3>1, <3>2
    <2>6. d \in {0, 1} /\ d <= n /\ n - d + 1 <= TableSize /\ (d = 1 <=> n >= TableSize)
        BY <1>1, <2>3, ProxyAssumption
    <2> HIDE DEF new, p, kept, d
    <2>7. /\ requests' \in Seq(Entry) /\ Len(requests') = n - d + 1
          /\ \A j \in 1 .. n - d : requests'[j] = requests[j + d]
          /\ requests'[n - d + 1] = new
        BY <1>1, <1>4, <2>2, <2>5, <2>6, AppendProperties
    <2>8. DOMAIN requests' = 1 .. n - d + 1
        BY <2>7, LenProperties
    <2>9. \A j \in 1 .. n - d : j + d \in 1 .. n
        BY <1>1, <2>6
    <2>10. \A i, j \in DOMAIN requests' : requests'[i].key = requests'[j].key => i = j
        <3>1. \A j \in 1 .. n - d : requests'[j] = requests[j + d] /\ requests'[j].key # k
            BY <2>1, <2>7, <2>9
        <3>2. requests'[n - d + 1].key = k
            BY <1>4, <2>7
        <3>3. \A i, j \in 1 .. n - d : requests[i + d].key = requests[j + d].key => i + d = j + d
            BY <1>3, <2>9
        <3>4. n - d \in Nat /\ d \in Nat
            BY <1>1, <2>6
        <3>5. \A j \in DOMAIN requests' : j \in 1 .. n - d \/ j = n - d + 1
            BY <2>8, <3>4
        <3> HIDE DEF n
        <3>6. \A i, j \in 1 .. n - d : requests'[i].key = requests'[j].key => i = j
            <4>1. \A i, j \in 1 .. n - d : i + d = j + d => i = j
                BY <3>4
            <4> QED BY <3>1, <3>3, <4>1
        <3> QED BY <3>1, <3>2, <3>5, <3>6
    <2>11. \E j \in DOMAIN requests' : requests'[j] = new
        BY <1>1, <2>6, <2>7, <2>8
    <2>12. \A i \in 1 .. n : requests[i].key # Victim(k) <=> i > d
        <3>1. \A i \in 1 .. n : requests[i].key # None
            BY <1>2, ProxyAssumption DEF Entry
        <3>2. CASE n >= TableSize
            <4>1. d = 1 /\ 1 \in 1 .. n /\ Victim(k) = requests[1].key
                BY <1>1, <2>3, <2>4, <2>6, <3>2
            <4>2. \A i \in 1 .. n : requests[i].key = Victim(k) <=> i = 1
                BY <1>3, <4>1
            <4> QED BY <1>1, <4>1, <4>2
        <3>3. CASE ~(n >= TableSize)
            BY <1>1, <2>4, <2>6, <3>1, <3>3
        <3> QED BY <3>2, <3>3
    <2>13. ASSUME NEW j \in DOMAIN requests', requests'[j] # new
           PROVE  \E i \in DOMAIN requests :
                     requests'[j] = requests[i] /\ requests[i].key \notin {k, Victim(k)}
        <3>1. j \in 1 .. n - d
            BY <1>1, <2>6, <2>7, <2>8, <2>13
        <3>2. j + d > d
            BY <2>6, <3>1
        <3> QED BY <1>1, <2>1, <2>7, <2>9, <2>12, <3>1, <3>2
    <2>14. ASSUME NEW i \in DOMAIN requests, requests[i].key \notin {k, Victim(k)}
           PROVE  \E j \in DOMAIN requests' : requests'[j] = requests[i]
        <3>1. i - d \in 1 .. n - d /\ (i - d) + d = i
            BY <1>1, <2>6, <2>12, <2>14
        <3>2. i - d \in DOMAIN requests'
            BY <1>1, <2>6, <2>8, <3>1
        <3> QED BY <2>7, <3>1, <3>2
    <2> QED BY <2>6, <2>7, <2>10, <2>11, <2>13, <2>14 DEF Settled, new
<1> QED BY <1>5, <1>6

---------------------------------------------------------------------------
(* The inductive invariant *)

(* What c requests in one window let through. *)
Through(c) == IF c <= RateLimit THEN c ELSE RateLimit

(* One window without the request that opened it, and one window more for  *)
(* each eviction that time u still sees.                                   *)
Allowance(history, u) == RateLimit * (1 + Size(history, u)) - 1

(* A key with the histories s, a and e, seen from t on, that the table has *)
(* no entry for: no window of it is open.                                  *)
Clear(t, a, e) == \A u \in Nat : u >= t => Size(a, u) <= Allowance(e, u)

(* A key with the entry r: while the window of r is open all it counted is *)
(* recent; once it is over, what was let through before it is forgotten,   *)
(* and so is the request that opened it.                                   *)
Accounted(r, t, s, a, e) ==
    /\ r.resetsAt <= t + RateWindow
    /\ \A u \in Nat : u >= t /\ u < r.resetsAt =>
          /\ r.count <= Size(s, u)
          /\ Size(a, u) <= Allowance(e, u) + Through(r.count)
    /\ \A u \in Nat : u >= t /\ u >= r.resetsAt => Size(a, u) < Through(r.count)

(* What a refused client was told: not before the window of r ends, and    *)
(* less than a second after.                                               *)
Told(r, at) == at # None => at >= r.resetsAt /\ at - Second < r.resetsAt

HistoriesType ==
    /\ {sent, admitted, evicted} \subseteq [Key -> SUBSET Occurrence]
    /\ retryAt \in [Key -> Nat \cup {None}]

HistoriesDated ==
    \A k \in Key : Dated(sent[k], now) /\ Dated(admitted[k], now) /\ Dated(evicted[k], now)

EntriesAccounted ==
    \A i \in DOMAIN requests :
        LET k == requests[i].key IN
        Accounted(requests[i], now, sent[k], admitted[k], evicted[k])

AbsentClear ==
    \A k \in Key : Absent(k) => Clear(now, admitted[k], evicted[k])

EntriesTold ==
    \A i \in DOMAIN requests : Told(requests[i], retryAt[requests[i].key])

RefusalEarned ==
    answer.status = 429 =>
        answer.key \in Key /\ Cardinality(sent[answer.key]) > RateLimit

IInv ==
    /\ TypeOK
    /\ HistoriesType
    /\ HistoriesDated
    /\ EntriesAccounted
    /\ AbsentClear
    /\ EntriesTold
    /\ RefusalEarned

---------------------------------------------------------------------------
(* One key and one request *)

(* The allowance is a number, at least the limit less one, and one *)
(* eviction adds one limit to it.                                  *)
LEMMA AllowanceBounds ==
    ASSUME NEW t, NEW e, Dated(e, t), NEW u
    PROVE  /\ Allowance(e, u) \in Nat /\ Allowance(e, u) + 1 >= RateLimit
           /\ RateLimit * (1 + (Size(e, u) + 1)) - 1 = Allowance(e, u) + RateLimit
<1>1. Size(e, u) \in Nat /\ RateLimit \in Nat \ {0}
    BY SizeType, ProxyAssumption
<1>2. ASSUME NEW x \in Nat, NEW l \in Nat \ {0}
      PROVE  /\ l * (1 + x) - 1 \in Nat /\ l * (1 + x) >= l
             /\ l * (1 + (x + 1)) = l * (1 + x) + l
    <2>1. l * (1 + x) = l + l * x /\ l * x \in Nat
        BY <1>2
    <2>2. l * (1 + (x + 1)) = l * (1 + x) + l
        BY <1>2
    <2> QED BY <1>2, <2>1, <2>2
<1> QED BY <1>1, <1>2 DEF Allowance

(* What is let through is at most the limit, and grows by one up to it. *)
LEMMA ThroughBounds ==
    ASSUME NEW c \in Nat
    PROVE  /\ Through(c) \in Nat /\ Through(c) <= RateLimit
           /\ c + 1 <= RateLimit => Through(c + 1) = Through(c) + 1
           /\ ~(c + 1 <= RateLimit) => Through(c + 1) >= Through(c)
<1>1. RateLimit \in Nat
    BY ProxyAssumption
<1> QED BY <1>1 DEF Through

(* A request in an open window. *)
LEMMA CountedInWindow ==
    ASSUME now \in Nat, NEW r \in Entry, NEW s, NEW a, NEW e,
           Dated(s, now), Dated(a, now), Dated(e, now),
           Accounted(r, now, s, a, e), now < r.resetsAt
    PROVE  /\ r.count <= Cardinality(s)
           /\ Accounted([r EXCEPT !.count = @ + 1], now, Record(s),
                        IF r.count + 1 <= RateLimit THEN Record(a) ELSE a, e)
<1> DEFINE next == [r EXCEPT !.count = @ + 1]
           let == IF r.count + 1 <= RateLimit THEN Record(a) ELSE a
<1>1. r.count \in Nat /\ r.resetsAt \in Nat
    BY ProxyAssumption DEF Entry
<1>2. next.count = r.count + 1 /\ next.resetsAt = r.resetsAt
    BY DEF Entry
<1>3. r.count <= Cardinality(s)
    BY <1>1, SizeNow DEF Accounted
<1>4. r.resetsAt <= now + RateWindow /\ now + RateWindow \in Nat
    BY ProxyAssumption DEF Accounted
<1> HIDE DEF next
<1>5. ASSUME NEW u \in Nat, u >= now, u < r.resetsAt
      PROVE  /\ r.count + 1 <= Size(Record(s), u)
             /\ Size(let, u) <= Allowance(e, u) + Through(r.count + 1)
    <2>1. u < now + RateWindow
        BY <1>1, <1>4, <1>5
    <2>2. Size(Record(s), u) = Size(s, u) + 1 /\ Size(Record(a), u) = Size(a, u) + 1
        BY <2>1, RecordDated
    <2>3. r.count <= Size(s, u) /\ Size(a, u) <= Allowance(e, u) + Through(r.count)
        BY <1>5 DEF Accounted
    <2>4. Size(s, u) \in Nat /\ Size(a, u) \in Nat /\ Allowance(e, u) \in Nat
        BY SizeType, AllowanceBounds
    <2> QED BY <1>1, <2>2, <2>3, <2>4, ThroughBounds
<1>6. ASSUME NEW u \in Nat, u >= now, u >= r.resetsAt
      PROVE  Size(let, u) < Through(r.count + 1)
    <2>1. Size(a, u) < Through(r.count)
        BY <1>6 DEF Accounted
    <2>2. Size(a, u) \in Nat /\ (Size(Record(a), u) = Size(a, u) + 1 \/ Size(Record(a), u) = Size(a, u))
        BY SizeType, RecordDated
    <2> QED BY <1>1, <2>1, <2>2, ThroughBounds
<1> QED BY <1>2, <1>3, <1>4, <1>5, <1>6 DEF Accounted, next

(* The first request of a window. *)
LEMMA CountedAfresh ==
    ASSUME now \in Nat, NEW k, NEW s, NEW a, NEW e,
           Dated(s, now), Dated(a, now), Dated(e, now), Clear(now, a, e)
    PROVE  Accounted(Fresh(k), now, Record(s), Record(a), e)
<1>1. Fresh(k).count = 1 /\ Fresh(k).resetsAt = now + RateWindow
    BY DEF Fresh
<1>2. Through(1) = 1 /\ now + RateWindow \in Nat
    BY ProxyAssumption DEF Through
<1>3. ASSUME NEW u \in Nat, u >= now, u < now + RateWindow
      PROVE  /\ 1 <= Size(Record(s), u)
             /\ Size(Record(a), u) <= Allowance(e, u) + 1
    <2>1. Size(Record(s), u) = Size(s, u) + 1 /\ Size(Record(a), u) = Size(a, u) + 1
        BY <1>3, RecordDated
    <2>2. Size(s, u) \in Nat /\ Size(a, u) \in Nat /\ Allowance(e, u) \in Nat
        BY SizeType, AllowanceBounds
    <2>3. Size(a, u) <= Allowance(e, u)
        BY <1>3 DEF Clear
    <2> QED BY <2>1, <2>2, <2>3
<1>4. ASSUME NEW u \in Nat, u >= now + RateWindow
      PROVE  Size(Record(a), u) < 1
    <2>1. Size(a, u) = 0
        BY <1>4, SizeLate
    <2>2. Size(Record(a), u) = Size(a, u)
        BY <1>2, <1>4, RecordDated
    <2> QED BY <2>1, <2>2
<1> QED BY <1>1, <1>2, <1>3, <1>4 DEF Accounted

(* Once its window is over an entry says no more than no entry.            *)
LEMMA OverIsClear ==
    ASSUME now \in Nat, NEW r \in Entry, NEW s, NEW a, NEW e,
           Dated(a, now), Dated(e, now),
           Accounted(r, now, s, a, e), ~(now < r.resetsAt)
    PROVE  Clear(now, a, e)
<1>1. r.count \in Nat /\ r.resetsAt \in Nat
    BY ProxyAssumption DEF Entry
<1> SUFFICES ASSUME NEW u \in Nat, u >= now
             PROVE  Size(a, u) <= Allowance(e, u)
    BY DEF Clear
<1>2. Size(a, u) < Through(r.count)
    BY <1>1 DEF Accounted
<1>3. RateLimit \in Nat /\ Size(a, u) \in Nat
    BY SizeType, ProxyAssumption
<1> QED BY <1>1, <1>2, <1>3, ThroughBounds, AllowanceBounds

(* An entry whose window is open is pushed out: the allowance grows by one *)
(* window, which is what the entry may have let through.                   *)
LEMMA EvictedIsClear ==
    ASSUME now \in Nat, NEW r \in Entry, NEW s, NEW a, NEW e,
           Dated(a, now), Dated(e, now),
           Accounted(r, now, s, a, e), now < r.resetsAt
    PROVE  Clear(now, a, Record(e))
<1>1. r.count \in Nat /\ r.resetsAt \in Nat /\ RateLimit \in Nat
    BY ProxyAssumption DEF Entry
<1> SUFFICES ASSUME NEW u \in Nat, u >= now
             PROVE  Size(a, u) <= Allowance(Record(e), u)
    BY DEF Clear
<1>2. /\ Size(a, u) \in Nat /\ Allowance(e, u) \in Nat
      /\ Through(r.count) \in Nat /\ Through(r.count) <= RateLimit
    BY <1>1, SizeType, AllowanceBounds, ThroughBounds
<1>3. CASE u < r.resetsAt
    <2>1. Size(a, u) <= Allowance(e, u) + Through(r.count)
        BY <1>3 DEF Accounted
    <2>2. u < now + RateWindow
        <3>1. r.resetsAt <= now + RateWindow /\ now + RateWindow \in Nat
            BY ProxyAssumption DEF Accounted
        <3> QED BY <1>1, <1>3, <3>1
    <2>3. Size(Record(e), u) = Size(e, u) + 1
        BY <2>2, RecordDated
    <2>4. Allowance(Record(e), u) = Allowance(e, u) + RateLimit
        BY <2>3, AllowanceBounds DEF Allowance
    <2> QED BY <1>1, <1>2, <2>1, <2>4
<1>4. CASE ~(u < r.resetsAt)
    <2>1. Size(a, u) < Through(r.count)
        BY <1>1, <1>4 DEF Accounted
    <2>2. Dated(Record(e), now)
        BY RecordDated
    <2>3. Allowance(Record(e), u) \in Nat /\ Allowance(Record(e), u) + 1 >= RateLimit
        BY <2>2, AllowanceBounds
    <2> QED BY <1>1, <1>2, <2>1, <2>3
<1> QED BY <1>3, <1>4

(* The clock advances. *)
LEMMA AccountedLater ==
    ASSUME NEW t \in Nat, NEW r \in Entry, NEW s, NEW a, NEW e,
           Dated(s, t), Dated(a, t), Dated(e, t), Accounted(r, t, s, a, e)
    PROVE  Accounted(r, t + 1, Recent(s, t + 1), Recent(a, t + 1), Recent(e, t + 1))
<1>1. \A u \in Nat : u >= t + 1 =>
         /\ u >= t
         /\ Size(Recent(s, t + 1), u) = Size(s, u)
         /\ Size(Recent(a, t + 1), u) = Size(a, u)
         /\ Allowance(Recent(e, t + 1), u) = Allowance(e, u)
    BY ForgetDated DEF Allowance
<1>2. r.resetsAt <= t + RateWindow => r.resetsAt <= t + 1 + RateWindow
    BY ProxyAssumption DEF Entry
<1> QED BY <1>1, <1>2 DEF Accounted

(* A key without an entry stays clear as time passes and old occurrences *)
(* are forgotten.                                                        *)
LEMMA ClearLater ==
    ASSUME NEW t \in Nat, NEW a, NEW e, Dated(a, t), Dated(e, t), Clear(t, a, e)
    PROVE  Clear(t + 1, Recent(a, t + 1), Recent(e, t + 1))
<1>1. \A u \in Nat : u >= t + 1 =>
         /\ u >= t
         /\ Size(Recent(a, t + 1), u) = Size(a, u)
         /\ Allowance(Recent(e, t + 1), u) = Allowance(e, u)
    BY ForgetDated DEF Allowance
<1> QED BY <1>1 DEF Clear

(* The seconds of retry-after cover the rest of the window, with less than *)
(* one second to spare.                                                    *)
LEMMA SecondsCover ==
    ASSUME NEW wait \in Nat \ {0}, NEW seconds,
           seconds = (wait + Second - 1) \div Second
    PROVE  /\ seconds \in Nat /\ seconds >= 1
           /\ Second * seconds >= wait /\ Second * seconds - Second < wait
<1> DEFINE m == wait + Second - 1
<1>1. Second \in Nat \ {0} /\ wait \in Nat \ {0} /\ m \in Nat
    BY ProxyAssumption
<1>2. ASSUME NEW x \in Nat, NEW y \in Nat \ {0}
      PROVE  x \div y \in Nat /\ y * (x \div y) <= x /\ x < y * (x \div y) + y
    BY <1>2
<1>3. seconds \in Nat /\ Second * seconds <= m /\ m < Second * seconds + Second
    BY <1>1, <1>2
<1>4. Second * seconds \in Nat
    BY <1>1, <1>3
<1>5. Second * seconds >= wait /\ Second * seconds - Second < wait
    BY <1>1, <1>3, <1>4
<1>6. seconds # 0
    <2>1. seconds = 0 => Second * seconds = 0
        BY <1>1
    <2> QED BY <1>1, <1>5, <2>1
<1> QED BY <1>3, <1>5, <1>6

---------------------------------------------------------------------------
(* One request and the whole table *)

(* What the type of the table says, position by position. *)
LEMMA TableFacts ==
    ASSUME TypeOK
    PROVE  /\ now \in Nat /\ now <= MaxTime
           /\ Len(requests) \in Nat /\ DOMAIN requests = 1 .. Len(requests)
           /\ \A i \in DOMAIN requests : requests[i] \in Entry /\ requests[i].key \in Key
           /\ \A i, j \in DOMAIN requests : requests[i].key = requests[j].key => i = j
<1>1. requests \in Seq(Entry) /\ DOMAIN requests = 1 .. Len(requests) /\ Len(requests) \in Nat
    BY TableIsEntries, LenProperties
<1>2. \A i \in DOMAIN requests : requests[i] \in Entry
    BY <1>1, ElementOfSeq
<1>3. \A r \in Entry : r.key \in Key
    BY DEF Entry
<1> QED BY <1>1, <1>2, <1>3, ProxyAssumption DEF TypeOK

(* An entry is evicted only for a key that has none, and it is the first *)
(* one.                                                                  *)
LEMMA VictimIsFirst ==
    ASSUME TypeOK, NEW k \in Key, Victim(k) # None
    PROVE  /\ Position(k) = 0 /\ ~WindowOpen(Position(k))
           /\ 1 \in DOMAIN requests /\ requests[1].key = Victim(k)
           /\ Victim(k) \in Key /\ Victim(k) # k
<1>1. Position(k) = 0 /\ Len(requests) >= TableSize /\ Victim(k) = Head(requests).key
    BY DEF Victim
<1>2. Len(requests) \in Nat /\ TableSize \in Nat \ {0}
    BY TableFacts, ProxyAssumption
<1>3. 1 \in DOMAIN requests /\ Head(requests) = requests[1]
    BY <1>1, <1>2, TableFacts
<1>4. Absent(k)
    <2>1. 0 \notin DOMAIN requests
        BY TableFacts
    <2> QED BY <1>1, <2>1, PositionOf
<1> QED BY <1>1, <1>3, <1>4, TableFacts DEF Absent, WindowOpen

(* What a counted request leaves of the histories. *)
LEMMA HistoriesAfter ==
    ASSUME IInv, NEW k \in Key, WithinRateLimit(k)
    PROVE  /\ {sent', admitted', evicted'} \subseteq [Key -> SUBSET Occurrence]
           /\ sent'[k] = Record(sent[k])
           /\ admitted'[k] = IF Allowed(k) THEN Record(admitted[k]) ELSE admitted[k]
           /\ evicted'[k] = evicted[k]
           /\ \A q \in Key \ {k} : sent'[q] = sent[q] /\ admitted'[q] = admitted[q]
           /\ \A q \in Key \ {Victim(k)} : evicted'[q] = evicted[q]
           /\ Victim(k) # None =>
                 evicted'[Victim(k)] = IF WindowOpen(1) THEN Record(evicted[Victim(k)])
                                       ELSE evicted[Victim(k)]
           /\ \A q \in Key : Dated(sent'[q], now) /\ Dated(admitted'[q], now)
                                /\ Dated(evicted'[q], now)
<1>1. now \in Nat
    BY TableFacts DEF IInv
<1>2. \A q \in Key :
         /\ Dated(sent[q], now) /\ Dated(Record(sent[q]), now)
         /\ Dated(admitted[q], now) /\ Dated(Record(admitted[q]), now)
         /\ Dated(evicted[q], now) /\ Dated(Record(evicted[q]), now)
    BY <1>1, RecordDated DEF IInv, HistoriesDated
<1>3. \A q \in Key :
         /\ Record(sent[q]) \in SUBSET Occurrence
         /\ Record(admitted[q]) \in SUBSET Occurrence
         /\ Record(evicted[q]) \in SUBSET Occurrence
    BY <1>2 DEF Dated
<1>4. {sent, admitted, evicted} \subseteq [Key -> SUBSET Occurrence]
    BY DEF IInv, HistoriesType
<1>5. Victim(k) # None => Victim(k) \in Key /\ Victim(k) # k /\ ~WindowOpen(Position(k))
    BY VictimIsFirst DEF IInv
<1>6. sent' = [sent EXCEPT ![k] = Record(@)]
    BY DEF WithinRateLimit
<1>7. admitted' = IF Allowed(k) THEN [admitted EXCEPT ![k] = Record(@)] ELSE admitted
    BY DEF WithinRateLimit
<1>8. evicted' = IF Victim(k) # None /\ WindowOpen(1)
                 THEN [evicted EXCEPT ![Victim(k)] = Record(@)] ELSE evicted
    BY <1>5 DEF WithinRateLimit
<1>9. /\ {sent', admitted', evicted'} \subseteq [Key -> SUBSET Occurrence]
      /\ sent'[k] = Record(sent[k])
      /\ admitted'[k] = IF Allowed(k) THEN Record(admitted[k]) ELSE admitted[k]
      /\ \A q \in Key \ {k} : sent'[q] = sent[q] /\ admitted'[q] = admitted[q]
    <2>1. /\ sent' \in [Key -> SUBSET Occurrence]
          /\ sent'[k] = Record(sent[k])
          /\ \A q \in Key \ {k} : sent'[q] = sent[q]
        BY <1>3, <1>4, <1>6
    <2>2. /\ admitted' \in [Key -> SUBSET Occurrence]
          /\ admitted'[k] = IF Allowed(k) THEN Record(admitted[k]) ELSE admitted[k]
          /\ \A q \in Key \ {k} : admitted'[q] = admitted[q]
        BY <1>3, <1>4, <1>7
    <2>3. evicted' \in [Key -> SUBSET Occurrence]
        BY <1>3, <1>4, <1>5, <1>8
    <2> QED BY <2>1, <2>2, <2>3
<1>10. \A q \in Key \ {Victim(k)} : evicted'[q] = evicted[q]
    BY <1>4, <1>5, <1>8
<1>11. Victim(k) # None =>
          evicted'[Victim(k)] = IF WindowOpen(1) THEN Record(evicted[Victim(k)])
                                ELSE evicted[Victim(k)]
    BY <1>4, <1>5, <1>8
<1>12. evicted'[k] = evicted[k]
    <2>1. None \notin Key
        BY ProxyAssumption
    <2> QED BY <1>5, <1>10, <2>1
<1>13. \A q \in Key : Dated(sent'[q], now) /\ Dated(admitted'[q], now) /\ Dated(evicted'[q], now)
    <2>1. \A q \in Key : sent'[q] = sent[q] \/ sent'[q] = Record(sent[q])
        BY <1>9
    <2>2. \A q \in Key : admitted'[q] = admitted[q] \/ admitted'[q] = Record(admitted[q])
        BY <1>9
    <2>3. \A q \in Key : evicted'[q] = evicted[q] \/ evicted'[q] = Record(evicted[q])
        <3>1. None \notin Key
            BY ProxyAssumption
        <3> QED BY <1>10, <1>11, <3>1
    <2> QED BY <1>2, <2>1, <2>2, <2>3
<1> QED BY <1>9, <1>10, <1>11, <1>12, <1>13

(* The entry of the client that sent the request. *)
LEMMA RenewedAccounted ==
    ASSUME IInv, NEW k \in Key, WithinRateLimit(k)
    PROVE  /\ Renewed(k) \in Entry /\ Renewed(k).key = k
           /\ Accounted(Renewed(k), now, sent'[k], admitted'[k], evicted'[k])
           /\ ~Allowed(k) => Cardinality(sent'[k]) > RateLimit
<1>1. TypeOK /\ now \in Nat /\ now <= MaxTime
    BY TableFacts DEF IInv
<1>2. Dated(sent[k], now) /\ Dated(admitted[k], now) /\ Dated(evicted[k], now)
    BY DEF IInv, HistoriesDated
<1>3. Cardinality(sent[k]) \in Nat /\ Cardinality(sent[k]) < MaxSent
    BY <1>2, FS_CardinalityType DEF Dated, WithinRateLimit
<1>4. MaxSent \in Nat /\ MaxTime \in Nat /\ RateWindow \in Nat /\ RateLimit \in Nat
    BY ProxyAssumption
<1>5. CASE WindowOpen(Position(k))
    <2> DEFINE r == requests[Position(k)]
    <2>1. Position(k) \in DOMAIN requests /\ r \in Entry /\ r.key = k /\ now < r.resetsAt
        <3>1. Position(k) # 0 /\ r.resetsAt > now
            BY <1>5 DEF WindowOpen
        <3>2. Position(k) \in DOMAIN requests /\ r.key = k
            BY <3>1, PositionOf
        <3>3. r \in Entry /\ r.resetsAt \in Nat
            BY <1>1, <1>4, <3>2, TableFacts DEF Entry
        <3> QED BY <1>1, <3>1, <3>2, <3>3
    <2>2. Accounted(r, now, sent[k], admitted[k], evicted[k])
        BY <2>1 DEF IInv, EntriesAccounted
    <2>3. Renewed(k) = [r EXCEPT !.count = @ + 1]
        BY <1>5 DEF Renewed
    <2>4. Allowed(k) <=> r.count + 1 <= RateLimit
        BY <1>5 DEF Allowed, WithinLimit
    <2> HIDE DEF r
    <2>5. /\ r.count <= Cardinality(sent[k])
          /\ Accounted(Renewed(k), now, Record(sent[k]),
                       IF Allowed(k) THEN Record(admitted[k]) ELSE admitted[k], evicted[k])
        BY <1>1, <1>2, <2>1, <2>2, <2>3, <2>4, CountedInWindow
    <2>6. r.count \in Nat /\ r.count + 1 \in 1 .. MaxSent
        BY <1>3, <1>4, <2>1, <2>5 DEF Entry
    <2>7. Renewed(k) \in Entry /\ Renewed(k).key = k
        BY <2>1, <2>3, <2>6 DEF Entry
    <2>8. Cardinality(Record(sent[k])) = Cardinality(sent[k]) + 1
        BY <1>1, <1>2, RecordDated
    <2>9. ~Allowed(k) => Cardinality(sent'[k]) > RateLimit
        BY <1>3, <1>4, <2>4, <2>5, <2>6, <2>8, HistoriesAfter
    <2> QED BY <2>5, <2>7, <2>9, HistoriesAfter
<1>6. CASE ~WindowOpen(Position(k))
    <2>1. Renewed(k) = Fresh(k) /\ Allowed(k)
        BY <1>6 DEF Renewed, Allowed
    <2>2. Clear(now, admitted[k], evicted[k])
        <3>1. CASE Absent(k)
            BY <3>1 DEF IInv, AbsentClear
        <3>2. CASE ~Absent(k)
            <4> DEFINE r == requests[Position(k)]
            <4>1. Position(k) \in DOMAIN requests /\ r.key = k
                BY <3>2, PositionOf
            <4>2. r \in Entry /\ Accounted(r, now, sent[k], admitted[k], evicted[k])
                BY <1>1, <4>1, TableFacts DEF IInv, EntriesAccounted
            <4>3. ~(now < r.resetsAt)
                <5>1. Position(k) # 0 /\ r.resetsAt \in Nat
                    BY <1>1, <1>4, <4>1, <4>2, TableFacts DEF Entry
                <5> QED BY <1>1, <1>6, <5>1 DEF WindowOpen
            <4> HIDE DEF r
            <4> QED BY <1>1, <1>2, <4>2, <4>3, OverIsClear
        <3> QED BY <3>1, <3>2
    <2>3. Accounted(Fresh(k), now, Record(sent[k]), Record(admitted[k]), evicted[k])
        BY <1>1, <1>2, <2>2, CountedAfresh
    <2>4. Fresh(k) \in Entry /\ Fresh(k).key = k
        BY <1>1, <1>3, <1>4 DEF Fresh, Entry
    <2> QED BY <2>1, <2>3, <2>4, HistoriesAfter
<1> QED BY <1>5, <1>6

(* The client that the table forgot, if any. *)
LEMMA VictimClear ==
    ASSUME IInv, NEW k \in Key, WithinRateLimit(k), Victim(k) # None
    PROVE  Clear(now, admitted'[Victim(k)], evicted'[Victim(k)])
<1> DEFINE v == Victim(k)
           r == requests[1]
<1>1. v \in Key /\ v # k /\ 1 \in DOMAIN requests /\ r.key = v
    BY VictimIsFirst DEF IInv
<1>2. r \in Entry /\ now \in Nat
    BY <1>1, TableFacts DEF IInv
<1>3. Accounted(r, now, sent[v], admitted[v], evicted[v])
    BY <1>1 DEF IInv, EntriesAccounted
<1>4. Dated(admitted[v], now) /\ Dated(evicted[v], now)
    BY <1>1 DEF IInv, HistoriesDated
<1>5. admitted'[v] = admitted[v] /\ r.resetsAt \in Nat
    BY <1>1, <1>2, HistoriesAfter, ProxyAssumption DEF Entry
<1>6. WindowOpen(1) <=> now < r.resetsAt
    BY <1>2, <1>5 DEF WindowOpen
<1>7. evicted'[v] = IF WindowOpen(1) THEN Record(evicted[v]) ELSE evicted[v]
    BY HistoriesAfter
<1> HIDE DEF v, r
<1>8. Clear(now, admitted'[v], evicted'[v])
    BY <1>2, <1>3, <1>4, <1>5, <1>6, <1>7, OverIsClear, EvictedIsClear
<1> QED BY <1>8 DEF v

(* A request within the limiter leaves the table settled. *)
LEMMA TableSettles ==
    ASSUME IInv, NEW k \in Key, WithinRateLimit(k)
    PROVE  Settled(k)
<1>1. LimiterWrites(k)
    BY DEF WithinRateLimit, LimiterWrites
<1> QED BY <1>1, RenewedAccounted, TableAfter DEF IInv

(* Every entry and every key without one, after a counted request.         *)
LEMMA AccountsAfter ==
    ASSUME IInv, NEW k \in Key, WithinRateLimit(k), now' = now
    PROVE  EntriesAccounted' /\ AbsentClear'
<1>1. Settled(k)
    BY TableSettles
<1>2. \A i \in DOMAIN requests : requests[i].key \in Key
    BY TableFacts DEF IInv
<1>3. ASSUME NEW j \in DOMAIN requests'
      PROVE  Accounted(requests'[j], now, sent'[requests'[j].key],
                       admitted'[requests'[j].key], evicted'[requests'[j].key])
    <2>1. CASE requests'[j] = Renewed(k)
        BY <2>1, RenewedAccounted
    <2>2. CASE requests'[j] # Renewed(k)
        <3>1. PICK i \in DOMAIN requests :
                 requests'[j] = requests[i] /\ requests[i].key \notin {k, Victim(k)}
            BY <1>1, <2>2 DEF Settled
        <3> DEFINE q == requests[i].key
        <3>2. q \in Key /\ q # k /\ q # Victim(k)
            BY <1>2, <3>1
        <3>3. sent'[q] = sent[q] /\ admitted'[q] = admitted[q] /\ evicted'[q] = evicted[q]
            BY <3>2, HistoriesAfter
        <3>4. Accounted(requests[i], now, sent[q], admitted[q], evicted[q])
            BY <3>1 DEF IInv, EntriesAccounted
        <3> QED BY <3>1, <3>3, <3>4
    <2> QED BY <2>1, <2>2
<1>4. ASSUME NEW q \in Key, \A j \in DOMAIN requests' : requests'[j].key # q
      PROVE  Clear(now, admitted'[q], evicted'[q])
    <2>1. q # k
        BY <1>1, <1>4, RenewedAccounted DEF Settled
    <2>2. CASE q = Victim(k)
        <3>1. Victim(k) # None
            BY <2>2, ProxyAssumption
        <3> QED BY <2>2, <3>1, VictimClear
    <2>3. CASE q # Victim(k)
        <3>1. Absent(q)
            BY <1>1, <1>4, <2>1, <2>3 DEF Settled, Absent
        <3>2. admitted'[q] = admitted[q] /\ evicted'[q] = evicted[q]
            BY <2>1, <2>3, HistoriesAfter
        <3> QED BY <3>1, <3>2 DEF IInv, AbsentClear
    <2> QED BY <2>2, <2>3
<1>5. EntriesAccounted'
    BY <1>3 DEF EntriesAccounted
<1>6. AbsentClear'
    BY <1>4 DEF AbsentClear, Absent
<1> QED BY <1>5, <1>6

(* What the refused were told, after a counted request. *)
LEMMA ToldAfter ==
    ASSUME IInv, NEW k \in Key, WithinRateLimit(k),
           retryAt' = [retryAt EXCEPT ![k] =
                         IF Allowed(k) THEN None
                         ELSE now + Second * RetryAfter(Position(k))]
    PROVE  retryAt' \in [Key -> Nat \cup {None}] /\ EntriesTold'
<1>1. TypeOK /\ now \in Nat /\ Second \in Nat \ {0} /\ RateWindow \in Nat
    BY TableFacts, ProxyAssumption DEF IInv
<1>2. retryAt \in [Key -> Nat \cup {None}]
    BY DEF IInv, HistoriesType
<1>3. ASSUME ~Allowed(k)
      PROVE  /\ now + Second * RetryAfter(Position(k)) \in Nat
             /\ Told(Renewed(k), now + Second * RetryAfter(Position(k)))
    <2> DEFINE r == requests[Position(k)]
               wait == r.resetsAt - now
               seconds == (wait + Second - 1) \div Second
    <2>1. WindowOpen(Position(k))
        BY <1>3 DEF Allowed
    <2>2. r \in Entry /\ r.resetsAt \in Nat /\ wait \in Nat \ {0}
        <3>1. Position(k) \in DOMAIN requests /\ r.resetsAt > now
            BY <2>1, PositionOf DEF WindowOpen
        <3>2. r \in Entry /\ r.resetsAt \in Nat
            BY <1>1, <3>1, TableFacts, ProxyAssumption DEF Entry
        <3> QED BY <1>1, <3>1, <3>2
    <2>3. Renewed(k).resetsAt = r.resetsAt
        BY <2>1, <2>2 DEF Renewed, Entry
    <2>4. RetryAfter(Position(k)) = IF seconds > 1 THEN seconds ELSE 1
        BY DEF RetryAfter
    <2>5. now + wait = r.resetsAt
        BY <1>1, <2>2
    <2> HIDE DEF r, wait
    <2>6. /\ seconds \in Nat /\ seconds >= 1
          /\ Second * seconds >= wait /\ Second * seconds - Second < wait
        BY <2>2, SecondsCover
    <2> HIDE DEF seconds
    <2>7. RetryAfter(Position(k)) = seconds /\ Second * seconds \in Nat
        BY <1>1, <2>4, <2>6
    <2> QED BY <1>1, <2>2, <2>3, <2>5, <2>6, <2>7 DEF Told
<1>4. /\ retryAt' \in [Key -> Nat \cup {None}]
      /\ retryAt'[k] = IF Allowed(k) THEN None
                       ELSE now + Second * RetryAfter(Position(k))
      /\ \A q \in Key \ {k} : retryAt'[q] = retryAt[q]
    BY <1>2, <1>3
<1>5. Told(Renewed(k), retryAt'[k])
    BY <1>3, <1>4 DEF Told
<1>6. ASSUME NEW j \in DOMAIN requests', requests'[j] # Renewed(k)
      PROVE  Told(requests'[j], retryAt'[requests'[j].key])
    <2>1. PICK i \in DOMAIN requests :
             requests'[j] = requests[i] /\ requests[i].key \notin {k, Victim(k)}
        BY <1>6, TableSettles DEF Settled
    <2>2. requests[i].key \in Key \ {k}
        BY <1>1, <2>1, TableFacts
    <2>3. Told(requests[i], retryAt[requests[i].key])
        BY <2>1 DEF IInv, EntriesTold
    <2> QED BY <1>4, <2>1, <2>2, <2>3
<1> QED BY <1>4, <1>5, <1>6, RenewedAccounted DEF EntriesTold

---------------------------------------------------------------------------
(* The invariant holds *)

(* The invariant holds of the empty table. *)
LEMMA InitHolds == Init => IInv
<1> SUFFICES ASSUME Init PROVE IInv
    OBVIOUS
<1>1. now = 0 /\ requests = <<>> /\ answer = NoAnswer
    BY DEF Init
<1>2. DOMAIN requests = {} /\ requests \in Seq(Entry) /\ Len(requests) = 0
    <2>1. <<>> \in Seq(Entry) /\ Len(<<>>) = 0
        BY EmptySeq
    <2> QED BY <1>1, <2>1, LenProperties
<1>3. TypeOK
    BY <1>1, <1>2, ProxyAssumption DEF TypeOK, Entry
<1>4. HistoriesType
    BY DEF Init, HistoriesType
<1>5. \A k \in Key : sent[k] = {} /\ admitted[k] = {} /\ evicted[k] = {}
    BY DEF Init
<1>6. HistoriesDated
    BY <1>5, EmptyDated DEF HistoriesDated
<1>7. AbsentClear
    <2>1. \A u \in Nat : Size({}, u) = 0 /\ Allowance({}, u) \in Nat
        BY EmptyDated, AllowanceBounds
    <2>2. Clear(now, {}, {})
        BY <2>1 DEF Clear
    <2> QED BY <1>5, <2>2 DEF AbsentClear
<1>8. EntriesAccounted /\ EntriesTold
    BY <1>2 DEF EntriesAccounted, EntriesTold
<1>9. RefusalEarned
    BY <1>1, ProxyAssumption DEF RefusalEarned, NoAnswer
<1> QED BY <1>3, <1>4, <1>6, <1>7, <1>8, <1>9 DEF IInv

(* The invariant is kept when time passes, ... *)
LEMMA TickHolds == ASSUME IInv, Tick PROVE IInv'
<1>1. /\ now \in Nat /\ now' = now + 1 /\ now + 1 <= MaxTime
      /\ requests' = requests /\ retryAt' = retryAt /\ answer' = NoAnswer
    <2>1. now \in Nat /\ MaxTime \in Nat
        BY TableFacts, ProxyAssumption DEF IInv
    <2> QED BY <2>1 DEF Tick
<1>2. \A k \in Key : /\ sent'[k] = Recent(sent[k], now + 1)
                     /\ admitted'[k] = Recent(admitted[k], now + 1)
                     /\ evicted'[k] = Recent(evicted[k], now + 1)
    BY <1>1 DEF Tick
<1>3. \A k \in Key : Dated(sent[k], now) /\ Dated(admitted[k], now) /\ Dated(evicted[k], now)
    BY DEF IInv, HistoriesDated
<1>4. TypeOK'
    BY <1>1, ProxyAssumption DEF IInv, TypeOK
<1>5. HistoriesDated'
    BY <1>1, <1>2, <1>3, ForgetDated DEF HistoriesDated
<1>6. HistoriesType'
    <2>1. \A k \in Key : /\ Recent(sent[k], now') \in SUBSET Occurrence
                         /\ Recent(admitted[k], now') \in SUBSET Occurrence
                         /\ Recent(evicted[k], now') \in SUBSET Occurrence
        BY <1>3 DEF Dated, Recent
    <2>2. {sent', admitted', evicted'} \subseteq [Key -> SUBSET Occurrence]
        BY <2>1 DEF Tick
    <2> QED BY <1>1, <2>2 DEF IInv, HistoriesType
<1>7. EntriesAccounted'
    <2> SUFFICES ASSUME NEW i \in DOMAIN requests
                 PROVE  LET r == requests[i] IN
                        Accounted(r, now + 1, sent'[r.key], admitted'[r.key], evicted'[r.key])
        BY <1>1 DEF EntriesAccounted
    <2>1. requests[i] \in Entry /\ requests[i].key \in Key
        BY TableFacts DEF IInv
    <2>2. LET r == requests[i] IN
          Accounted(r, now, sent[r.key], admitted[r.key], evicted[r.key])
        BY DEF IInv, EntriesAccounted
    <2> QED BY <1>1, <1>2, <1>3, <2>1, <2>2, AccountedLater
<1>8. AbsentClear'
    <2> SUFFICES ASSUME NEW k \in Key, Absent(k)
                 PROVE  Clear(now + 1, admitted'[k], evicted'[k])
        BY <1>1 DEF AbsentClear, Absent
    <2>1. Clear(now, admitted[k], evicted[k])
        BY DEF IInv, AbsentClear
    <2> QED BY <1>1, <1>2, <1>3, <2>1, ClearLater
<1>9. EntriesTold'
    BY <1>1 DEF IInv, EntriesTold
<1>10. RefusalEarned'
    BY <1>1, ProxyAssumption DEF RefusalEarned, NoAnswer
<1> QED BY <1>4, <1>5, <1>6, <1>7, <1>8, <1>9, <1>10 DEF IInv

(* ... by a request, whatever is wrong with it, ... *)
LEMMA PostHolds == ASSUME IInv, NEW request \in Request, Post(request) PROVE IInv'
<1> DEFINE k == request.key
<1>1. now' = now /\ k \in Key
    <2>1. \A headers \in Headers : ClientKey(headers) \in Key
        BY DEF ClientKey, Key
    <2> QED BY <2>1 DEF Post, Request
<1>2. CASE request.fails \in DOMAIN Uncounted
    <2>1. UNCHANGED <<now, requests, retryAt, sent, admitted, evicted>>
        BY <1>1, <1>2 DEF Post
    <2>2. answer'.status # 429
        <3>1. Uncounted[request.fails] \in {503, 403}
            BY <1>2 DEF Uncounted
        <3> QED BY <1>2, <3>1 DEF Post, Reply
    <2>3. RefusalEarned'
        BY <2>2 DEF RefusalEarned
    <2>4. TypeOK' /\ HistoriesType' /\ HistoriesDated'
        BY <2>1 DEF IInv, TypeOK, HistoriesType, HistoriesDated
    <2>5. EntriesAccounted' /\ AbsentClear' /\ EntriesTold'
        BY <2>1 DEF IInv, EntriesAccounted, AbsentClear, EntriesTold, Absent
    <2> QED BY <2>3, <2>4, <2>5 DEF IInv
<1>3. CASE request.fails \notin DOMAIN Uncounted
    <2>1. WithinRateLimit(k)
        BY <1>3 DEF Post
    <2>2. retryAt' = [retryAt EXCEPT ![k] =
                        IF Allowed(k) THEN None
                        ELSE now + Second * RetryAfter(Position(k))]
        BY <1>3 DEF Post
    <2>3. answer'.status = 429 => answer'.key = k /\ ~Allowed(k)
        <3>1. CASE Allowed(k)
            <4>1. request.fails # None => request.fails \in DOMAIN Counted
                BY <1>3, ProxyAssumption DEF Request
            <4>2. \A f \in DOMAIN Counted : Counted[f] # 429
                BY DEF Counted
            <4> QED BY <1>3, <3>1, <4>1, <4>2 DEF Post, Reply
        <3>2. CASE ~Allowed(k)
            BY <1>3, <3>2 DEF Post, Reply
        <3> QED BY <3>1, <3>2
    <2> HIDE DEF k
    <2>4. RefusalEarned'
        BY <1>1, <2>1, <2>3, RenewedAccounted DEF RefusalEarned
    <2>5. Settled(k)
        BY <1>1, <2>1, TableSettles
    <2>6. TypeOK'
        BY <1>1, <2>5 DEF IInv, TypeOK, Settled, Entry
    <2>7. HistoriesType' /\ EntriesTold'
        BY <1>1, <2>1, <2>2, HistoriesAfter, ToldAfter DEF HistoriesType
    <2>8. HistoriesDated'
        BY <1>1, <2>1, HistoriesAfter DEF HistoriesDated
    <2>9. EntriesAccounted' /\ AbsentClear'
        BY <1>1, <2>1, AccountsAfter
    <2> QED BY <2>4, <2>6, <2>7, <2>8, <2>9 DEF IInv
<1> QED BY <1>2, <1>3

(* ... and when nothing changes. *)
LEMMA StutterHolds == ASSUME IInv, UNCHANGED vars PROVE IInv'
<1>1. TypeOK' /\ HistoriesType' /\ HistoriesDated' /\ RefusalEarned'
    BY DEF IInv, vars, TypeOK, HistoriesType, HistoriesDated, RefusalEarned
<1>2. EntriesAccounted' /\ AbsentClear' /\ EntriesTold'
    BY DEF IInv, vars, EntriesAccounted, AbsentClear, EntriesTold, Absent
<1> QED BY <1>1, <1>2 DEF IInv

(* So the invariant always holds. *)
LEMMA InvariantHolds == Spec => []IInv
<1>1. IInv /\ [Next]_vars => IInv'
    BY TickHolds, PostHolds, StutterHolds DEF Next
<1> QED BY InitHolds, <1>1, PTL DEF Spec

---------------------------------------------------------------------------
(* What it says about the route *)

(* The table of the limiter never outgrows TableSize and never holds two   *)
(* entries of one client, however the requests interleave.                 *)
THEOREM TableStaysBounded == Spec => []TypeOK
<1>1. IInv => TypeOK
    BY DEF IInv
<1> QED BY InvariantHolds, <1>1, PTL

(* Whatever the requests and their timing, a span of one window lets       *)
(* through fewer requests of a client than two windows would, and at most  *)
(* those of one more for each time the full table forgot it.               *)
THEOREM RollingWindowBounded == Spec => []RollingBound
<1>1. IInv => RollingBound
    <2> SUFFICES ASSUME IInv, NEW k \in Key
                 PROVE  Cardinality(admitted[k]) < RateLimit * (2 + Cardinality(evicted[k]))
        BY DEF RollingBound
    <2>1. now \in Nat /\ Dated(admitted[k], now) /\ Dated(evicted[k], now) /\ RateLimit \in Nat
        BY TableFacts, ProxyAssumption DEF IInv, HistoriesDated
    <2> DEFINE a == Size(admitted[k], now)
               e == Size(evicted[k], now)
               allowance == Allowance(evicted[k], now)
    <2>2. /\ a = Cardinality(admitted[k]) /\ e = Cardinality(evicted[k])
          /\ a \in Nat /\ e \in Nat
        BY <2>1, SizeNow, SizeType
    <2>3. /\ allowance \in Nat /\ allowance + 1 >= RateLimit
          /\ RateLimit * (1 + (e + 1)) - 1 = allowance + RateLimit
        BY <2>1, AllowanceBounds
    <2>4. a <= allowance + RateLimit
        <3>1. CASE Absent(k)
            <4>1. a <= allowance
                BY <2>1, <3>1 DEF IInv, AbsentClear, Clear
            <4> QED BY <2>1, <2>2, <2>3, <4>1
        <3>2. CASE ~Absent(k)
            <4> DEFINE r == requests[Position(k)]
            <4>1. Position(k) \in DOMAIN requests /\ r.key = k
                BY <3>2, PositionOf
            <4>2. r \in Entry /\ Accounted(r, now, sent[k], admitted[k], evicted[k])
                BY <4>1, TableFacts DEF IInv, EntriesAccounted
            <4>3. r.count \in Nat /\ r.resetsAt \in Nat
                BY <4>2, ProxyAssumption DEF Entry
            <4>4. a <= allowance + Through(r.count) \/ a < Through(r.count)
                BY <2>1, <4>2, <4>3 DEF Accounted
            <4> HIDE DEF r, a, allowance
            <4> QED BY <2>1, <2>2, <2>3, <4>3, <4>4, ThroughBounds
        <3> QED BY <3>1, <3>2
    <2>5. 1 + (e + 1) = 2 + e /\ RateLimit * (1 + (e + 1)) \in Nat
        BY <2>1, <2>2
    <2> HIDE DEF a, e, allowance
    <2>6. a < RateLimit * (1 + (e + 1))
        BY <2>1, <2>2, <2>3, <2>4, <2>5
    <2> QED BY <2>2, <2>5, <2>6
<1> QED BY InvariantHolds, <1>1, PTL

(* A client is refused only for its own traffic: the answer 429 means that *)
(* it sent more than the limit within the last window.                     *)
THEOREM RefusalsAreEarned == Spec => []RefusedForOwnTraffic
<1>1. IInv => RefusedForOwnTraffic
    BY DEF IInv, RefusalEarned, RefusedForOwnTraffic
<1> QED BY InvariantHolds, <1>1, PTL

(* A client that was refused and waits as long as it was told is let       *)
(* through then, and was told less than a second more than it had to wait. *)
THEOREM RetryAfterIsHonest == Spec => []RetryAfterHonest
<1>1. IInv => RetryAfterHonest
    <2> SUFFICES ASSUME IInv, NEW k \in Key, retryAt[k] # None
                 PROVE  /\ now >= retryAt[k] => Allowed(k)
                        /\ Position(k) # 0 =>
                              retryAt[k] - Second < requests[Position(k)].resetsAt
        BY DEF RetryAfterHonest
    <2>1. CASE Absent(k)
        <3>1. 0 \notin DOMAIN requests
            BY TableFacts DEF IInv
        <3>2. Position(k) = 0
            BY <2>1, <3>1, PositionOf DEF Absent
        <3> QED BY <3>2 DEF Allowed, WindowOpen
    <2>2. CASE ~Absent(k)
        <3> DEFINE r == requests[Position(k)]
        <3>1. Position(k) \in DOMAIN requests /\ r.key = k
            BY <2>2, PositionOf
        <3>2. retryAt[k] >= r.resetsAt /\ retryAt[k] - Second < r.resetsAt
            BY <3>1 DEF IInv, EntriesTold, Told
        <3>3. r.resetsAt \in Nat /\ retryAt[k] \in Nat /\ now \in Nat
            <4>1. r \in Entry /\ now \in Nat
                BY <3>1, TableFacts DEF IInv
            <4> QED BY <4>1, ProxyAssumption DEF IInv, HistoriesType, Entry
        <3>4. now >= retryAt[k] => ~(r.resetsAt > now)
            BY <3>2, <3>3
        <3> QED BY <3>2, <3>4 DEF Allowed, WindowOpen
    <2> QED BY <2>1, <2>2
<1> QED BY InvariantHolds, <1>1, PTL
=============================
