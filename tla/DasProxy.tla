---- MODULE DasProxy ----
(***************************************************************************)
(* The DAS route of the web application: a proxy that counts the requests  *)
(* of each client in fixed windows, in a table of bounded size, before it  *)
(* validates and forwards them.  Nothing the handler shares with other     *)
(* requests changes after it first awaits, so one request is one step.     *)
(***************************************************************************)
EXTENDS Integers, Sequences, FiniteSets

CONSTANTS
    Client,         \* addresses a request may carry
    Local,          \* the key of requests without an address
    RateLimit,      \* RATE_LIMIT: 30
    RateWindow,     \* RATE_WINDOW_MS: 60 000
    Second,         \* 1 000 ms in the unit of RateWindow
    TableSize,      \* 1 000 keys
    Fault,          \* bound: the checks a request may fail
    MaxTime,        \* bound: Date.now()
    MaxSent,        \* bound: requests of a key within the length of a window
    Blank,          \* the empty string
    None            \* undefined, null

Key == Client \cup {Local}

(* What a request is checked for, in order, with the status of a failure.  *)
(* The first two precede the limiter and cost its sender nothing; the last *)
(* is the provider, which fails or does not answer in time.                *)
Uncounted == [configured |-> 503, origin |-> 403]
Counted ==
    [size |-> 413, json |-> 400, method |-> 400, params |-> 400,
     endpoint |-> 503, upstream |-> 502]

ASSUME ProxyAssumption ==
    /\ {RateLimit, RateWindow, Second, TableSize} \subseteq Nat \ {0}
    /\ {MaxTime, MaxSent} \subseteq Nat
    /\ None \notin Key \cup Nat /\ Blank \notin Client
    /\ Fault \subseteq DOMAIN Uncounted \cup DOMAIN Counted

VARIABLES
    now,        \* Date.now()
    requests,   \* the Map: entries [key, count, resetsAt] in order of insertion
    answer,     \* the last answer of this instant: to which key, which status
    retryAt,    \* history: when each refused key was last told to come back
    sent,       \* history: each key's counted requests, as occurrences
    admitted,   \* history: those that were let through
    evicted     \* history: the evictions of each key's entry, its window open

vars == <<now, requests, answer, retryAt, sent, admitted, evicted>>

NoAnswer == [key |-> None, status |-> None]

Init ==
    /\ now = 0
    /\ requests = <<>>
    /\ answer = NoAnswer
    /\ retryAt = [k \in Key |-> None]
    /\ sent = [k \in Key |-> {}]
    /\ admitted = [k \in Key |-> {}]
    /\ evicted = [k \in Key |-> {}]

---------------------------------------------------------------------------
(* The limiter *)

(* The three headers that may name the client: absent, without an address, *)
(* or with one.  A first header without an address hides the second (??),  *)
(* and then the third is asked (||).                                       *)
Headers ==
    [vercelForwarded : Client \cup {Blank, None}, forwarded : Client \cup {Blank, None},
     realIp : Client \cup {Blank, None}]

ClientKey(headers) ==
    LET forwarded == IF headers.vercelForwarded # None THEN headers.vercelForwarded
                     ELSE headers.forwarded
    IN IF forwarded \in Client THEN forwarded
       ELSE IF headers.realIp \in Client THEN headers.realIp
       ELSE Local

Position(k) ==
    IF \E i \in DOMAIN requests : requests[i].key = k
    THEN CHOOSE i \in DOMAIN requests : requests[i].key = k
    ELSE 0

(* Mutant: a window that ends now still counts. *)
WindowOpenAtEnd(i) == i # 0 /\ requests[i].resetsAt >= now

WindowOpen(i) == i # 0 /\ requests[i].resetsAt > now

Fresh(k) == [key |-> k, count |-> 1, resetsAt |-> now + RateWindow]

(* Mutant: the table is full one entry too late. *)
StartWindowOneMore(k) ==
    IF Position(k) # 0 THEN [requests EXCEPT ![Position(k)] = Fresh(k)]
    ELSE Append(IF Len(requests) > TableSize THEN Tail(requests) ELSE requests,
                Fresh(k))

(* A new window.  Map.set keeps the place of a key it already holds; a new *)
(* key may push the one inserted first out of a full table, whether or not *)
(* the window of that one is over.                                         *)
StartWindow(k) ==
    IF Position(k) # 0 THEN [requests EXCEPT ![Position(k)] = Fresh(k)]
    ELSE Append(IF Len(requests) >= TableSize THEN Tail(requests) ELSE requests,
                Fresh(k))

CountRequest(i) == [requests EXCEPT ![i].count = @ + 1]

(* Mutant: seconds are rounded down. *)
RetryAfterFloor(i) ==
    LET wait == requests[i].resetsAt - now IN
    IF wait \div Second > 1 THEN wait \div Second ELSE 1

RetryAfter(i) ==
    LET wait == requests[i].resetsAt - now
        seconds == (wait + Second - 1) \div Second
    IN IF seconds > 1 THEN seconds ELSE 1

(* Mutant: one more than the limit. *)
WithinLimitPlusOne(count) == count <= RateLimit + 1

WithinLimit(count) == count <= RateLimit

(* What withinRateLimit answers, before the table is written. *)
Allowed(k) ==
    WindowOpen(Position(k)) => WithinLimit(requests[Position(k)].count + 1)

Victim(k) ==
    IF Position(k) = 0 /\ Len(requests) >= TableSize THEN Head(requests).key ELSE None

(* One more occurrence in a history: its instant, and a number that tells  *)
(* the occurrences of one instant apart.                                   *)
Stamp(history) ==
    [at |-> now, nth |-> Cardinality({s \in history : s.at = now})]
Record(history) == history \cup {Stamp(history)}

WithinRateLimit(k) ==
    LET i == Position(k) IN
    /\ Cardinality(sent[k]) < MaxSent
    /\ requests' = IF WindowOpen(i) THEN CountRequest(i) ELSE StartWindow(k)
    /\ sent' = [sent EXCEPT ![k] = Record(@)]
    /\ admitted' = IF Allowed(k) THEN [admitted EXCEPT ![k] = Record(@)]
                   ELSE admitted
    /\ evicted' = IF /\ ~WindowOpen(i)
                     /\ Victim(k) # None
                     /\ WindowOpen(1)
                  THEN [evicted EXCEPT ![Victim(k)] = Record(@)]
                  ELSE evicted

---------------------------------------------------------------------------
(* The handler *)

(* A request as far as the handler is concerned: the client its headers    *)
(* name and the first check it fails, if any.                              *)
Request ==
    [key : {ClientKey(headers) : headers \in Headers}, fails : Fault \cup {None}]

Reply(k, status) == answer' = [key |-> k, status |-> status]

Post(request) ==
    LET k == request.key IN
    /\ IF request.fails \in DOMAIN Uncounted
       THEN /\ Reply(None, Uncounted[request.fails])
            /\ UNCHANGED <<requests, retryAt, sent, admitted, evicted>>
       ELSE /\ WithinRateLimit(k)
            /\ IF Allowed(k)
               THEN /\ Reply(k, IF request.fails = None THEN 200
                                ELSE Counted[request.fails])
                    /\ retryAt' = [retryAt EXCEPT ![k] = None]
               ELSE /\ Reply(k, 429)
                    /\ retryAt' = [retryAt EXCEPT ![k] =
                                     now + Second * RetryAfter(Position(k))]
    /\ UNCHANGED now

(* The histories forget what is older than a window. *)
Recent(history, t) == {s \in history : s.at + RateWindow > t}

Tick ==
    /\ now < MaxTime
    /\ now' = now + 1
    /\ sent' = [k \in Key |-> Recent(sent[k], now')]
    /\ admitted' = [k \in Key |-> Recent(admitted[k], now')]
    /\ evicted' = [k \in Key |-> Recent(evicted[k], now')]
    /\ answer' = NoAnswer
    /\ UNCHANGED <<requests, retryAt>>

Next == Tick \/ \E request \in Request : Post(request)

Spec == Init /\ [][Next]_vars

---------------------------------------------------------------------------
(* No entry is written twice and the table never outgrows its size.        *)
TypeOK ==
    /\ now \in 0 .. MaxTime
    /\ requests \in Seq([key : Key, count : 1 .. MaxSent,
                         resetsAt : 0 .. MaxTime + RateWindow])
    /\ Len(requests) <= TableSize
    /\ \A i, j \in DOMAIN requests : requests[i].key = requests[j].key => i = j

(* Whatever the requests and their timing, any span of one window lets     *)
(* through fewer requests of a client than two windows would: the end of   *)
(* one and the start of the next, without the request that opened the      *)
(* first.  Each time the full table forgot the client with its window open *)
(* adds at most one window more.                                           *)
RollingBound ==
    \A k \in Key :
        Cardinality(admitted[k]) < RateLimit * (2 + Cardinality(evicted[k]))

(* A client is refused only for its own traffic: the answer 429 means that *)
(* it sent more than the limit within the last window, however many other  *)
(* clients compete for the table.                                          *)
RefusedForOwnTraffic ==
    answer.status = 429 => Cardinality(sent[answer.key]) > RateLimit

(* A client that was refused and waits as long as retry-after says is let  *)
(* through then, whatever the others did to the table; and it was not told *)
(* to wait a second longer than its window lasts.                          *)
RetryAfterHonest ==
    \A k \in Key : retryAt[k] # None =>
        /\ now >= retryAt[k] => Allowed(k)
        /\ Position(k) # 0 => retryAt[k] - Second < requests[Position(k)].resetsAt

(* Each instance limits an address to RATE_LIMIT requests per minute:      *)
(* within any span of one window no more of them are let through.          *)
LimitPerMinute == \A k \in Client : Cardinality(admitted[k]) <= RateLimit
=============================
