---- MODULE StaffConsoleProofs ----
(***************************************************************************)
(* What the staff pages record, for any number of pages, codes, polls and  *)
(* transactions: every piece of evidence is of a ticket that was used.     *)
(***************************************************************************)
EXTENDS StaffConsole, FiniteSetTheorems, SequenceTheorems, TLAPS

Transaction ==
    [console : Console, ticket : Ticket,
     status : {"flight", "succeeded", "failed", "dropped"}]

Job == [step : {"build", "wait", "refresh"}, ticket : Ticket,
        signature : Nat \cup {None}, attempts : Nat]

PageView == [payload : Ticket \cup {None},
             authorization : {"unknown", "checking", "missing", "active"},
             consumedSignature : Nat \cup {None}]

TypeOK ==
    /\ intent \in [Ticket -> {"Pending", "Consumed"}]
    /\ sent \in Seq(Transaction)
    /\ page \in [Console -> PageView]
    /\ job \in [Console -> Job \cup {None}]
    /\ evidence \in [Console -> SUBSET [ticket : Ticket, signature : Nat]]

Succeeded(s) == sent[s].status = "succeeded"

(* A ticket is used by the one transaction that succeeded on it. *)
OneSuccess ==
    /\ \A s \in 1 .. Len(sent) : Succeeded(s) => intent[sent[s].ticket] = "Consumed"
    /\ \A s, r \in 1 .. Len(sent) :
          (Succeeded(s) /\ Succeeded(r) /\ sent[s].ticket = sent[r].ticket) => s = r
    /\ \A t \in Ticket : intent[t] = "Consumed" =>
          \E s \in 1 .. Len(sent) : Succeeded(s) /\ sent[s].ticket = t

(* The transaction s is one that console c sent for ticket t. *)
SentFor(s, c, t) ==
    s \in 1 .. Len(sent) /\ sent[s].console = c /\ sent[s].ticket = t

(* What is true of an operation that has sent, and of one that saw its     *)
(* ticket used, whatever the page shows by then.                           *)
JobsGenuine ==
    \A c \in Console : job[c] # None =>
        /\ job[c].step # "build" => SentFor(job[c].signature, c, job[c].ticket)
        /\ job[c].step = "refresh" => intent[job[c].ticket] = "Consumed"

EvidenceGenuine ==
    \A c \in Console : \A entry \in evidence[c] :
        /\ SentFor(entry.signature, c, entry.ticket)
        /\ intent[entry.ticket] = "Consumed"

IInv == TypeOK /\ OneSuccess /\ JobsGenuine /\ EvidenceGenuine

---------------------------------------------------------------------------
(* Steps that leave the chain and the transactions alone *)

(* While intents and transactions stay, so does what was consumed. *)
LEMMA SameChain ==
    ASSUME UNCHANGED <<intent, sent>>, OneSuccess
    PROVE  OneSuccess'
BY DEF OneSuccess, Succeeded

(* While they and the jobs stay, so does what a job knows. *)
LEMMA SameJobs ==
    ASSUME UNCHANGED <<intent, sent, job>>, JobsGenuine
    PROVE  JobsGenuine'
BY DEF JobsGenuine, SentFor

(* While they and the evidence stay, the evidence stays genuine. *)
LEMMA SameEvidence ==
    ASSUME UNCHANGED <<intent, sent, evidence>>, EvidenceGenuine
    PROVE  EvidenceGenuine'
BY DEF EvidenceGenuine, SentFor

(* The invariant is kept by a page that scans or reads, ... *)
LEMMA PageStep ==
    ASSUME IInv, NEW c \in Console,
           \/ \E t \in Ticket : Inspect(c, t)
           \/ InspectInvalid(c) \/ Authorization(c)
    PROVE  IInv'
<1>1. UNCHANGED <<intent, sent, job, evidence>>
    BY DEF Inspect, InspectInvalid, Authorization, chainVars
<1>2. page' \in [Console -> PageView]
    <2>1. ASSUME NEW t \in Ticket, Inspect(c, t)
          PROVE  page' \in [Console -> PageView]
        BY <2>1 DEF IInv, TypeOK, Inspect, PageView
    <2>2. CASE InspectInvalid(c)
        BY <2>2 DEF IInv, TypeOK, InspectInvalid, PageView
    <2>3. CASE Authorization(c)
        <3>1. PICK answer \in {"missing", "active"} :
                  page' = [page EXCEPT ![c] = [page[c] EXCEPT !.authorization = answer]]
            BY <2>3 DEF Authorization
        <3>2. [page[c] EXCEPT !.authorization = answer] \in PageView
            BY DEF IInv, TypeOK, PageView
        <3> QED BY <3>1, <3>2 DEF IInv, TypeOK
    <2> QED BY <2>1, <2>2, <2>3
<1>3. TypeOK'
    BY <1>1, <1>2 DEF IInv, TypeOK
<1> QED BY <1>1, <1>3, SameChain, SameJobs, SameEvidence DEF IInv

(* What execute does between the click and the answer of the chain. *)
LEMMA JobStep ==
    ASSUME IInv, NEW c \in Console,
           Consume(c) \/ SendFails(c) \/ Poll(c) \/ PollAgain(c)
    PROVE  IInv'
<1>1. UNCHANGED <<intent, sent, page, evidence>>
    BY DEF Consume, SendFails, Poll, PollAgain, chainVars
<1>2. /\ job' \in [Console -> Job \cup {None}]
      /\ \A d \in Console : d # c => job'[d] = job[d]
      /\ job'[c] # None =>
            \/ job'[c].step = "build"
            \/ /\ job[c] # None /\ job[c].step # "build"
               /\ job'[c].signature = job[c].signature
               /\ job'[c].ticket = job[c].ticket
               /\ job'[c].step = "refresh" =>
                     (job[c].step = "refresh" \/ intent[job[c].ticket] = "Consumed")
    <2>0. job \in [Console -> Job \cup {None}]
        BY DEF IInv, TypeOK
    <2>1. CASE Consume(c)
        <3>1. page[c].payload \in Ticket
            BY <2>1 DEF IInv, TypeOK, PageView, Consume
        <3> QED BY <2>0, <2>1, <3>1 DEF Consume, Job
    <2>2. CASE SendFails(c)
        BY <2>0, <2>2 DEF SendFails
    <2>3. CASE Poll(c)
        BY <2>0, <2>3 DEF Poll, SeesUsed, Job
    <2>4. CASE PollAgain(c)
        <3>1. job[c] \in Job /\ job[c].step = "wait"
            BY <2>0, <2>4 DEF PollAgain
        <3>2. CASE job' = [job EXCEPT ![c] = None]
            BY <2>0, <3>2
        <3>3. CASE job' = [job EXCEPT ![c].attempts = @ + 1]
            BY <2>0, <3>1, <3>3, <2>4 DEF Job, PollAgain
        <3> QED BY <2>4, <3>2, <3>3 DEF PollAgain
    <2> QED BY <2>1, <2>2, <2>3, <2>4
<1>3. JobsGenuine'
    BY <1>1, <1>2 DEF IInv, JobsGenuine, SentFor
<1>4. TypeOK'
    BY <1>1, <1>2 DEF IInv, TypeOK
<1> QED BY <1>1, <1>3, <1>4, SameChain, SameEvidence DEF IInv

(* ... by one that sends, whose transaction is new, ... *)
LEMMA SignAndSendStep ==
    ASSUME IInv, NEW c \in Console, SignAndSend(c)
    PROVE  IInv'
<1> DEFINE tx == [console |-> c, ticket |-> job[c].ticket, status |-> "flight"]
<1>0. PICK n : n = Len(sent) + 1
    OBVIOUS
<1>1. job[c] \in Job /\ sent \in Seq(Transaction) /\ Len(sent) \in Nat
    BY DEF IInv, TypeOK, SignAndSend
<1>2. tx \in Transaction /\ tx.status = "flight"
    BY <1>1 DEF Job, Transaction
<1>3. /\ sent' \in Seq(Transaction) /\ Len(sent') = n
      /\ \A s \in 1 .. Len(sent) : sent'[s] = sent[s]
      /\ sent'[n] = tx
    BY <1>0, <1>1, <1>2 DEF SignAndSend
<1>4. /\ job' = [job EXCEPT ![c] = [@ EXCEPT !.step = "wait", !.signature = n]]
      /\ UNCHANGED <<intent, page, evidence>>
    BY <1>0 DEF SignAndSend, chainVars
<1>5. /\ job'[c] = [job[c] EXCEPT !.step = "wait", !.signature = n]
      /\ job'[c] \in Job
      /\ \A d \in Console : d # c => job'[d] = job[d]
      /\ job' \in [Console -> Job \cup {None}]
    <2>1. job \in [Console -> Job \cup {None}]
        BY DEF IInv, TypeOK
    <2>2. ASSUME NEW j \in Job
          PROVE  [j EXCEPT !.step = "wait"] \in Job
        BY DEF Job
    <2>3. ASSUME NEW j \in Job
          PROVE  [j EXCEPT !.signature = n] \in Job
        BY <1>0, <1>1 DEF Job
    <2>4. [job[c] EXCEPT !.step = "wait", !.signature = n] \in Job
        BY <1>1, <2>2, <2>3
    <2> QED BY <1>4, <2>1, <2>4
<1>6. TypeOK'
    BY <1>3, <1>4, <1>5 DEF IInv, TypeOK
<1>7. OneSuccess'
    <2>1. \A s \in 1 .. n : s # n => s \in 1 .. Len(sent)
        BY <1>0, <1>1
    <2>2. sent'[n].status # "succeeded"
        <3> HIDE DEF tx
        <3> QED BY <1>2, <1>3
    <2>3. \A s \in 1 .. Len(sent') : Succeeded(s)' =>
              s \in 1 .. Len(sent) /\ Succeeded(s) /\ sent'[s] = sent[s]
        BY <1>3, <2>1, <2>2 DEF Succeeded
    <2>4. \A s \in 1 .. Len(sent) : Succeeded(s) =>
              s \in 1 .. Len(sent') /\ Succeeded(s)' /\ sent'[s] = sent[s]
        BY <1>0, <1>1, <1>3 DEF Succeeded
    <2> HIDE DEF tx
    <2> QED BY <1>4, <2>3, <2>4 DEF IInv, OneSuccess
<1>8. \A s, d, t : SentFor(s, d, t) => SentFor(s, d, t)'
    BY <1>0, <1>1, <1>3 DEF SentFor
<1>9. JobsGenuine'
    <2>1. n \in 1 .. Len(sent') /\ sent'[n].console = c /\ sent'[n].ticket = job[c].ticket
        BY <1>0, <1>1, <1>3
    <2>2. job'[c].step = "wait" /\ job'[c].signature = n /\ job'[c].ticket = job[c].ticket
        BY <1>1, <1>5 DEF Job
    <2> QED
        BY <1>4, <1>5, <1>8, <2>1, <2>2 DEF IInv, JobsGenuine, SentFor
<1>10. EvidenceGenuine'
    BY <1>4, <1>8 DEF IInv, EvidenceGenuine
<1> QED BY <1>6, <1>7, <1>9, <1>10 DEF IInv

(* ... and by one that ends, whose evidence names its own transaction. *)
LEMMA FinishStep ==
    ASSUME IInv, NEW c \in Console, Finish(c)
    PROVE  IInv'
<1> DEFINE entry == [ticket |-> job[c].ticket, signature |-> job[c].signature]
<1>1. job[c] \in Job /\ job[c] # None /\ job[c].step = "refresh"
    BY DEF IInv, TypeOK, Finish
<1>2. SentFor(job[c].signature, c, job[c].ticket) /\ intent[job[c].ticket] = "Consumed"
    BY <1>1 DEF IInv, JobsGenuine
<1>3. /\ UNCHANGED <<intent, sent>>
      /\ page' = [page EXCEPT ![c].consumedSignature = job[c].signature]
      /\ evidence' = [evidence EXCEPT ![c] = @ \cup {entry}]
      /\ job' = [job EXCEPT ![c] = None]
    BY DEF Finish, chainVars
<1>4. entry \in [ticket : Ticket, signature : Nat]
    <2>1. Len(sent) \in Nat
        BY DEF IInv, TypeOK
    <2>2. job[c].signature \in Nat
        BY <1>2, <2>1 DEF SentFor
    <2> QED BY <1>1, <2>2 DEF Job
<1>5. TypeOK'
    <2>1. job[c].signature \in Nat
        BY <1>4
    <2>2. [page[c] EXCEPT !.consumedSignature = job[c].signature] \in PageView
        BY <2>1 DEF IInv, TypeOK, PageView
    <2>3. page' \in [Console -> PageView]
        BY <1>3, <2>2 DEF IInv, TypeOK
    <2>4. evidence' \in [Console -> SUBSET [ticket : Ticket, signature : Nat]]
        BY <1>3, <1>4 DEF IInv, TypeOK
    <2>5. job' \in [Console -> Job \cup {None}]
        BY <1>3 DEF IInv, TypeOK
    <2> QED BY <1>3, <2>3, <2>4, <2>5 DEF IInv, TypeOK
<1>6. JobsGenuine'
    BY <1>3 DEF IInv, TypeOK, JobsGenuine, SentFor
<1>7. EvidenceGenuine'
    <2>1. ASSUME NEW d \in Console, NEW x \in evidence'[d]
          PROVE  x \in evidence[d] \/ (d = c /\ x = entry)
        BY <1>3, <2>1 DEF IInv, TypeOK
    <2> QED BY <1>2, <1>3, <2>1 DEF IInv, EvidenceGenuine, SentFor
<1> QED BY <1>3, <1>5, <1>6, <1>7, SameChain DEF IInv

---------------------------------------------------------------------------
(* The chain *)

(* A transaction changes its status; a success uses its ticket.            *)
LEMMA ChainStep ==
    ASSUME IInv, NEW s \in 1 .. Len(sent), Execute(s) \/ Drop(s)
    PROVE  IInv'
<1> DEFINE t == sent[s].ticket
<1>1. sent \in Seq(Transaction) /\ Len(sent) \in Nat /\ t \in Ticket
    <2>1. sent \in Seq(Transaction)
        BY DEF IInv, TypeOK
    <2>2. sent[s] \in Transaction
        BY <2>1, ElementOfSeq
    <2> QED BY <2>1, <2>2 DEF Transaction
<1>0. \A r \in 1 .. Len(sent) : sent[r] \in Transaction
    BY <1>1, ElementOfSeq
<1>2. /\ sent[s].status = "flight"
      /\ UNCHANGED <<page, job, evidence>>
      /\ \/ /\ intent[t] = "Pending"
            /\ intent' = [intent EXCEPT ![t] = "Consumed"]
            /\ sent' = [sent EXCEPT ![s].status = "succeeded"]
         \/ /\ intent' = intent
            /\ \E result \in {"failed", "dropped"} :
                  sent' = [sent EXCEPT ![s].status = result]
    BY DEF Execute, Drop, Accepts, chainVars
<1> DEFINE SameButStatus ==
              /\ sent' \in Seq(Transaction) /\ Len(sent') = Len(sent)
              /\ \A r \in 1 .. Len(sent) :
                    /\ sent'[r].console = sent[r].console
                    /\ sent'[r].ticket = sent[r].ticket
                    /\ r # s => sent'[r] = sent[r]
<1>3. SameButStatus
    <2>1. ASSUME NEW result \in {"succeeded", "failed", "dropped"},
                 sent' = [sent EXCEPT ![s].status = result]
          PROVE  SameButStatus
        <3>1. [sent[s] EXCEPT !.status = result] \in Transaction
            BY <1>0 DEF Transaction
        <3>2. sent' = [sent EXCEPT ![s] = [sent[s] EXCEPT !.status = result]]
            BY <2>1
        <3>3. sent' \in Seq(Transaction) /\ Len(sent') = Len(sent)
            BY <1>1, <3>1, <3>2, ExceptSeq
        <3>4. \A r \in 1 .. Len(sent) :
                  sent'[r] = IF r = s THEN [sent[s] EXCEPT !.status = result] ELSE sent[r]
            BY <1>1, <3>2
        <3> QED BY <1>0, <3>3, <3>4 DEF Transaction
    <2> QED BY <1>2, <2>1
<1>4. /\ intent' \in [Ticket -> {"Pending", "Consumed"}]
      /\ \A u \in Ticket : intent[u] = "Consumed" => intent'[u] = "Consumed"
    BY <1>1, <1>2 DEF IInv, TypeOK
<1>5. TypeOK'
    BY <1>2, <1>3, <1>4 DEF IInv, TypeOK
<1>6. OneSuccess'
    <2>1. CASE /\ intent[t] = "Pending"
               /\ intent' = [intent EXCEPT ![t] = "Consumed"]
               /\ sent' = [sent EXCEPT ![s].status = "succeeded"]
        <3>1. sent'[s].status = "succeeded" /\ intent'[t] = "Consumed"
            BY <1>1, <2>1 DEF IInv, TypeOK, Transaction
        <3>2. \A r \in 1 .. Len(sent) :
                  Succeeded(r)' => r = s \/ (Succeeded(r) /\ sent[r].ticket # t)
            BY <1>3, <2>1 DEF IInv, OneSuccess, Succeeded
        <3>3. \A u \in Ticket : u # t => intent'[u] = intent[u]
            BY <2>1 DEF IInv, TypeOK
        <3>4. \A r \in 1 .. Len(sent) : sent[r].ticket \in Ticket
            BY <1>0 DEF Transaction
        <3>5. \A r \in 1 .. Len(sent) : Succeeded(r)' => intent'[sent'[r].ticket] = "Consumed"
            BY <1>3, <3>1, <3>2, <3>3, <3>4 DEF IInv, OneSuccess
        <3>6. \A r, q \in 1 .. Len(sent) :
                  (Succeeded(r)' /\ Succeeded(q)' /\ sent'[r].ticket = sent'[q].ticket)
                     => r = q
            BY <1>3, <3>2 DEF IInv, OneSuccess
        <3>7. \A u \in Ticket : intent'[u] = "Consumed" =>
                  \E r \in 1 .. Len(sent) : Succeeded(r)' /\ sent'[r].ticket = u
            <4> SUFFICES ASSUME NEW u \in Ticket, intent'[u] = "Consumed"
                         PROVE  \E r \in 1 .. Len(sent) :
                                   Succeeded(r)' /\ sent'[r].ticket = u
                OBVIOUS
            <4>1. CASE u = t
                BY <1>3, <3>1, <4>1 DEF Succeeded
            <4>2. CASE u # t
                <5>1. PICK r \in 1 .. Len(sent) : Succeeded(r) /\ sent[r].ticket = u
                    BY <3>3, <4>2 DEF IInv, OneSuccess
                <5> QED BY <1>3, <4>2, <5>1 DEF Succeeded
            <4> QED BY <4>1, <4>2
        <3> QED BY <1>3, <3>5, <3>6, <3>7 DEF OneSuccess
    <2>2. CASE /\ intent' = intent
               /\ \E result \in {"failed", "dropped"} :
                     sent' = [sent EXCEPT ![s].status = result]
        <3>1. ~Succeeded(s) /\ ~Succeeded(s)'
            BY <1>1, <1>2, <2>2 DEF Succeeded, Transaction
        <3>2. \A r \in 1 .. Len(sent) : Succeeded(r)' <=> Succeeded(r)
            BY <1>3, <3>1 DEF Succeeded
        <3> QED BY <1>3, <2>2, <3>2 DEF IInv, OneSuccess
    <2> QED BY <1>2, <2>1, <2>2
<1>7. \A r, d, u : SentFor(r, d, u) => SentFor(r, d, u)'
    BY <1>3 DEF SentFor
<1>8. JobsGenuine'
    BY <1>2, <1>4, <1>7 DEF IInv, TypeOK, JobsGenuine, Job
<1>9. EvidenceGenuine'
    BY <1>2, <1>4, <1>7 DEF IInv, TypeOK, EvidenceGenuine
<1> QED BY <1>5, <1>6, <1>8, <1>9 DEF IInv

(* Every step keeps the invariant. *)
LEMMA Inductive ==
    ASSUME IInv, [Next]_vars
    PROVE  IInv'
<1>1. ASSUME NEW s \in 1 .. Len(sent), Execute(s) \/ Drop(s)
      PROVE  IInv'
    BY <1>1, ChainStep
<1>2. CASE \E t \in Ticket : IntentExpires(t)
    BY <1>2, SameChain, SameJobs, SameEvidence DEF IInv, TypeOK, IntentExpires
<1>3. CASE \E c \in Console : Revoke(c)
    BY <1>3, SameChain, SameJobs, SameEvidence DEF IInv, TypeOK, Revoke
<1>4. ASSUME NEW c \in Console,
             \/ \E t \in Ticket : Inspect(c, t)
             \/ InspectInvalid(c) \/ Authorization(c)
      PROVE  IInv'
    BY <1>4, PageStep
<1>5. ASSUME NEW c \in Console,
             Consume(c) \/ SendFails(c) \/ Poll(c) \/ PollAgain(c)
      PROVE  IInv'
    BY <1>5, JobStep
<1>6. ASSUME NEW c \in Console, SignAndSend(c)
      PROVE  IInv'
    BY <1>6, SignAndSendStep
<1>7. ASSUME NEW c \in Console, Finish(c)
      PROVE  IInv'
    BY <1>7, FinishStep
<1>8. CASE UNCHANGED vars
    BY <1>8, SameChain, SameJobs, SameEvidence DEF IInv, TypeOK, vars, chainVars
<1> QED BY <1>1, <1>2, <1>3, <1>4, <1>5, <1>6, <1>7, <1>8 DEF Next

(* The invariant holds before anything is scanned. *)
LEMMA Initially ==
    ASSUME Init
    PROVE  IInv
<1>1. TypeOK
    BY DEF Init, TypeOK, Idle, PageView
<1>2. Len(sent) = 0 /\ \A t \in Ticket : intent[t] = "Pending"
    BY DEF Init
<1> QED
    BY <1>1, <1>2 DEF Init, IInv, OneSuccess, JobsGenuine, EvidenceGenuine

(* The transactions that used a ticket are one or none. *)
LEMMA EvidenceFollows ==
    ASSUME IInv
    PROVE  EvidenceOfUse
<1>1. ASSUME NEW t \in Ticket
      PROVE  Cardinality({s \in 1 .. Len(sent) :
                             sent[s].ticket = t /\ sent[s].status = "succeeded"})
                = (IF intent[t] = "Consumed" THEN 1 ELSE 0)
    <2> DEFINE S == {s \in 1 .. Len(sent) :
                        sent[s].ticket = t /\ sent[s].status = "succeeded"}
    <2>1. CASE intent[t] = "Consumed"
        <3>1. PICK s \in 1 .. Len(sent) : Succeeded(s) /\ sent[s].ticket = t
            BY <2>1 DEF IInv, OneSuccess
        <3>2. S = {s}
            BY <3>1 DEF IInv, OneSuccess, Succeeded
        <3> HIDE DEF S
        <3>3. Cardinality(S) = 1
            BY <3>2, FS_Singleton
        <3> QED BY <2>1, <3>3 DEF S
    <2>2. CASE intent[t] # "Consumed"
        <3>1. S = {}
            BY <2>2 DEF IInv, OneSuccess, Succeeded
        <3> HIDE DEF S
        <3>2. Cardinality(S) = 0
            BY <3>1, FS_EmptySet
        <3> QED BY <2>2, <3>2 DEF S
    <2> QED BY <2>1, <2>2
<1>2. \A c \in Console : \A entry \in evidence[c] :
          /\ intent[entry.ticket] = "Consumed"
          /\ sent[entry.signature].console = c
          /\ sent[entry.signature].ticket = entry.ticket
    BY DEF IInv, EvidenceGenuine, SentFor
<1> QED BY <1>1, <1>2 DEF EvidenceOfUse

(* However many pages scan however many codes, a ticket is consumed by one *)
(* transaction at most, and no browser keeps evidence of a consumption     *)
(* that did not happen or that it sent for another ticket.                 *)
THEOREM EvidenceAlwaysOfUse == Spec => []EvidenceOfUse
<1>1. Init => IInv
    BY Initially
<1>2. IInv /\ [Next]_vars => IInv'
    BY Inductive
<1>3. IInv => EvidenceOfUse
    BY EvidenceFollows
<1> QED BY <1>1, <1>2, <1>3, PTL DEF Spec
=============================================================================
