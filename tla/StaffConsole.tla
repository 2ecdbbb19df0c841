---- MODULE StaffConsole ----
(***************************************************************************)
(* The check-in pages of several members of the staff, their wallets and   *)
(* the RPC between them and the program.  A QR code carries one intent and *)
(* is named here by its ticket.  The program is what Ticketing proves of   *)
(* it: an intent is consumed by at most one transaction, before it         *)
(* expires, for a staff member active when the transaction executes.       *)
(***************************************************************************)
EXTENDS Naturals, Sequences, FiniteSets, TLC

CONSTANTS
    Console,        \* open pages, each with the wallet of one staff member
    Ticket,         \* tickets whose holder shows a QR code
    MaxAttempts,    \* polls of waitForTicketStatus: 20 in the program
    MaxSent,        \* bound: transactions sent
    None            \* undefined, or ''

ASSUME ConsoleAssumption ==
    /\ MaxAttempts \in Nat \ {0}
    /\ MaxSent \in Nat

VARIABLES
    intent,     \* on chain: "Pending" or "Consumed"; Consumed means Used
    late,       \* tickets whose intent has passed its expires_at
    active,     \* consoles whose wallet is authorised on chain
    sent,       \* transactions, by signature
    page,       \* what each page shows
    job,        \* the operation `execute` runs on each page, or None
    evidence    \* the consumptions each browser has recorded

chainVars == <<intent, late, active>>
vars == <<chainVars, sent, page, job, evidence>>

Idle == [payload |-> None, authorization |-> "unknown", consumedSignature |-> None]

Init ==
    /\ intent = [t \in Ticket |-> "Pending"]
    /\ late = {}
    /\ active \in SUBSET Console
    /\ sent = <<>>
    /\ page = [c \in Console |-> Idle]
    /\ job = [c \in Console |-> None]
    /\ evidence = [c \in Console |-> {}]

---------------------------------------------------------------------------
(* The chain *)

Accepts(c, t) == intent[t] = "Pending" /\ t \notin late /\ c \in active

(* A transaction in flight executes, and succeeds or fails, or its         *)
(* blockhash expires and it never lands.                                   *)
Execute(s) ==
    LET c == sent[s].console
        t == sent[s].ticket
    IN
    /\ sent[s].status = "flight"
    /\ IF Accepts(c, t)
       THEN /\ intent' = [intent EXCEPT ![t] = "Consumed"]
            /\ sent' = [sent EXCEPT ![s].status = "succeeded"]
       ELSE /\ sent' = [sent EXCEPT ![s].status = "failed"]
            /\ UNCHANGED intent
    /\ UNCHANGED <<late, active, page, job, evidence>>

Drop(s) ==
    /\ sent[s].status = "flight"
    /\ sent' = [sent EXCEPT ![s].status = "dropped"]
    /\ UNCHANGED <<chainVars, page, job, evidence>>

IntentExpires(t) ==
    /\ late' = late \cup {t}
    /\ UNCHANGED <<intent, active, sent, page, job, evidence>>

Revoke(c) ==
    /\ active' = active \ {c}
    /\ UNCHANGED <<intent, late, sent, page, job, evidence>>

---------------------------------------------------------------------------
(* The page *)

(* inspect: neither the scanner nor the form waits for a pending operation. *)
Inspect(c, t) ==
    /\ page' = [page EXCEPT ![c] =
                  [payload |-> t, authorization |-> "checking",
                   consumedSignature |-> None]]
    /\ UNCHANGED <<chainVars, sent, job, evidence>>

(* A code that cannot be read clears the payload, not the signature shown. *)
InspectInvalid(c) ==
    /\ page' = [page EXCEPT ![c] =
                  [@ EXCEPT !.payload = None, !.authorization = "unknown"]]
    /\ UNCHANGED <<chainVars, sent, job, evidence>>

(* The authorisation is read once per payload; an RPC error is "missing".  *)
Authorization(c) ==
    /\ page[c].authorization = "checking"
    /\ \E answer \in {"missing"} \cup (IF c \in active THEN {"active"} ELSE {}) :
          page' = [page EXCEPT ![c].authorization = answer]
    /\ UNCHANGED <<chainVars, sent, job, evidence>>

(* consume: the button, then `execute` takes the page. *)
Consume(c) ==
    /\ page[c].payload # None
    /\ page[c].payload \notin late
    /\ page[c].authorization = "active"
    /\ page[c].consumedSignature = None
    /\ job[c] = None
    /\ job' = [job EXCEPT ![c] = [step |-> "build", ticket |-> page[c].payload,
                                  signature |-> None, attempts |-> 0]]
    /\ UNCHANGED <<chainVars, sent, page, evidence>>

(* sendInstructions: the wallet has the transaction signed and sends it.   *)
(* The page only asks it to simulate first; it may do so on an old state,  *)
(* or not at all, and the staff member may always refuse.                  *)
SignAndSend(c) ==
    /\ job[c] # None /\ job[c].step = "build"
    /\ Len(sent) < MaxSent
    /\ sent' = Append(sent, [console |-> c, ticket |-> job[c].ticket,
                             status |-> "flight"])
    /\ job' = [job EXCEPT ![c] = [@ EXCEPT !.step = "wait", !.signature = Len(sent) + 1]]
    /\ UNCHANGED <<chainVars, page, evidence>>

SendFails(c) ==
    /\ job[c] # None /\ job[c].step = "build"
    /\ job' = [job EXCEPT ![c] = None]
    /\ UNCHANGED <<chainVars, sent, page, evidence>>

(* Mutant: a transaction that was sent is taken for a consumed ticket. *)
SeesUsedOnceSent(c) == job[c].signature # None

SeesUsed(c) == intent[job[c].ticket] = "Consumed"

(* waitForTicketStatus: one read of the ticket, not of the transaction.    *)
Poll(c) ==
    /\ job[c] # None /\ job[c].step = "wait"
    /\ SeesUsed(c)
    /\ job' = [job EXCEPT ![c].step = "refresh"]
    /\ UNCHANGED <<chainVars, sent, page, evidence>>

(* The read lags, or fails, or was the last: CONFIRMATION_TIMEOUT, with the *)
(* transaction possibly still in flight.                                   *)
PollAgain(c) ==
    /\ job[c] # None /\ job[c].step = "wait"
    /\ \/ /\ job[c].attempts + 1 < MaxAttempts
          /\ job' = [job EXCEPT ![c].attempts = @ + 1]
       \/ job' = [job EXCEPT ![c] = None]
    /\ UNCHANGED <<chainVars, sent, page, evidence>>

(* execute has refreshed the catalogue: the signature goes to the page as  *)
(* it is now, the evidence to the payload as it was.                       *)
Finish(c) ==
    /\ job[c] # None /\ job[c].step = "refresh"
    /\ page' = [page EXCEPT ![c].consumedSignature = job[c].signature]
    /\ evidence' = [evidence EXCEPT ![c] =
                      @ \cup {[ticket |-> job[c].ticket, signature |-> job[c].signature]}]
    /\ job' = [job EXCEPT ![c] = None]
    /\ UNCHANGED <<chainVars, sent>>

Next ==
    \/ \E s \in 1 .. Len(sent) : Execute(s) \/ Drop(s)
    \/ \E t \in Ticket : IntentExpires(t)
    \/ \E c \in Console :
          \/ Revoke(c)
          \/ \E t \in Ticket : Inspect(c, t)
          \/ InspectInvalid(c)
          \/ Authorization(c) \/ Consume(c)
          \/ SignAndSend(c) \/ SendFails(c)
          \/ Poll(c) \/ PollAgain(c) \/ Finish(c)

Spec == Init /\ [][Next]_vars

DoorSymmetry == Permutations(Console) \cup Permutations(Ticket)

---------------------------------------------------------------------------
(* Consumption, whichever pages send it and in whichever order their       *)
(* transactions land, succeeds once per ticket; and a page records a       *)
(* consumption only of a ticket that was used, under a signature of its    *)
(* own that was sent for that very ticket, however often other codes were  *)
(* scanned meanwhile.                                                      *)
EvidenceOfUse ==
    /\ \A t \in Ticket :
          Cardinality({s \in 1 .. Len(sent) :
                          sent[s].ticket = t /\ sent[s].status = "succeeded"})
             = (IF intent[t] = "Consumed" THEN 1 ELSE 0)
    /\ \A c \in Console : \A entry \in evidence[c] :
          /\ intent[entry.ticket] = "Consumed"
          /\ sent[entry.signature].console = c
          /\ sent[entry.signature].ticket = entry.ticket

(* A second consumption is rejected: no page shows an access as consumed   *)
(* by a transaction that the program refused.                              *)
SecondUseRejected ==
    \A c \in Console : \A entry \in evidence[c] :
        sent[entry.signature].status # "failed"
=============================
