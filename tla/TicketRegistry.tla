---- MODULE TicketRegistry ----
(***************************************************************************)
(* What the program promises to somebody who sees only tickets: a ticket   *)
(* is issued once to one holder; while held it can be given away, offered  *)
(* for sale or presented at the door; an offered ticket can only be sold   *)
(* or withdrawn, a presented one only retracted or admitted; and an        *)
(* admitted ticket is used for good.  There is no clock, no money, no      *)
(* event and no other account here.                                        *)
(***************************************************************************)
CONSTANTS Tickets, Holders, Nobody

VARIABLES
    phase,      \* "unissued", "held", "offered", "presented" or "used"
    holder      \* the holder of a ticket, Nobody until it is issued

RegistryInit ==
    /\ phase = [t \in Tickets |-> "unissued"]
    /\ holder = [t \in Tickets |-> Nobody]

Move(t, from, to) == phase[t] = from /\ phase' = [phase EXCEPT ![t] = to]

Hand(t, w) == w # holder[t] /\ holder' = [holder EXCEPT ![t] = w]

Issue(t, w)  == Move(t, "unissued", "held") /\ Hand(t, w)
Give(t, w)   == phase[t] = "held" /\ UNCHANGED phase /\ Hand(t, w)
Offer(t)     == Move(t, "held", "offered") /\ UNCHANGED holder
Withdraw(t)  == Move(t, "offered", "held") /\ UNCHANGED holder
Sell(t, w)   == Move(t, "offered", "held") /\ Hand(t, w)
Present(t)   == Move(t, "held", "presented") /\ UNCHANGED holder
Retract(t)   == Move(t, "presented", "held") /\ UNCHANGED holder
Admit(t)     == Move(t, "presented", "used") /\ UNCHANGED holder

RegistryNext ==
    \E t \in Tickets :
        \/ \E w \in Holders : Issue(t, w) \/ Give(t, w) \/ Sell(t, w)
        \/ Offer(t) \/ Withdraw(t) \/ Present(t) \/ Retract(t) \/ Admit(t)

RegistrySpec == RegistryInit /\ [][RegistryNext]_<<phase, holder>>
===============================
