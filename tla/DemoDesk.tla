---- MODULE DemoDesk ----
(***************************************************************************)
(* The demo gateway behind the three spaces of the demo table, and the     *)
(* same gateway called directly.  A space shows a command only in some     *)
(* states of the ticket: what the buttons check is part of the desk, and   *)
(* the reducer relies on it.                                               *)
(***************************************************************************)
EXTENDS DemoReducer

ASSUME NobodyAssumption == "nobody" \notin Attendee

(* state.events[0]: the spaces know one event. *)
FirstEvent == CHOOSE e \in DOMAIN events : \A o \in DOMAIN events : e <= o

OnSale == DOMAIN events # {} /\ events[FirstEvent].status = "published"

Presented(t) == \E i \in DOMAIN intents : ActiveIntent(i) /\ intents[i].ticketId = t
Offered(t) == \E l \in DOMAIN listings :
                 listings[l].status = "open" /\ listings[l].ticketId = t

(* TicketActions: the forms of a ticket that is neither used, presented    *)
(* nor listed.                                                             *)
TicketForms(t, wallet) ==
    /\ OnSale
    /\ t \in DOMAIN tickets
    /\ tickets[t].owner = wallet
    /\ tickets[t].status # "used"
    /\ ~Presented(t)
    /\ ~Offered(t)

OrganizerSpace ==
    \E organizer \in Organizer :
        \/ /\ DOMAIN events = {}
           /\ \E staff \in Staff, capacity \in CapacityInputs, price \in PriceInputs :
                 CreateEvent(organizer, staff, capacity, price)
        \/ DOMAIN events # {} /\ PublishEvent(FirstEvent, organizer)

AttendeeSpace ==
    \E wallet \in Attendee :
        \/ OnSale /\ BuyPrimary(FirstEvent, wallet)
        \/ \E t \in DOMAIN tickets :
              /\ TicketForms(t, wallet)
              /\ \/ \E recipient \in Attendee : GiftTicket(t, wallet, recipient)
                 \/ \E price \in ResalePriceInputs : ListTicket(t, wallet, price)
                 \/ PresentCheckIn(t, wallet)
        \/ \E i \in DOMAIN intents :
              /\ OnSale
              /\ tickets[intents[i].ticketId].owner = wallet
              /\ tickets[intents[i].ticketId].status # "used"
              /\ CancelCheckIn(i, wallet)
        \/ \E l \in DOMAIN listings :
              /\ OnSale
              /\ \/ /\ tickets[listings[l].ticketId].owner = wallet
                    /\ tickets[listings[l].ticketId].status # "used"
                    /\ ~Presented(listings[l].ticketId)
                    /\ CancelListing(l, wallet)
                 \/ BuyResale(l, wallet)

(* An expired presentation shows the button that closes it instead of the  *)
(* one that validates it; a consumed one shows the button that retries it. *)
StaffSpace ==
    \E i \in DOMAIN intents, staff \in Staff :
        \/ ExpireCheckIn(i)
        \/ ConsumeCheckIn(i, staff)

DeskNext == Tick \/ Reset \/ OrganizerSpace \/ AttendeeSpace \/ StaffSpace

DeskSpec == Init /\ [][DeskNext]_vars

(* Any caller of the gateway, in any order. *)
GatewayNext ==
    \/ Tick
    \/ Reset
    \/ \E o \in Organizer, s \in Staff, c \in CapacityInputs, p \in PriceInputs :
          CreateEvent(o, s, c, p)
    \/ \E e \in DOMAIN events :
          \/ \E o \in Organizer : PublishEvent(e, o)
          \/ \E w \in Attendee : BuyPrimary(e, w)
    \/ \E t \in DOMAIN tickets, w \in Attendee :
          \/ \E r \in Attendee : GiftTicket(t, w, r)
          \/ \E p \in ResalePriceInputs : ListTicket(t, w, p)
          \/ PresentCheckIn(t, w)
    \/ \E l \in DOMAIN listings, w \in Attendee : CancelListing(l, w) \/ BuyResale(l, w)
    \/ \E i \in DOMAIN intents :
          \/ \E w \in Attendee : CancelCheckIn(i, w)
          \/ ExpireCheckIn(i)
          \/ \E s \in Staff : ConsumeCheckIn(i, s)

GatewaySpec == Init /\ [][GatewayNext]_vars

---------------------------------------------------------------------------
Consumed(i) == intents[i].status = "consumed"

(* No ticket is checked in twice. *)
DemoAdmittedOnce ==
    \A i, j \in DOMAIN intents :
        (Consumed(i) /\ Consumed(j) /\ intents[i].ticketId = intents[j].ticketId)
           => i = j

(* Used through the desk, a ticket is used exactly when one of its         *)
(* presentations was consumed, and never two of them were.                 *)
DemoSingleUse ==
    /\ \A t \in DOMAIN tickets :
          tickets[t].status = "used"
             <=> \E i \in DOMAIN intents : Consumed(i) /\ intents[i].ticketId = t
    /\ DemoAdmittedOnce

(* The tickets of an event are the ones it counted as sold, and fit in its *)
(* capacity.                                                               *)
DemoCapacity ==
    \A e \in DOMAIN events :
        /\ events[e].sold <= events[e].capacity
        /\ events[e].sold
              = Cardinality({t \in DOMAIN tickets : tickets[t].eventId = e})

(* A ticket is listed exactly while one listing of it is open; its seller  *)
(* still owns it, and nobody presents it meanwhile.                        *)
DemoOffers ==
    /\ \A t \in DOMAIN tickets :
          tickets[t].status = "listed" <=> Offered(t)
    /\ \A l, k \in DOMAIN listings :
          (listings[l].status = "open" /\ listings[k].status = "open"
             /\ listings[l].ticketId = listings[k].ticketId) => l = k
    /\ \A l \in DOMAIN listings :
          listings[l].status = "open" =>
             /\ tickets[listings[l].ticketId].owner = listings[l].seller
             /\ ~Presented(listings[l].ticketId)

---------------------------------------------------------------------------
(* The demo table makes the promise the on-chain program makes.            *)

Ids == 1 .. MaxSequence

PhaseOf(t) ==
    CASE t \notin DOMAIN tickets -> "unissued"
      [] t \in DOMAIN tickets /\ tickets[t].status = "used" -> "used"
      [] t \in DOMAIN tickets /\ tickets[t].status = "listed" -> "offered"
      [] t \in DOMAIN tickets /\ tickets[t].status = "active" ->
            IF Presented(t) THEN "presented" ELSE "held"

Phases == [t \in Ids |-> PhaseOf(t)]
HoldersOf == [t \in Ids |-> IF t \in DOMAIN tickets THEN tickets[t].owner ELSE "nobody"]

Registry == INSTANCE TicketRegistry WITH
    Tickets <- Ids, Holders <- Attendee, Nobody <- "nobody",
    phase <- Phases, holder <- HoldersOf

(* Between two resets, every command of the desk is a step of the same     *)
(* registry the on-chain program implements, or invisible in it.           *)
DeskFollowsRegistry ==
    /\ Registry!RegistryInit
    /\ [][Reset \/ Registry!RegistryNext]_<<Phases, HoldersOf>>
=========================
