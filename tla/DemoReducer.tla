---- MODULE DemoReducer ----
(***************************************************************************)
(* The in-memory gateway of the demo table: DemoGateway over demoReducer.  *)
(* The lists of the state are functions from the ids in use, which one     *)
(* sequence numbers across all of them; the activity log is left out.  A   *)
(* command that throws leaves the state as it was, so a failed command is  *)
(* no step.                                                                *)
(***************************************************************************)
EXTENDS Integers, FiniteSets

CONSTANTS
    Organizer, Attendee, Staff, \* the demo identities
    CapacityInputs,             \* aforo of a new event
    PriceInputs,                \* priceLamports of a new event
    ResalePriceInputs,          \* priceLamports of a listing
    CheckInTtl,                 \* CHECK_IN_TTL_MS
    WindowLead,                 \* 60_000 ms: the window opens before creation
    WindowLength,               \* 24 h: how long after creation it closes
    MaxSequence,                \* bound: commands since the last reset
    MaxTime                     \* bound: Date.now() stops here

ASSUME DemoAssumption ==
    /\ {CheckInTtl, WindowLead, WindowLength} \subseteq Nat \ {0}
    /\ CapacityInputs \subseteq Int
    /\ MaxSequence \in Nat /\ MaxTime \in Nat

VARIABLES events, tickets, listings, intents, sequence, now

demoState == <<events, tickets, listings, intents, sequence>>
vars == <<demoState, now>>

MaxResaleMarkupBps == 2000
MaximumPrice(price) == price + (price * MaxResaleMarkupBps) \div 10000

Empty == [id \in {} |-> 0]

Init ==
    /\ events = Empty /\ tickets = Empty /\ listings = Empty /\ intents = Empty
    /\ sequence = 0
    /\ now = 0

(* record(): each command takes the next number of the sequence. *)
NextId == sequence + 1
Record ==
    /\ sequence < MaxSequence
    /\ sequence' = NextId
    /\ UNCHANGED now

(* A list with the entry that takes the next number. *)
Added(list, entry) ==
    [id \in DOMAIN list \cup {NextId} |-> IF id = NextId THEN entry ELSE list[id]]

Reset ==
    /\ events' = Empty /\ tickets' = Empty /\ listings' = Empty /\ intents' = Empty
    /\ sequence' = 0
    /\ UNCHANGED now

Tick == now < MaxTime /\ now' = now + 1 /\ UNCHANGED demoState

---------------------------------------------------------------------------
(* Events *)

CreateEvent(organizer, staff, capacity, price) ==
    /\ capacity >= 1
    /\ price >= 0
    /\ events' = Added(events,
          [organizer |-> organizer, staff |-> {staff},
           capacity |-> capacity, priceLamports |-> price,
           checkInStartsAt |-> now - WindowLead,
           checkInEndsAt |-> now + WindowLength,
           status |-> "draft", sold |-> 0])
    /\ Record
    /\ UNCHANGED <<tickets, listings, intents>>

PublishEvent(e, organizer) ==
    /\ e \in DOMAIN events
    /\ events[e].organizer = organizer
    /\ events[e].status = "draft"
    /\ events' = [events EXCEPT ![e].status = "published"]
    /\ Record
    /\ UNCHANGED <<tickets, listings, intents>>

(* Mutant: one ticket more than the capacity is sold. *)
HasCapacityInclusive(e) == events[e].sold <= events[e].capacity

HasCapacity(e) == events[e].sold < events[e].capacity

BuyPrimary(e, buyer) ==
    /\ e \in DOMAIN events
    /\ events[e].status = "published"
    /\ HasCapacity(e)
    /\ events' = [events EXCEPT ![e].sold = @ + 1]
    /\ tickets' = Added(tickets,
          [eventId |-> e, owner |-> buyer,
           originalPriceLamports |-> events[e].priceLamports,
           status |-> "active", transferCount |-> 0])
    /\ Record
    /\ UNCHANGED <<listings, intents>>

---------------------------------------------------------------------------
(* Circulation *)

GivenTo(ticket, recipient) ==
    [ticket EXCEPT !.owner = recipient, !.transferCount = @ + 1]

SoldTo(ticket, buyer) ==
    [ticket EXCEPT !.owner = buyer, !.status = "active", !.transferCount = @ + 1]

(* Neither a gift nor a listing looks at the presentations of the ticket. *)
GiftTicket(t, owner, recipient) ==
    /\ t \in DOMAIN tickets
    /\ tickets[t].owner = owner
    /\ tickets[t].status = "active"
    /\ owner # recipient
    /\ tickets' = [tickets EXCEPT ![t] = GivenTo(@, recipient)]
    /\ Record
    /\ UNCHANGED <<events, listings, intents>>

ListTicket(t, seller, price) ==
    /\ t \in DOMAIN tickets
    /\ tickets[t].owner = seller
    /\ tickets[t].status = "active"
    /\ price >= 1
    /\ price <= MaximumPrice(tickets[t].originalPriceLamports)
    /\ tickets' = [tickets EXCEPT ![t].status = "listed"]
    /\ listings' = Added(listings,
          [eventId |-> tickets[t].eventId, ticketId |-> t,
           seller |-> seller, priceLamports |-> price,
           status |-> "open"])
    /\ Record
    /\ UNCHANGED <<events, intents>>

(* The ticket becomes active again whatever its status was. *)
CancelListing(l, seller) ==
    /\ l \in DOMAIN listings
    /\ listings[l].seller = seller
    /\ listings[l].status = "open"
    /\ listings' = [listings EXCEPT ![l].status = "cancelled"]
    /\ tickets' = [tickets EXCEPT ![listings[l].ticketId].status = "active"]
    /\ Record
    /\ UNCHANGED <<events, intents>>

(* Mutant: the listing is left open when its ticket is sold. *)
SellListingKeptOpen(l, buyer) ==
    /\ tickets' = [tickets EXCEPT ![listings[l].ticketId] = SoldTo(@, buyer)]
    /\ UNCHANGED listings

(* Mutant: the ticket stays listed when it is sold. *)
SellListingStillListed(l, buyer) ==
    /\ tickets' = [tickets EXCEPT ![listings[l].ticketId] = GivenTo(@, buyer)]
    /\ listings' = [listings EXCEPT ![l].status = "sold"]

SellListing(l, buyer) ==
    /\ tickets' = [tickets EXCEPT ![listings[l].ticketId] = SoldTo(@, buyer)]
    /\ listings' = [listings EXCEPT ![l].status = "sold"]

BuyResale(l, buyer) ==
    /\ l \in DOMAIN listings
    /\ listings[l].status = "open"
    /\ listings[l].seller # buyer
    /\ tickets[listings[l].ticketId].owner = listings[l].seller
    /\ tickets[listings[l].ticketId].status = "listed"
    /\ SellListing(l, buyer)
    /\ Record
    /\ UNCHANGED <<events, intents>>

---------------------------------------------------------------------------
(* Check-in *)

ActiveIntent(i) == intents[i].status = "active"

PresentCheckIn(t, holder) ==
    /\ t \in DOMAIN tickets
    /\ tickets[t].owner = holder
    /\ tickets[t].status = "active"
    /\ events[tickets[t].eventId].status = "published"
    /\ events[tickets[t].eventId].checkInStartsAt <= now
    /\ now <= events[tickets[t].eventId].checkInEndsAt
    /\ ~ \E i \in DOMAIN intents : ActiveIntent(i) /\ intents[i].ticketId = t
    /\ intents' = Added(intents,
          [eventId |-> tickets[t].eventId, ticketId |-> t,
           holder |-> holder, expiresAt |-> now + CheckInTtl,
           status |-> "active"])
    /\ Record
    /\ UNCHANGED <<events, tickets, listings>>

CloseIntent(i, status) ==
    /\ intents' = [intents EXCEPT ![i].status = status]
    /\ Record
    /\ UNCHANGED <<events, tickets, listings>>

CancelCheckIn(i, holder) ==
    /\ i \in DOMAIN intents
    /\ intents[i].holder = holder
    /\ ActiveIntent(i)
    /\ CloseIntent(i, "cancelled")

ExpireCheckIn(i) ==
    /\ i \in DOMAIN intents
    /\ ActiveIntent(i)
    /\ intents[i].expiresAt <= now
    /\ CloseIntent(i, "expired")

(* Mutant: the intent stays active when it is consumed. *)
AdmitHolderIntentLeft(i) ==
    /\ tickets' = [tickets EXCEPT ![intents[i].ticketId].status = "used"]
    /\ UNCHANGED intents

AdmitHolder(i) ==
    /\ tickets' = [tickets EXCEPT ![intents[i].ticketId].status = "used"]
    /\ intents' = [intents EXCEPT ![i].status = "consumed"]

(* Neither the window of the event nor a listing of the ticket is read. *)
ConsumeCheckIn(i, staff) ==
    /\ i \in DOMAIN intents
    /\ staff \in events[intents[i].eventId].staff
    /\ tickets[intents[i].ticketId].status # "used"
    /\ ActiveIntent(i)
    /\ now < intents[i].expiresAt
    /\ tickets[intents[i].ticketId].owner = intents[i].holder
    /\ AdmitHolder(i)
    /\ Record
    /\ UNCHANGED <<events, listings>>
=========================
