---- MODULE DemoProofs ----
(***************************************************************************)
(* The demo table used through its spaces, for every number of wallets,    *)
(* commands and events: the lists stay consistent with each other, and the *)
(* desk makes the promise of TicketRegistry.  What the buttons check is    *)
(* needed: the gateway alone does not keep it.                             *)
(***************************************************************************)
EXTENDS DemoDesk, FiniteSetTheorems, TLAPS

---------------------------------------------------------------------------
(* The lists and their references *)

Event ==
    [organizer : Organizer, staff : SUBSET Staff, capacity : CapacityInputs,
     priceLamports : PriceInputs, checkInStartsAt : Int, checkInEndsAt : Int,
     status : {"draft", "published"}, sold : Nat]

Ticket ==
    [eventId : Nat, owner : Attendee, originalPriceLamports : PriceInputs,
     status : {"active", "listed", "used"}, transferCount : Nat]

Listing ==
    [eventId : Nat, ticketId : Nat, seller : Attendee,
     priceLamports : ResalePriceInputs, status : {"open", "cancelled", "sold"}]

Intent ==
    [eventId : Nat, ticketId : Nat, holder : Attendee, expiresAt : Int,
     status : {"active", "cancelled", "expired", "consumed"}]

ListsType ==
    /\ sequence \in 0 .. MaxSequence /\ now \in Nat
    /\ events \in [DOMAIN events -> Event]
    /\ tickets \in [DOMAIN tickets -> Ticket]
    /\ listings \in [DOMAIN listings -> Listing]
    /\ intents \in [DOMAIN intents -> Intent]
    /\ DOMAIN events \cup DOMAIN tickets \cup DOMAIN listings \cup DOMAIN intents
          \subseteq 1 .. sequence

References ==
    /\ \A t \in DOMAIN tickets : tickets[t].eventId \in DOMAIN events
    /\ \A l \in DOMAIN listings : listings[l].ticketId \in DOMAIN tickets
    /\ \A i \in DOMAIN intents : intents[i].ticketId \in DOMAIN tickets

(* Only a ticket in circulation is presented, and once at a time. *)
Presentations ==
    \A i \in DOMAIN intents : ActiveIntent(i) =>
        /\ tickets[intents[i].ticketId].status = "active"
        /\ \A j \in DOMAIN intents :
              (ActiveIntent(j) /\ intents[j].ticketId = intents[i].ticketId) => i = j

(* What the door and the market say of the tickets, and the lists. *)
Core == ListsType /\ References /\ Presentations /\ DemoSingleUse /\ DemoOffers

IInv == Core /\ DemoCapacity

(* The number a command takes is in no list yet. *)
LEMMA NextIdIsNew ==
    ASSUME ListsType, Record
    PROVE  /\ sequence' = NextId /\ NextId \in 1 .. MaxSequence /\ now' = now
           /\ NextId \notin DOMAIN events /\ NextId \notin DOMAIN tickets
           /\ NextId \notin DOMAIN listings /\ NextId \notin DOMAIN intents
           /\ 1 .. sequence \subseteq 1 .. sequence' /\ NextId \in 1 .. sequence'
           /\ sequence' \in 0 .. MaxSequence
BY DemoAssumption DEF ListsType, Record, NextId

---------------------------------------------------------------------------
(* Events and capacity *)

(* The tickets of an event are finitely many, for the sequence is *)
(* bounded.                                                       *)
LEMMA SalesFinite ==
    ASSUME ListsType, NEW e
    PROVE  /\ IsFiniteSet({t \in DOMAIN tickets : tickets[t].eventId = e})
           /\ IsFiniteSet(DOMAIN tickets)
<1>1. sequence \in Int /\ DOMAIN tickets \subseteq 1 .. sequence
    BY DEF ListsType
<1>2. IsFiniteSet(DOMAIN tickets)
    <2>1. IsFiniteSet(1 .. sequence)
        BY <1>1, FS_Interval
    <2> QED BY <1>1, <2>1, FS_Subset
<1> QED BY <1>2, FS_Subset

(* Capacity is kept while no ticket is issued and no event counts one. *)
LEMMA CapacityKept ==
    ASSUME DemoCapacity, DOMAIN events' = DOMAIN events, DOMAIN tickets' = DOMAIN tickets,
           \A e \in DOMAIN events : events'[e].sold = events[e].sold
                                      /\ events'[e].capacity = events[e].capacity,
           \A t \in DOMAIN tickets : tickets'[t].eventId = tickets[t].eventId
    PROVE  DemoCapacity'
<1> SUFFICES ASSUME NEW e \in DOMAIN events
             PROVE  /\ events'[e].sold <= events'[e].capacity
                    /\ events'[e].sold = Cardinality({t \in DOMAIN tickets' : tickets'[t].eventId = e})
    BY DEF DemoCapacity
<1>1. {t \in DOMAIN tickets' : tickets'[t].eventId = e}
        = {t \in DOMAIN tickets : tickets[t].eventId = e}
    OBVIOUS
<1> QED BY <1>1 DEF DemoCapacity

(* The invariant is kept by a new event, which has no ticket, ... *)
LEMMA CreateEventHolds ==
    ASSUME IInv, NEW o \in Organizer, NEW s \in Staff, NEW c \in CapacityInputs,
           NEW p \in PriceInputs, CreateEvent(o, s, c, p)
    PROVE  IInv'
<1> DEFINE n == NextId
           entry == [organizer |-> o, staff |-> {s}, capacity |-> c, priceLamports |-> p,
                     checkInStartsAt |-> now - WindowLead,
                     checkInEndsAt |-> now + WindowLength,
                     status |-> "draft", sold |-> 0]
<1>1. /\ events' = Added(events, entry) /\ c >= 1 /\ Record
      /\ UNCHANGED <<tickets, listings, intents>>
    BY DEF CreateEvent
<1>2. ListsType /\ References
    BY DEF IInv, Core
<1>3. n \notin DOMAIN events /\ n \in 1 .. sequence' /\ 1 .. sequence \subseteq 1 .. sequence'
      /\ now' = now /\ sequence' \in 0 .. MaxSequence
    BY <1>1, <1>2, NextIdIsNew
<1>4. entry \in Event /\ entry.sold = 0 /\ entry.capacity = c /\ c \in Int
    BY <1>2, DemoAssumption DEF Event, ListsType
<1> HIDE DEF entry, n
<1>5. /\ DOMAIN events' = DOMAIN events \cup {n} /\ events'[n] = entry
      /\ \A e \in DOMAIN events : events'[e] = events[e]
    BY <1>1, <1>3 DEF Added, n
<1>6. ListsType'
    <2>1. events' \in [DOMAIN events' -> Event]
        BY <1>1, <1>2, <1>4, <1>5 DEF ListsType, Added
    <2> QED BY <1>1, <1>2, <1>3, <1>5, <2>1 DEF ListsType
<1>7. References'
    BY <1>1, <1>2, <1>5 DEF References
<1>8. Presentations' /\ DemoSingleUse' /\ DemoOffers'
    BY <1>1 DEF IInv, Core, Presentations, DemoSingleUse, DemoAdmittedOnce, DemoOffers,
                Consumed, Offered, Presented, ActiveIntent
<1>9. DemoCapacity'
    <2>1. {t \in DOMAIN tickets' : tickets'[t].eventId = n} = {}
        BY <1>1, <1>2, <1>3 DEF References
    <2>2. Cardinality({t \in DOMAIN tickets' : tickets'[t].eventId = n}) = 0
        BY <2>1, FS_EmptySet
    <2>3. /\ events'[n].sold <= events'[n].capacity
          /\ events'[n].sold = Cardinality({t \in DOMAIN tickets' : tickets'[t].eventId = n})
        BY <1>1, <1>4, <1>5, <2>2
    <2>4. \A e \in DOMAIN events :
             /\ events'[e].sold <= events'[e].capacity
             /\ events'[e].sold = Cardinality({t \in DOMAIN tickets' : tickets'[t].eventId = e})
        BY <1>1, <1>5 DEF IInv, DemoCapacity
    <2> QED BY <1>5, <2>3, <2>4 DEF DemoCapacity
<1> QED BY <1>6, <1>7, <1>8, <1>9 DEF IInv, Core

(* ... and by publication. *)
LEMMA PublishEventHolds ==
    ASSUME IInv, NEW e, NEW o, PublishEvent(e, o)
    PROVE  IInv'
<1>1. /\ e \in DOMAIN events /\ events' = [events EXCEPT ![e].status = "published"]
      /\ Record /\ UNCHANGED <<tickets, listings, intents>>
    BY DEF PublishEvent
<1>2. ListsType /\ References /\ DemoCapacity
    BY DEF IInv, Core
<1>3. events' \in [DOMAIN events -> Event] /\ DOMAIN events' = DOMAIN events
    BY <1>1, <1>2 DEF ListsType, Event
<1>4. \A x \in DOMAIN events : events'[x].sold = events[x].sold
                                  /\ events'[x].capacity = events[x].capacity
    BY <1>1, <1>2 DEF ListsType, Event
<1>5. ListsType'
    BY <1>1, <1>2, <1>3, NextIdIsNew DEF ListsType
<1>6. References'
    BY <1>1, <1>2, <1>3 DEF References
<1>7. Presentations' /\ DemoSingleUse' /\ DemoOffers'
    BY <1>1 DEF IInv, Core, Presentations, DemoSingleUse, DemoAdmittedOnce, DemoOffers,
                Consumed, Offered, Presented, ActiveIntent
<1>8. DemoCapacity'
    BY <1>1, <1>2, <1>3, <1>4, CapacityKept
<1> QED BY <1>5, <1>6, <1>7, <1>8 DEF IInv, Core

(* What a purchase does to the tickets. *)
Buys(e, w) ==
    /\ NextId \in 1 .. MaxSequence
    /\ NextId \notin DOMAIN tickets
    /\ DOMAIN tickets' = DOMAIN tickets \cup {NextId}
    /\ tickets'[NextId].owner = w
    /\ tickets'[NextId].status = "active"
    /\ tickets'[NextId].eventId = e
    /\ \A t \in DOMAIN tickets : tickets'[t] = tickets[t]
    /\ UNCHANGED <<listings, intents>>

(* A purchase issues one active ticket and counts it. *)
LEMMA BuyPrimaryEffect ==
    ASSUME ListsType, NEW e, NEW w \in Attendee, BuyPrimary(e, w)
    PROVE  Buys(e, w) /\ ListsType'
<1> DEFINE n == NextId
           entry == [eventId |-> e, owner |-> w,
                     originalPriceLamports |-> events[e].priceLamports,
                     status |-> "active", transferCount |-> 0]
<1>1. /\ e \in DOMAIN events /\ Record /\ UNCHANGED <<listings, intents>>
      /\ events' = [events EXCEPT ![e].sold = @ + 1]
      /\ tickets' = Added(tickets, entry)
    BY DEF BuyPrimary
<1>2. /\ n \notin DOMAIN tickets /\ n \in 1 .. sequence' /\ 1 .. sequence \subseteq 1 .. sequence'
      /\ now' = now /\ n \in 1 .. MaxSequence /\ sequence' \in 0 .. MaxSequence
    BY <1>1, NextIdIsNew
<1>3. events[e] \in Event /\ e \in Nat
    BY <1>1 DEF ListsType
<1>4. entry \in Ticket /\ entry.owner = w /\ entry.status = "active" /\ entry.eventId = e
    BY <1>3 DEF Ticket, Event
<1>5. events' \in [DOMAIN events -> Event]
    <2>1. [events[e] EXCEPT !.sold = @ + 1] \in Event
        BY <1>3 DEF Event
    <2> QED BY <1>1, <2>1 DEF ListsType
<1> HIDE DEF entry, n
<1>6. /\ DOMAIN tickets' = DOMAIN tickets \cup {n} /\ tickets'[n] = entry
      /\ \A t \in DOMAIN tickets : tickets'[t] = tickets[t]
    BY <1>1, <1>2 DEF Added, n
<1>7. tickets' \in [DOMAIN tickets' -> Ticket]
    BY <1>1, <1>4, <1>6 DEF ListsType, Added
<1>8. Buys(e, w)
    BY <1>1, <1>2, <1>4, <1>6 DEF Buys, n
<1>9. ListsType'
    BY <1>1, <1>2, <1>5, <1>6, <1>7 DEF ListsType
<1> QED BY <1>8, <1>9

(* The invariant is kept by a purchase: the ticket is new and below the *)
(* capacity.                                                            *)
LEMMA BuyPrimaryHolds ==
    ASSUME IInv, NEW e, NEW w \in Attendee, BuyPrimary(e, w)
    PROVE  IInv'
<1> DEFINE n == NextId
<1>1. ListsType /\ References /\ DemoCapacity /\ Presentations /\ DemoSingleUse /\ DemoOffers
    BY DEF IInv, Core
<1>2. Buys(e, w) /\ ListsType'
    BY <1>1, BuyPrimaryEffect
<1>3. /\ e \in DOMAIN events /\ events' = [events EXCEPT ![e].sold = @ + 1]
      /\ events[e].sold < events[e].capacity
    BY DEF BuyPrimary, HasCapacity
<1>4. /\ n \notin DOMAIN tickets /\ DOMAIN tickets' = DOMAIN tickets \cup {n}
      /\ tickets'[n].status = "active" /\ tickets'[n].eventId = e
      /\ \A t \in DOMAIN tickets : tickets'[t] = tickets[t]
      /\ listings' = listings /\ intents' = intents
    BY <1>2 DEF Buys
<1> HIDE DEF n
<1>5. /\ \A l \in DOMAIN listings : listings[l].ticketId \in DOMAIN tickets
      /\ \A i \in DOMAIN intents : intents[i].ticketId \in DOMAIN tickets
    BY <1>1 DEF References
<1>6. References'
    BY <1>1, <1>3, <1>4 DEF References
<1>7. Presentations'
    BY <1>1, <1>4, <1>5 DEF Presentations, ActiveIntent
<1>8. DemoSingleUse'
    BY <1>1, <1>4, <1>5 DEF DemoSingleUse, DemoAdmittedOnce, Consumed
<1>9. DemoOffers'
    <2>1. \A l \in DOMAIN listings' : listings'[l].ticketId \in DOMAIN tickets
        BY <1>4, <1>5
    <2>2. \A t \in DOMAIN tickets' : tickets'[t].status = "listed" <=> Offered(t)'
        BY <1>1, <1>4, <2>1 DEF Offered, DemoOffers
    <2>3. \A l \in DOMAIN listings' : tickets'[listings'[l].ticketId] = tickets[listings[l].ticketId]
        BY <1>4, <2>1
    <2> QED BY <1>1, <1>4, <2>2, <2>3 DEF DemoOffers, Presented, ActiveIntent
<1>10. DemoCapacity'
    <2> DEFINE of(x) == {t \in DOMAIN tickets : tickets[t].eventId = x}
               after(x) == {t \in DOMAIN tickets' : tickets'[t].eventId = x}
    <2>1. \A x \in DOMAIN events : events[x].sold \in Nat /\ events[x].capacity \in Int
        BY <1>1, DemoAssumption DEF ListsType, Event
    <2>2. /\ DOMAIN events' = DOMAIN events
          /\ events'[e].sold = events[e].sold + 1 /\ events'[e].capacity = events[e].capacity
          /\ \A x \in DOMAIN events \ {e} : events'[x] = events[x]
        BY <1>1, <1>3 DEF ListsType, Event
    <2>3. after(e) = of(e) \cup {n} /\ n \notin of(e)
        BY <1>4
    <2>4. \A x \in DOMAIN events \ {e} : after(x) = of(x)
        BY <1>4
    <2>5. IsFiniteSet(of(e))
        BY <1>1, SalesFinite
    <2> HIDE DEF of, after
    <2>6. Cardinality(after(e)) = Cardinality(of(e)) + 1
        BY <2>3, <2>5, FS_AddElement
    <2>7. \A x \in DOMAIN events : events[x].sold <= events[x].capacity
                                      /\ events[x].sold = Cardinality(of(x))
        BY <1>1 DEF DemoCapacity, of
    <2>8. \A x \in DOMAIN events : events'[x].sold <= events'[x].capacity
                                      /\ events'[x].sold = Cardinality(after(x))
        BY <1>3, <2>1, <2>2, <2>4, <2>6, <2>7
    <2> QED BY <2>2, <2>8 DEF DemoCapacity, after
<1> QED BY <1>2, <1>6, <1>7, <1>8, <1>9, <1>10 DEF IInv, Core

---------------------------------------------------------------------------
(* Circulation and check-in leave the events alone *)

(* One ticket is rewritten: its owner may change, its event does not. *)
Rewrites(t, status, owner) ==
    /\ tickets' \in [DOMAIN tickets -> Ticket] /\ DOMAIN tickets' = DOMAIN tickets
    /\ tickets'[t].status = status /\ tickets'[t].owner = owner
    /\ \A u \in DOMAIN tickets : tickets'[u].eventId = tickets[u].eventId
    /\ \A u \in DOMAIN tickets : u # t => tickets'[u] = tickets[u]

(* A command that sets the status of a ticket rewrites that ticket *)
(* alone, ...                                                      *)
LEMMA RewriteStatus ==
    ASSUME ListsType, NEW t \in DOMAIN tickets, NEW status \in {"active", "listed", "used"},
           tickets' = [tickets EXCEPT ![t].status = status]
    PROVE  Rewrites(t, status, tickets[t].owner)
<1>1. tickets[t] \in Ticket
    BY DEF ListsType
<1>2. /\ [tickets[t] EXCEPT !.status = status] \in Ticket
      /\ [tickets[t] EXCEPT !.status = status].status = status
      /\ [tickets[t] EXCEPT !.status = status].owner = tickets[t].owner
      /\ [tickets[t] EXCEPT !.status = status].eventId = tickets[t].eventId
    BY <1>1 DEF Ticket
<1> QED BY <1>2 DEF ListsType, Rewrites

(* ... and so does a gift, ... *)
LEMMA RewriteGiven ==
    ASSUME ListsType, NEW t \in DOMAIN tickets, NEW w \in Attendee,
           tickets[t].status = "active",
           tickets' = [tickets EXCEPT ![t] = GivenTo(@, w)]
    PROVE  Rewrites(t, "active", w)
<1> DEFINE new == GivenTo(tickets[t], w)
<1>1. tickets[t] \in Ticket /\ tickets[t].transferCount + 1 \in Nat
    BY DEF ListsType, Ticket
<1>2. new \in Ticket
    BY <1>1 DEF GivenTo, Ticket
<1>3. new.owner = w /\ new.status = "active" /\ new.eventId = tickets[t].eventId
    BY <1>1 DEF GivenTo, Ticket
<1> QED BY <1>2, <1>3 DEF ListsType, Rewrites

(* ... and so does a resale. *)
LEMMA RewriteSold ==
    ASSUME ListsType, NEW t \in DOMAIN tickets, NEW w \in Attendee,
           tickets' = [tickets EXCEPT ![t] = SoldTo(@, w)]
    PROVE  Rewrites(t, "active", w)
<1> DEFINE new == SoldTo(tickets[t], w)
<1>1. tickets[t] \in Ticket /\ tickets[t].transferCount + 1 \in Nat
    BY DEF ListsType, Ticket
<1>2. new \in Ticket
    BY <1>1 DEF SoldTo, Ticket
<1>3. new.owner = w /\ new.status = "active" /\ new.eventId = tickets[t].eventId
    BY <1>1 DEF SoldTo, Ticket
<1> QED BY <1>2, <1>3 DEF ListsType, Rewrites

(* One listing or one presentation is closed. *)
Closes(list, after, id, status) ==
    /\ DOMAIN after = DOMAIN list
    /\ after[id].status = status
    /\ \A x \in DOMAIN list : after[x].ticketId = list[x].ticketId
    /\ \A x \in DOMAIN list : x # id => after[x] = list[x]

(* A listing withdrawn or sold closes, and the others stay, ... *)
LEMMA CloseListing ==
    ASSUME ListsType, NEW l \in DOMAIN listings, NEW status \in {"cancelled", "sold"},
           listings' = [listings EXCEPT ![l].status = status]
    PROVE  Closes(listings, listings', l, status) /\ listings' \in [DOMAIN listings -> Listing]
<1>1. listings[l] \in Listing
    BY DEF ListsType
<1>2. /\ [listings[l] EXCEPT !.status = status] \in Listing
      /\ [listings[l] EXCEPT !.status = status].status = status
      /\ [listings[l] EXCEPT !.status = status].ticketId = listings[l].ticketId
    BY <1>1 DEF Listing
<1> QED BY <1>2 DEF ListsType, Closes

(* ... and so with an intent. *)
LEMMA CloseAnIntent ==
    ASSUME ListsType, NEW i \in DOMAIN intents,
           NEW status \in {"cancelled", "expired", "consumed"},
           intents' = [intents EXCEPT ![i].status = status]
    PROVE  Closes(intents, intents', i, status) /\ intents' \in [DOMAIN intents -> Intent]
<1>1. intents[i] \in Intent
    BY DEF ListsType
<1>2. /\ [intents[i] EXCEPT !.status = status] \in Intent
      /\ [intents[i] EXCEPT !.status = status].status = status
      /\ [intents[i] EXCEPT !.status = status].ticketId = intents[i].ticketId
    BY <1>1 DEF Intent
<1> QED BY <1>2 DEF ListsType, Closes

(* Capacity is kept by a command that leaves the events alone. *)
LEMMA CapacityUntouched ==
    ASSUME DemoCapacity, UNCHANGED events, DOMAIN tickets' = DOMAIN tickets,
           \A t \in DOMAIN tickets : tickets'[t].eventId = tickets[t].eventId
    PROVE  DemoCapacity'
BY CapacityKept

---------------------------------------------------------------------------
(* The forms of a ticket *)

(* A gift keeps the invariant, and leaves the ticket active with the *)
(* recipient.                                                        *)
LEMMA GiftHolds ==
    ASSUME IInv, NEW t, NEW w \in Attendee, NEW r \in Attendee,
           TicketForms(t, w), GiftTicket(t, w, r)
    PROVE  IInv' /\ Rewrites(t, "active", r)
<1>1. /\ t \in DOMAIN tickets /\ tickets[t].status = "active" /\ Record
      /\ UNCHANGED <<events, listings, intents>>
    BY DEF GiftTicket
<1>2. ListsType /\ References /\ Presentations /\ DemoSingleUse /\ DemoOffers /\ DemoCapacity
    BY DEF IInv, Core
<1>3. Rewrites(t, "active", r)
    BY <1>1, <1>2, RewriteGiven DEF GiftTicket
<1>4. \A u \in DOMAIN tickets : tickets'[u].status = tickets[u].status
    BY <1>1, <1>3 DEF Rewrites
<1>5. ~Offered(t)
    BY DEF TicketForms
<1>6. ListsType'
    BY <1>1, <1>2, <1>3, NextIdIsNew DEF ListsType, Rewrites
<1>7. References'
    BY <1>1, <1>2, <1>3 DEF References, Rewrites
<1>8. Presentations'
    BY <1>1, <1>2, <1>4 DEF Presentations, ActiveIntent, References
<1>9. DemoSingleUse'
    BY <1>1, <1>2, <1>3, <1>4 DEF DemoSingleUse, DemoAdmittedOnce, Consumed, Rewrites
<1>10. DemoOffers'
    <2>1. \A l \in DOMAIN listings : listings[l].status = "open" => listings[l].ticketId # t
        BY <1>5 DEF Offered
    <2>2. \A u \in DOMAIN tickets' : tickets'[u].status = "listed" <=> Offered(u)'
        BY <1>1, <1>2, <1>3, <1>4 DEF DemoOffers, Offered, Rewrites
    <2>3. \A l \in DOMAIN listings : listings[l].status = "open" =>
             tickets'[listings[l].ticketId] = tickets[listings[l].ticketId]
        BY <1>2, <1>3, <2>1 DEF Rewrites, References
    <2> QED BY <1>1, <1>2, <2>2, <2>3 DEF DemoOffers, Presented, ActiveIntent
<1>11. DemoCapacity'
    BY <1>1, <1>2, <1>3, CapacityUntouched DEF Rewrites
<1> QED BY <1>3, <1>6, <1>7, <1>8, <1>9, <1>10, <1>11 DEF IInv, Core

(* What a listing adds. *)
Lists(t, w) ==
    /\ NextId \notin DOMAIN listings
    /\ DOMAIN listings' = DOMAIN listings \cup {NextId}
    /\ listings'[NextId].ticketId = t
    /\ listings'[NextId].seller = w
    /\ listings'[NextId].status = "open"
    /\ \A l \in DOMAIN listings : listings'[l] = listings[l]

(* A listing opens one offer and marks its ticket as listed. *)
LEMMA ListEffect ==
    ASSUME ListsType, NEW t, NEW w \in Attendee, NEW p \in ResalePriceInputs,
           ListTicket(t, w, p)
    PROVE  Lists(t, w) /\ Rewrites(t, "listed", w) /\ ListsType'
<1> DEFINE n == NextId
           entry == [eventId |-> tickets[t].eventId, ticketId |-> t, seller |-> w,
                     priceLamports |-> p, status |-> "open"]
<1>1. /\ t \in DOMAIN tickets /\ tickets[t].owner = w /\ Record
      /\ UNCHANGED <<events, intents>>
      /\ tickets' = [tickets EXCEPT ![t].status = "listed"]
      /\ listings' = Added(listings, entry)
    BY DEF ListTicket
<1>2. /\ n \notin DOMAIN listings /\ n \in 1 .. sequence' /\ 1 .. sequence \subseteq 1 .. sequence'
      /\ now' = now /\ sequence' \in 0 .. MaxSequence
    BY <1>1, NextIdIsNew
<1>3. tickets[t] \in Ticket /\ t \in Nat
    BY <1>1 DEF ListsType
<1>4. entry \in Listing /\ entry.ticketId = t /\ entry.seller = w /\ entry.status = "open"
    BY <1>3 DEF Ticket, Listing
<1> HIDE DEF entry, n
<1>5. /\ DOMAIN listings' = DOMAIN listings \cup {n} /\ listings'[n] = entry
      /\ \A l \in DOMAIN listings : listings'[l] = listings[l]
    BY <1>1, <1>2 DEF Added, n
<1>6. listings' \in [DOMAIN listings' -> Listing]
    BY <1>1, <1>4, <1>5 DEF ListsType, Added
<1>7. Rewrites(t, "listed", w)
    BY <1>1, RewriteStatus
<1>8. Lists(t, w)
    BY <1>2, <1>4, <1>5 DEF Lists, n
<1>9. ListsType'
    BY <1>1, <1>2, <1>5, <1>6, <1>7 DEF ListsType, Rewrites
<1> QED BY <1>7, <1>8, <1>9

(* A listing keeps the invariant: the desk offers it only for a ticket *)
(* with no open presentation.                                          *)
LEMMA ListHolds ==
    ASSUME IInv, NEW t, NEW w \in Attendee, NEW p \in ResalePriceInputs,
           TicketForms(t, w), ListTicket(t, w, p)
    PROVE  IInv'
<1> DEFINE n == NextId
<1>1. /\ t \in DOMAIN tickets /\ tickets[t].status = "active"
      /\ UNCHANGED <<events, intents>>
    BY DEF ListTicket
<1>2. ListsType /\ References /\ Presentations /\ DemoSingleUse /\ DemoOffers /\ DemoCapacity
    BY DEF IInv, Core
<1>3. Lists(t, w) /\ Rewrites(t, "listed", w) /\ ListsType'
    BY <1>2, ListEffect
<1>4. /\ \A l \in DOMAIN listings : listings[l].status = "open" => listings[l].ticketId # t
      /\ \A i \in DOMAIN intents : ActiveIntent(i) => intents[i].ticketId # t
    BY DEF TicketForms, Offered, Presented
<1>5. /\ DOMAIN tickets' = DOMAIN tickets /\ tickets'[t].status = "listed"
      /\ tickets'[t].owner = w
      /\ \A u \in DOMAIN tickets : u # t => tickets'[u] = tickets[u]
      /\ \A u \in DOMAIN tickets : tickets'[u].eventId = tickets[u].eventId
    BY <1>3 DEF Rewrites
<1>6. /\ n \notin DOMAIN listings /\ DOMAIN listings' = DOMAIN listings \cup {n}
      /\ listings'[n].ticketId = t /\ listings'[n].seller = w /\ listings'[n].status = "open"
      /\ \A l \in DOMAIN listings : listings'[l] = listings[l]
    BY <1>3 DEF Lists
<1> HIDE DEF n
<1>7. References'
    BY <1>1, <1>2, <1>5, <1>6 DEF References
<1>8. Presentations'
    BY <1>1, <1>2, <1>4, <1>5 DEF Presentations, ActiveIntent, References
<1>9. DemoSingleUse'
    BY <1>1, <1>2, <1>5 DEF DemoSingleUse, DemoAdmittedOnce, Consumed
<1>10. DemoOffers'
    <2>1. ASSUME NEW u \in DOMAIN tickets'
          PROVE  tickets'[u].status = "listed"
                   <=> \E l \in DOMAIN listings' :
                          listings'[l].status = "open" /\ listings'[l].ticketId = u
        <3>1. CASE u = t
            BY <1>5, <1>6, <3>1
        <3>2. CASE u # t
            BY <1>2, <1>5, <1>6, <3>2 DEF DemoOffers, Offered
        <3> QED BY <3>1, <3>2
    <2>2. \A l, k \in DOMAIN listings' :
             (listings'[l].status = "open" /\ listings'[k].status = "open"
                /\ listings'[l].ticketId = listings'[k].ticketId) => l = k
        BY <1>2, <1>4, <1>6 DEF DemoOffers
    <2>3. ASSUME NEW l \in DOMAIN listings', listings'[l].status = "open"
          PROVE  /\ tickets'[listings'[l].ticketId].owner = listings'[l].seller
                 /\ ~ \E i \in DOMAIN intents : ActiveIntent(i) /\ intents[i].ticketId = listings'[l].ticketId
        <3>1. CASE l = n
            BY <1>4, <1>5, <1>6, <3>1
        <3>2. CASE l # n
            <4>1. l \in DOMAIN listings /\ listings'[l] = listings[l]
                     /\ listings[l].status = "open"
                BY <1>6, <2>3, <3>2
            <4>2. listings[l].ticketId \in DOMAIN tickets /\ listings[l].ticketId # t
                BY <1>2, <1>4, <4>1 DEF References
            <4> QED BY <1>2, <1>5, <4>1, <4>2 DEF DemoOffers, Presented
        <3> QED BY <3>1, <3>2
    <2> QED BY <1>1, <2>1, <2>2, <2>3 DEF DemoOffers, Offered, Presented, ActiveIntent
<1>11. DemoCapacity'
    BY <1>1, <1>2, <1>5, CapacityUntouched
<1> QED BY <1>3, <1>7, <1>8, <1>9, <1>10, <1>11 DEF IInv, Core

---------------------------------------------------------------------------
(* An offer is withdrawn or taken up *)

(* The invariant is kept when the open offer of a ticket closes and the *)
(* ticket becomes active.                                               *)
LEMMA OfferCloses ==
    ASSUME IInv, NEW l \in DOMAIN listings, listings[l].status = "open",
           NEW w, Rewrites(listings[l].ticketId, "active", w),
           NEW status \in {"cancelled", "sold"},
           Closes(listings, listings', l, status), listings' \in [DOMAIN listings -> Listing],
           Record, UNCHANGED <<events, intents>>
    PROVE  IInv'
<1> DEFINE t == listings[l].ticketId
<1>1. ListsType /\ References /\ Presentations /\ DemoSingleUse /\ DemoOffers /\ DemoCapacity
    BY DEF IInv, Core
<1>2. t \in DOMAIN tickets /\ tickets[t].status = "listed"
    BY <1>1 DEF References, DemoOffers, Offered
<1>3. \A i \in DOMAIN intents : ActiveIntent(i) => intents[i].ticketId # t
    BY <1>1 DEF DemoOffers, Presented
<1>4. \A k \in DOMAIN listings :
         listings[k].status = "open" /\ listings[k].ticketId = t => k = l
    BY <1>1 DEF DemoOffers
<1>5. /\ DOMAIN tickets' = DOMAIN tickets /\ tickets'[t].status = "active"
      /\ \A u \in DOMAIN tickets : u # t => tickets'[u] = tickets[u]
      /\ \A u \in DOMAIN tickets : tickets'[u].eventId = tickets[u].eventId
    BY DEF Rewrites
<1>6. /\ DOMAIN listings' = DOMAIN listings /\ listings'[l].status # "open"
      /\ \A k \in DOMAIN listings : listings'[k].ticketId = listings[k].ticketId
      /\ \A k \in DOMAIN listings : k # l => listings'[k] = listings[k]
    BY DEF Closes
<1> HIDE DEF t
<1>7. ListsType'
    BY <1>1, <1>5, <1>6, NextIdIsNew DEF ListsType, Rewrites
<1>8. References'
    BY <1>1, <1>5, <1>6 DEF References
<1>9. Presentations'
    BY <1>1, <1>3, <1>5 DEF Presentations, ActiveIntent, References
<1>10. DemoSingleUse'
    BY <1>1, <1>2, <1>5 DEF DemoSingleUse, DemoAdmittedOnce, Consumed
<1>11. DemoOffers'
    <2>1. ASSUME NEW u \in DOMAIN tickets'
          PROVE  tickets'[u].status = "listed"
                   <=> \E k \in DOMAIN listings' :
                          listings'[k].status = "open" /\ listings'[k].ticketId = u
        <3>1. CASE u = t
            BY <1>4, <1>5, <1>6, <3>1
        <3>2. CASE u # t
            <4>1. listings[l].ticketId # u
                BY <3>2 DEF t
            <4> QED BY <1>1, <1>5, <1>6, <3>2, <4>1 DEF DemoOffers, Offered
        <3> QED BY <3>1, <3>2
    <2>2. \A k, m \in DOMAIN listings' :
             (listings'[k].status = "open" /\ listings'[m].status = "open"
                /\ listings'[k].ticketId = listings'[m].ticketId) => k = m
        BY <1>1, <1>6 DEF DemoOffers
    <2>3. ASSUME NEW k \in DOMAIN listings', listings'[k].status = "open"
          PROVE  /\ tickets'[listings'[k].ticketId].owner = listings'[k].seller
                 /\ ~ \E i \in DOMAIN intents :
                         ActiveIntent(i) /\ intents[i].ticketId = listings'[k].ticketId
        <3>1. k # l /\ k \in DOMAIN listings /\ listings'[k] = listings[k]
                 /\ listings[k].status = "open"
            BY <1>6, <2>3
        <3>2. listings[k].ticketId \in DOMAIN tickets /\ listings[k].ticketId # t
            BY <1>1, <1>4, <3>1 DEF References
        <3> QED BY <1>1, <1>5, <3>1, <3>2 DEF DemoOffers, Presented
    <2> QED BY <2>1, <2>2, <2>3 DEF DemoOffers, Offered, Presented, ActiveIntent
<1>12. DemoCapacity'
    BY <1>1, <1>5, CapacityUntouched
<1> QED BY <1>7, <1>8, <1>9, <1>10, <1>11, <1>12 DEF IInv, Core

(* That is so when a listing is withdrawn, ... *)
LEMMA CancelListingHolds ==
    ASSUME IInv, NEW l, NEW w, CancelListing(l, w)
    PROVE  IInv' /\ Rewrites(listings[l].ticketId, "active", tickets[listings[l].ticketId].owner)
<1>1. /\ l \in DOMAIN listings /\ listings[l].status = "open" /\ Record
      /\ UNCHANGED <<events, intents>> /\ listings[l].ticketId \in DOMAIN tickets
    BY DEF CancelListing, IInv, Core, References
<1>2. Rewrites(listings[l].ticketId, "active", tickets[listings[l].ticketId].owner)
    BY <1>1, RewriteStatus DEF CancelListing, IInv, Core
<1>3. Closes(listings, listings', l, "cancelled") /\ listings' \in [DOMAIN listings -> Listing]
    BY <1>1, CloseListing DEF CancelListing, IInv, Core
<1> QED BY <1>1, <1>2, <1>3, OfferCloses

(* ... and when it is sold. *)
LEMMA BuyResaleHolds ==
    ASSUME IInv, NEW l, NEW w \in Attendee, BuyResale(l, w)
    PROVE  IInv' /\ Rewrites(listings[l].ticketId, "active", w)
<1>1. /\ l \in DOMAIN listings /\ listings[l].status = "open" /\ Record
      /\ UNCHANGED <<events, intents>> /\ listings[l].ticketId \in DOMAIN tickets
    BY DEF BuyResale, IInv, Core, References
<1>2. Rewrites(listings[l].ticketId, "active", w)
    BY <1>1, RewriteSold DEF BuyResale, SellListing, IInv, Core
<1>3. Closes(listings, listings', l, "sold") /\ listings' \in [DOMAIN listings -> Listing]
    BY <1>1, CloseListing DEF BuyResale, SellListing, IInv, Core
<1> QED BY <1>1, <1>2, <1>3, OfferCloses

---------------------------------------------------------------------------
(* Check-in *)

(* What a presentation adds. *)
Presents(t) ==
    /\ NextId \notin DOMAIN intents
    /\ DOMAIN intents' = DOMAIN intents \cup {NextId}
    /\ intents'[NextId].ticketId = t
    /\ intents'[NextId].status = "active"
    /\ \A i \in DOMAIN intents : intents'[i] = intents[i]

(* A presentation opens one intent. *)
LEMMA PresentEffect ==
    ASSUME ListsType, NEW t, NEW w \in Attendee, PresentCheckIn(t, w)
    PROVE  Presents(t) /\ ListsType'
<1> DEFINE n == NextId
           entry == [eventId |-> tickets[t].eventId, ticketId |-> t, holder |-> w,
                     expiresAt |-> now + CheckInTtl, status |-> "active"]
<1>1. /\ t \in DOMAIN tickets /\ Record /\ UNCHANGED <<events, tickets, listings>>
      /\ intents' = Added(intents, entry)
    BY DEF PresentCheckIn
<1>2. /\ n \notin DOMAIN intents /\ n \in 1 .. sequence' /\ 1 .. sequence \subseteq 1 .. sequence'
      /\ now' = now /\ sequence' \in 0 .. MaxSequence
    BY <1>1, NextIdIsNew
<1>3. tickets[t] \in Ticket /\ t \in Nat /\ now + CheckInTtl \in Int
    BY <1>1, DemoAssumption DEF ListsType
<1>4. entry \in Intent /\ entry.ticketId = t /\ entry.status = "active"
    BY <1>3 DEF Ticket, Intent
<1> HIDE DEF entry, n
<1>5. /\ DOMAIN intents' = DOMAIN intents \cup {n} /\ intents'[n] = entry
      /\ \A i \in DOMAIN intents : intents'[i] = intents[i]
    BY <1>1, <1>2 DEF Added, n
<1>6. intents' \in [DOMAIN intents' -> Intent]
    BY <1>1, <1>4, <1>5 DEF ListsType, Added
<1>7. Presents(t)
    BY <1>2, <1>4, <1>5 DEF Presents, n
<1>8. ListsType'
    BY <1>1, <1>2, <1>5, <1>6 DEF ListsType
<1> QED BY <1>7, <1>8

(* A presentation keeps the invariant: the ticket is active and not *)
(* presented yet.                                                   *)
LEMMA PresentHolds ==
    ASSUME IInv, NEW t, NEW w \in Attendee, PresentCheckIn(t, w)
    PROVE  IInv'
<1> DEFINE n == NextId
<1>1. /\ t \in DOMAIN tickets /\ tickets[t].status = "active"
      /\ UNCHANGED <<events, tickets, listings>>
      /\ \A i \in DOMAIN intents : ActiveIntent(i) => intents[i].ticketId # t
    BY DEF PresentCheckIn
<1>2. ListsType /\ References /\ Presentations /\ DemoSingleUse /\ DemoOffers /\ DemoCapacity
    BY DEF IInv, Core
<1>3. ListsType' /\ Presents(t)
    BY <1>2, PresentEffect
<1>4. /\ n \notin DOMAIN intents /\ DOMAIN intents' = DOMAIN intents \cup {n}
      /\ intents'[n].ticketId = t /\ intents'[n].status = "active"
      /\ \A i \in DOMAIN intents : intents'[i] = intents[i]
    BY <1>3 DEF Presents
<1> HIDE DEF n
<1>5. References'
    BY <1>1, <1>2, <1>4 DEF References
<1>6. Presentations'
    <2>1. ASSUME NEW i \in DOMAIN intents', intents'[i].status = "active"
          PROVE  /\ tickets[intents'[i].ticketId].status = "active"
                 /\ \A j \in DOMAIN intents' :
                       (intents'[j].status = "active" /\ intents'[j].ticketId = intents'[i].ticketId)
                          => i = j
        BY <1>1, <1>2, <1>4, <2>1 DEF Presentations, ActiveIntent
    <2> QED BY <1>1, <2>1 DEF Presentations, ActiveIntent
<1>7. DemoSingleUse'
    <2>1. /\ ~(intents'[n].status = "consumed")
          /\ \A i \in DOMAIN intents : intents'[i] = intents[i]
        BY <1>4
    <2> QED BY <1>1, <1>2, <1>4, <2>1 DEF DemoSingleUse, DemoAdmittedOnce, Consumed
<1>8. DemoOffers'
    <2>1. \A l \in DOMAIN listings : listings[l].status = "open" => listings[l].ticketId # t
        BY <1>1, <1>2 DEF DemoOffers, Offered
    <2>2. \A l \in DOMAIN listings : listings[l].status = "open" =>
             ~ \E i \in DOMAIN intents' :
                  intents'[i].status = "active" /\ intents'[i].ticketId = listings[l].ticketId
        BY <1>2, <1>4, <2>1 DEF DemoOffers, Presented, ActiveIntent
    <2> QED BY <1>1, <1>2, <2>2 DEF DemoOffers, Offered, Presented, ActiveIntent
<1>9. DemoCapacity'
    BY <1>1, <1>2, CapacityUntouched
<1> QED BY <1>3, <1>5, <1>6, <1>7, <1>8, <1>9 DEF IInv, Core

(* An intent cancelled or expired keeps the invariant. *)
LEMMA CloseIntentHolds ==
    ASSUME IInv, NEW i \in DOMAIN intents, ActiveIntent(i),
           NEW status \in {"cancelled", "expired"}, CloseIntent(i, status)
    PROVE  IInv' /\ Closes(intents, intents', i, status)
<1>1. ListsType /\ References /\ Presentations /\ DemoSingleUse /\ DemoOffers /\ DemoCapacity
    BY DEF IInv, Core
<1>2. Record /\ UNCHANGED <<events, tickets, listings>>
    BY DEF CloseIntent
<1>3. Closes(intents, intents', i, status) /\ intents' \in [DOMAIN intents -> Intent]
    BY <1>1, CloseAnIntent DEF CloseIntent
<1>4. /\ DOMAIN intents' = DOMAIN intents
      /\ intents[i].status = "active" /\ intents'[i].status \notin {"active", "consumed"}
      /\ \A j \in DOMAIN intents : intents'[j].ticketId = intents[j].ticketId
      /\ \A j \in DOMAIN intents : j # i => intents'[j] = intents[j]
    BY <1>3 DEF Closes, ActiveIntent
<1>5. ListsType'
    BY <1>1, <1>2, <1>3, <1>4, NextIdIsNew DEF ListsType
<1>6. References'
    BY <1>1, <1>2, <1>4 DEF References
<1>7. Presentations'
    BY <1>1, <1>2, <1>4 DEF Presentations, ActiveIntent
<1>8. DemoSingleUse'
    <2>1. \A j \in DOMAIN intents : intents'[j].status = "consumed" <=> intents[j].status = "consumed"
        BY <1>4
    <2> QED BY <1>1, <1>2, <1>4, <2>1 DEF DemoSingleUse, DemoAdmittedOnce, Consumed
<1>9. DemoOffers'
    <2>1. \A j \in DOMAIN intents : intents'[j].status = "active" => intents[j].status = "active"
        BY <1>4
    <2> QED BY <1>1, <1>2, <1>4, <2>1 DEF DemoOffers, Offered, Presented, ActiveIntent
<1>10. DemoCapacity'
    BY <1>1, <1>2, CapacityUntouched
<1> QED BY <1>3, <1>5, <1>6, <1>7, <1>8, <1>9, <1>10 DEF IInv, Core

(* So does one consumed: its ticket was active, and no other intent of *)
(* it is open.                                                         *)
LEMMA ConsumeHolds ==
    ASSUME IInv, NEW i \in DOMAIN intents, NEW s, ConsumeCheckIn(i, s)
    PROVE  /\ IInv'
           /\ Rewrites(intents[i].ticketId, "used", tickets[intents[i].ticketId].owner)
           /\ Closes(intents, intents', i, "consumed")
<1> DEFINE t == intents[i].ticketId
<1>1. ListsType /\ References /\ Presentations /\ DemoSingleUse /\ DemoOffers /\ DemoCapacity
    BY DEF IInv, Core
<1>2. /\ intents[i].status = "active" /\ Record /\ UNCHANGED <<events, listings>>
      /\ t \in DOMAIN tickets /\ tickets[t].status = "active"
    BY <1>1 DEF ConsumeCheckIn, ActiveIntent, Presentations, References
<1>3. Rewrites(t, "used", tickets[t].owner)
    BY <1>1, <1>2, RewriteStatus DEF ConsumeCheckIn, AdmitHolder
<1>4. Closes(intents, intents', i, "consumed") /\ intents' \in [DOMAIN intents -> Intent]
    BY <1>1, CloseAnIntent DEF ConsumeCheckIn, AdmitHolder
<1>5. /\ DOMAIN tickets' = DOMAIN tickets /\ tickets'[t].status = "used"
      /\ \A u \in DOMAIN tickets : u # t => tickets'[u] = tickets[u]
      /\ \A u \in DOMAIN tickets : tickets'[u].eventId = tickets[u].eventId
    BY <1>3 DEF Rewrites
<1>6. /\ DOMAIN intents' = DOMAIN intents /\ intents'[i].status = "consumed"
      /\ \A j \in DOMAIN intents : intents'[j].ticketId = intents[j].ticketId
      /\ \A j \in DOMAIN intents : j # i => intents'[j] = intents[j]
    BY <1>4 DEF Closes
<1>7. \A j \in DOMAIN intents : intents[j].status = "active" /\ intents[j].ticketId = t => j = i
    BY <1>1, <1>2 DEF Presentations, ActiveIntent
<1>8. \A j \in DOMAIN intents : intents[j].ticketId = t => intents[j].status # "consumed"
    BY <1>1, <1>2 DEF DemoSingleUse, Consumed
<1>9. \A l \in DOMAIN listings : listings[l].status = "open" => listings[l].ticketId # t
    BY <1>1, <1>2 DEF DemoOffers, Offered
<1>10. intents[i].ticketId = t
    OBVIOUS
<1>11. IInv'
    <2> HIDE DEF t
    <2>1. ListsType'
        BY <1>1, <1>2, <1>3, <1>4, <1>5, <1>6, NextIdIsNew DEF ListsType, Rewrites
    <2>2. References'
        BY <1>1, <1>2, <1>5, <1>6 DEF References
    <2>3. Presentations'
        <3>1. \A j \in DOMAIN intents : intents'[j].status = "active" =>
                 /\ intents[j].status = "active" /\ j # i /\ intents[j].ticketId # t
            BY <1>6, <1>7
        <3> QED BY <1>1, <1>5, <1>6, <3>1 DEF Presentations, ActiveIntent, References
    <2>4. DemoSingleUse'
        <3>1. ASSUME NEW u \in DOMAIN tickets'
              PROVE  tickets'[u].status = "used"
                       <=> \E j \in DOMAIN intents' :
                              intents'[j].status = "consumed" /\ intents'[j].ticketId = u
            <4>1. CASE u = t
                BY <1>5, <1>6, <1>10, <4>1
            <4>2. CASE u # t
                BY <1>1, <1>5, <1>6, <1>10, <4>2 DEF DemoSingleUse, Consumed
            <4> QED BY <4>1, <4>2
        <3>2. \A j, k \in DOMAIN intents' :
                 (intents'[j].status = "consumed" /\ intents'[k].status = "consumed"
                    /\ intents'[j].ticketId = intents'[k].ticketId) => j = k
            BY <1>1, <1>6, <1>8, <1>10 DEF DemoSingleUse, DemoAdmittedOnce, Consumed
        <3> QED BY <3>1, <3>2 DEF DemoSingleUse, DemoAdmittedOnce, Consumed
    <2>5. DemoOffers'
        <3>1. \A j \in DOMAIN intents : intents'[j].status = "active" => intents[j].status = "active"
            BY <1>6, <1>2
        <3>2. \A u \in DOMAIN tickets' : tickets'[u].status = "listed"
                 <=> \E l \in DOMAIN listings : listings[l].status = "open" /\ listings[l].ticketId = u
            BY <1>1, <1>5, <1>9 DEF DemoOffers, Offered
        <3>3. \A l \in DOMAIN listings : listings[l].status = "open" =>
                 tickets'[listings[l].ticketId] = tickets[listings[l].ticketId]
            BY <1>1, <1>5, <1>9 DEF References
        <3> QED BY <1>1, <1>2, <1>6, <3>1, <3>2, <3>3 DEF DemoOffers, Offered, Presented, ActiveIntent
    <2>6. DemoCapacity'
        BY <1>1, <1>2, <1>5, CapacityUntouched
    <2> QED BY <2>1, <2>2, <2>3, <2>4, <2>5, <2>6 DEF IInv, Core
<1> QED BY <1>3, <1>4, <1>11

---------------------------------------------------------------------------
(* The invariant holds *)

EmptyTable ==
    /\ events = Empty /\ tickets = Empty /\ listings = Empty /\ intents = Empty
    /\ sequence = 0 /\ now \in Nat

(* The invariant holds of the empty table. *)
LEMMA EmptyHolds == EmptyTable => IInv
<1> SUFFICES ASSUME EmptyTable PROVE IInv
    OBVIOUS
<1>1. /\ DOMAIN events = {} /\ DOMAIN tickets = {}
      /\ DOMAIN listings = {} /\ DOMAIN intents = {}
    BY DEF EmptyTable, Empty
<1>2. ListsType
    BY <1>1, DemoAssumption DEF EmptyTable, ListsType, Empty
<1> QED BY <1>1, <1>2 DEF IInv, Core, References, Presentations, DemoSingleUse, DemoAdmittedOnce,
                          DemoOffers, DemoCapacity

(* It is kept when only time passes. *)
LEMMA IdleHolds ==
    ASSUME IInv, UNCHANGED demoState, now' \in Nat
    PROVE  IInv'
<1>1. UNCHANGED <<events, tickets, listings, intents, sequence>>
    BY DEF demoState
<1>2. ListsType' /\ References' /\ DemoCapacity'
    BY <1>1 DEF IInv, Core, ListsType, References, DemoCapacity
<1>3. Presentations' /\ DemoSingleUse'
    BY <1>1 DEF IInv, Core, Presentations, DemoSingleUse, DemoAdmittedOnce, Consumed, ActiveIntent
<1>4. DemoOffers'
    BY <1>1 DEF IInv, Core, DemoOffers, Offered, Presented, ActiveIntent
<1> QED BY <1>2, <1>3, <1>4 DEF IInv, Core

(* It is kept by a reset. *)
LEMMA ResetHolds == ASSUME IInv, Reset PROVE IInv'
<1>1. EmptyTable'
    BY DEF Reset, IInv, Core, ListsType, EmptyTable
<1>2. EmptyTable' => IInv'
    BY EmptyHolds, PTL
<1> QED BY <1>1, <1>2

(* It is kept by every step under the desk's buttons. *)
LEMMA DeskStepHolds == ASSUME IInv, [DeskNext]_vars PROVE IInv'
<1>1. now \in Nat
    BY DEF IInv, Core, ListsType
<1>2. CASE UNCHANGED vars
    BY <1>1, <1>2, IdleHolds DEF vars
<1>3. CASE Tick
    BY <1>1, <1>3, IdleHolds DEF Tick
<1>4. CASE Reset
    BY <1>4, ResetHolds
<1>5. CASE OrganizerSpace
    BY <1>5, CreateEventHolds, PublishEventHolds DEF OrganizerSpace
<1>6. CASE AttendeeSpace
    <2> SUFFICES ASSUME NEW w \in Attendee,
                        \/ BuyPrimary(FirstEvent, w)
                        \/ \E t \in DOMAIN tickets :
                              /\ TicketForms(t, w)
                              /\ \/ \E r \in Attendee : GiftTicket(t, w, r)
                                 \/ \E p \in ResalePriceInputs : ListTicket(t, w, p)
                                 \/ PresentCheckIn(t, w)
                        \/ \E i \in DOMAIN intents : CancelCheckIn(i, w)
                        \/ \E l \in DOMAIN listings : CancelListing(l, w) \/ BuyResale(l, w)
                 PROVE  IInv'
        BY <1>6 DEF AttendeeSpace
    <2>1. ASSUME NEW i \in DOMAIN intents, CancelCheckIn(i, w) PROVE IInv'
        BY <2>1, CloseIntentHolds DEF CancelCheckIn
    <2> QED BY <2>1, BuyPrimaryHolds, GiftHolds, ListHolds, PresentHolds, CancelListingHolds,
               BuyResaleHolds
<1>7. CASE StaffSpace
    <2> SUFFICES ASSUME NEW i \in DOMAIN intents, NEW s \in Staff,
                        ExpireCheckIn(i) \/ ConsumeCheckIn(i, s)
                 PROVE  IInv'
        BY <1>7 DEF StaffSpace
    <2>1. CASE ExpireCheckIn(i)
        BY <2>1, CloseIntentHolds DEF ExpireCheckIn
    <2> QED BY <2>1, ConsumeHolds
<1> QED BY <1>2, <1>3, <1>4, <1>5, <1>6, <1>7 DEF DeskNext

(* So it always holds. *)
LEMMA InvariantHolds == DeskSpec => []IInv
<1>1. Init => IInv
    BY EmptyHolds DEF Init, EmptyTable
<1> QED BY <1>1, DeskStepHolds, PTL DEF DeskSpec

(* Used through the desk, a ticket is used exactly when one of its         *)
(* presentations was consumed, and never two of them were.                 *)
THEOREM DeskAdmitsOnce == DeskSpec => []DemoSingleUse
<1>1. IInv => DemoSingleUse
    BY DEF IInv, Core
<1> QED BY InvariantHolds, <1>1, PTL

(* The tickets of an event are the ones it counted as sold, and fit in its *)
(* capacity.                                                               *)
THEOREM DeskKeepsCapacity == DeskSpec => []DemoCapacity
<1>1. IInv => DemoCapacity
    BY DEF IInv
<1> QED BY InvariantHolds, <1>1, PTL

(* A ticket is listed exactly while one listing of it is open, whose       *)
(* seller owns it, and nobody presents it meanwhile.                       *)
THEOREM DeskOffersConsistent == DeskSpec => []DemoOffers
<1>1. IInv => DemoOffers
    BY DEF IInv, Core
<1> QED BY InvariantHolds, <1>1, PTL

---------------------------------------------------------------------------
(* The desk implements TicketRegistry between two resets: each command is  *)
(* one step of the registry on one ticket, or none.                        *)

HolderOf(t) == IF t \in DOMAIN tickets THEN tickets[t].owner ELSE "nobody"

(* The phase of a ticket by its status and its open presentation, ... *)
LEMMA PhaseIs ==
    ASSUME NEW t
    PROVE  /\ t \notin DOMAIN tickets => PhaseOf(t) = "unissued" /\ HolderOf(t) = "nobody"
           /\ t \in DOMAIN tickets =>
                 /\ HolderOf(t) = tickets[t].owner
                 /\ tickets[t].status = "used" => PhaseOf(t) = "used"
                 /\ tickets[t].status = "listed" => PhaseOf(t) = "offered"
                 /\ tickets[t].status = "active" =>
                       PhaseOf(t) = IF Presented(t) THEN "presented" ELSE "held"
BY DEF PhaseOf, HolderOf

(* ... and the same after a step. *)
LEMMA PhaseBecomes ==
    ASSUME NEW t
    PROVE  t \in DOMAIN tickets' =>
              /\ HolderOf(t)' = tickets'[t].owner
              /\ tickets'[t].status = "used" => PhaseOf(t)' = "used"
              /\ tickets'[t].status = "listed" => PhaseOf(t)' = "offered"
              /\ tickets'[t].status = "active" =>
                    PhaseOf(t)' = IF Presented(t)' THEN "presented" ELSE "held"
BY DEF PhaseOf, HolderOf

(* Nothing happens to a ticket other than t. *)
OnlyTicket(t) ==
    \A u \in Ids \ {t} :
        /\ u \in DOMAIN tickets' <=> u \in DOMAIN tickets
        /\ u \in DOMAIN tickets => tickets'[u] = tickets[u]
        /\ Presented(u)' <=> Presented(u)

(* A command about one ticket changes the registry's record of that *)
(* ticket alone.                                                    *)
LEMMA OneTicketImage ==
    ASSUME NEW t \in Ids, OnlyTicket(t)
    PROVE  /\ Phases' = [Phases EXCEPT ![t] = PhaseOf(t)']
           /\ HoldersOf' = [HoldersOf EXCEPT ![t] = HolderOf(t)']
           /\ Phases[t] = PhaseOf(t) /\ HoldersOf[t] = HolderOf(t)
<1>1. ASSUME NEW u \in Ids \ {t}
      PROVE  PhaseOf(u)' = PhaseOf(u) /\ HolderOf(u)' = HolderOf(u)
    <2>1. /\ u \in DOMAIN tickets' <=> u \in DOMAIN tickets
          /\ u \in DOMAIN tickets => tickets'[u] = tickets[u]
          /\ Presented(u)' <=> Presented(u)
        BY DEF OnlyTicket
    <2> QED BY <2>1 DEF PhaseOf, HolderOf
<1>2. Ids' = Ids
    BY DEF Ids
<1>3. Phases' = [Phases EXCEPT ![t] = PhaseOf(t)'] /\ Phases[t] = PhaseOf(t)
    BY <1>1, <1>2 DEF Phases
<1>4. HoldersOf' = [HoldersOf EXCEPT ![t] = HolderOf(t)'] /\ HoldersOf[t] = HolderOf(t)
    BY <1>1, <1>2 DEF HoldersOf, HolderOf
<1> QED BY <1>3, <1>4

(* From one phase to another, in the same hands.                           *)
LEMMA MoveImage ==
    ASSUME NEW t \in Ids, OnlyTicket(t), HolderOf(t)' = HolderOf(t),
           \/ PhaseOf(t) = "held" /\ PhaseOf(t)' \in {"offered", "presented"}
           \/ PhaseOf(t) = "offered" /\ PhaseOf(t)' = "held"
           \/ PhaseOf(t) = "presented" /\ PhaseOf(t)' \in {"held", "used"}
    PROVE  Registry!RegistryNext
<1>1. HoldersOf' = HoldersOf
    BY OneTicketImage DEF HoldersOf
<1> QED BY <1>1, OneTicketImage
        DEF Registry!RegistryNext, Registry!Move, Registry!Offer,
            Registry!Withdraw, Registry!Present, Registry!Retract, Registry!Admit

(* Into other hands, held afterwards.                                      *)
LEMMA HandImage ==
    ASSUME NEW t \in Ids, OnlyTicket(t), HolderOf(t)' \in Attendee,
           HolderOf(t)' # HolderOf(t), PhaseOf(t)' = "held",
           PhaseOf(t) \in {"unissued", "held", "offered"}
    PROVE  Registry!RegistryNext
<1>1. CASE PhaseOf(t) = "held"
    <2>1. Phases' = Phases
        BY <1>1, OneTicketImage DEF Phases
    <2> QED BY <1>1, <2>1, OneTicketImage
            DEF Registry!RegistryNext, Registry!Hand, Registry!Give
<1>2. CASE PhaseOf(t) \in {"unissued", "offered"}
    BY <1>2, OneTicketImage
       DEF Registry!RegistryNext, Registry!Move, Registry!Hand, Registry!Issue, Registry!Sell
<1> QED BY <1>1, <1>2

(* A ticket of the table is one of the registry. *)
LEMMA TicketIds ==
    ASSUME ListsType, NEW t \in DOMAIN tickets
    PROVE  t \in Ids /\ tickets[t] \in Ticket /\ tickets[t].owner \in Attendee
<1>1. t \in Ids
    BY DemoAssumption DEF ListsType, Ids
<1> QED BY <1>1 DEF ListsType, Ticket

(* The tickets and the presentations are as they were.                     *)
LEMMA IdleImage ==
    ASSUME UNCHANGED <<tickets, intents>>
    PROVE  UNCHANGED <<Phases, HoldersOf>>
<1>1. \A t : PhaseOf(t)' = PhaseOf(t)
    BY DEF PhaseOf, Presented, ActiveIntent
<1> QED BY <1>1 DEF Phases, HoldersOf, Ids

(* A purchase is an issue of the registry. *)
LEMMA BuyPrimaryImage ==
    ASSUME IInv, NEW e, NEW w \in Attendee, BuyPrimary(e, w)
    PROVE  Registry!RegistryNext
<1>1. Buys(e, w)
    BY BuyPrimaryEffect DEF IInv, Core
<1>2. PICK t \in Ids : t = NextId
    BY <1>1 DEF Buys, Ids
<1>3. /\ t \notin DOMAIN tickets /\ DOMAIN tickets' = DOMAIN tickets \cup {t}
      /\ tickets'[t].owner = w /\ tickets'[t].status = "active"
      /\ \A u \in DOMAIN tickets : tickets'[u] = tickets[u]
      /\ intents' = intents
    BY <1>1, <1>2 DEF Buys
<1>4. OnlyTicket(t)
    BY <1>3 DEF OnlyTicket, Presented, ActiveIntent
<1>5. ~Presented(t)'
    BY <1>3 DEF IInv, Core, References, Presented, ActiveIntent
<1>6. w # "nobody"
    BY NobodyAssumption
<1> QED BY <1>3, <1>4, <1>5, <1>6, PhaseIs, PhaseBecomes, HandImage

(* A ticket is rewritten and no presentation changes.                      *)
LEMMA RewriteImage ==
    ASSUME ListsType, NEW t \in DOMAIN tickets, NEW status, NEW owner,
           Rewrites(t, status, owner), UNCHANGED intents
    PROVE  /\ t \in Ids /\ OnlyTicket(t) /\ t \in DOMAIN tickets'
           /\ tickets'[t].status = status /\ tickets'[t].owner = owner
           /\ Presented(t)' <=> Presented(t)
<1>1. DOMAIN tickets' = DOMAIN tickets /\ \A u \in DOMAIN tickets : u # t => tickets'[u] = tickets[u]
    BY DEF Rewrites
<1>2. \A u : Presented(u)' <=> Presented(u)
    BY DEF Presented, ActiveIntent
<1>3. OnlyTicket(t)
    BY <1>1, <1>2 DEF OnlyTicket
<1> QED BY <1>1, <1>2, <1>3, TicketIds DEF Rewrites

(* Giving, listing and presenting are steps of the registry, ... *)
LEMMA TicketFormsImage ==
    ASSUME IInv, NEW t \in DOMAIN tickets, NEW w \in Attendee, TicketForms(t, w),
           \/ \E r \in Attendee : GiftTicket(t, w, r)
           \/ \E p \in ResalePriceInputs : ListTicket(t, w, p)
           \/ PresentCheckIn(t, w)
    PROVE  Registry!RegistryNext
<1>1. ListsType /\ t \in Ids /\ ~Presented(t) /\ tickets[t].owner = w
    BY TicketIds DEF TicketForms, IInv, Core
<1>2. tickets[t].status = "active"
    BY DEF GiftTicket, ListTicket, PresentCheckIn
<1>3. PhaseOf(t) = "held" /\ HolderOf(t) = w
    BY <1>1, <1>2, PhaseIs
<1>4. CASE \E r \in Attendee : GiftTicket(t, w, r)
    <2>1. PICK r \in Attendee : GiftTicket(t, w, r)
        BY <1>4
    <2>2. Rewrites(t, "active", r) /\ UNCHANGED intents /\ w # r
        BY <2>1, GiftHolds DEF GiftTicket
    <2>3. /\ OnlyTicket(t) /\ t \in DOMAIN tickets'
          /\ tickets'[t].status = "active" /\ tickets'[t].owner = r /\ ~Presented(t)'
        BY <1>1, <2>2, RewriteImage
    <2> QED BY <1>1, <1>3, <2>2, <2>3, PhaseBecomes, HandImage
<1>5. CASE \E p \in ResalePriceInputs : ListTicket(t, w, p)
    <2>1. Rewrites(t, "listed", w) /\ UNCHANGED intents
        BY <1>1, <1>5, ListEffect DEF ListTicket
    <2>2. /\ OnlyTicket(t) /\ t \in DOMAIN tickets'
          /\ tickets'[t].status = "listed" /\ tickets'[t].owner = w
        BY <1>1, <2>1, RewriteImage
    <2> QED BY <1>1, <1>3, <2>2, PhaseBecomes, MoveImage
<1>6. CASE PresentCheckIn(t, w)
    <2>1. Presents(t) /\ UNCHANGED tickets
        BY <1>1, <1>6, PresentEffect DEF PresentCheckIn
    <2>2. Presented(t)'
        BY <2>1 DEF Presents, Presented, ActiveIntent
    <2>3. \A u \in Ids \ {t} : Presented(u)' <=> Presented(u)
        BY <2>1 DEF Presents, Presented, ActiveIntent
    <2>4. OnlyTicket(t)
        BY <2>1, <2>3 DEF OnlyTicket
    <2> QED BY <1>1, <1>2, <1>3, <2>1, <2>2, <2>4, PhaseBecomes, MoveImage
<1> QED BY <1>4, <1>5, <1>6

(* ... so are withdrawing and buying, ... *)
LEMMA MarketImage ==
    ASSUME IInv, NEW l \in DOMAIN listings, NEW w \in Attendee,
           CancelListing(l, w) \/ BuyResale(l, w)
    PROVE  Registry!RegistryNext
<1>1. listings[l].status = "open" /\ UNCHANGED intents /\ ListsType
    BY DEF CancelListing, BuyResale, IInv, Core
<1>2. PICK t \in DOMAIN tickets : t = listings[l].ticketId
    BY DEF IInv, Core, References
<1>3. /\ tickets[t].status = "listed" /\ ~Presented(t)
      /\ tickets[t].owner = listings[l].seller
    BY <1>1, <1>2 DEF IInv, Core, DemoOffers, Offered
<1>4. PhaseOf(t) = "offered" /\ HolderOf(t) = tickets[t].owner
    BY <1>3, PhaseIs
<1>5. CASE CancelListing(l, w)
    <2>1. Rewrites(t, "active", tickets[t].owner)
        BY <1>2, <1>5, CancelListingHolds
    <2>2. /\ t \in Ids /\ OnlyTicket(t) /\ t \in DOMAIN tickets'
          /\ tickets'[t].status = "active" /\ tickets'[t].owner = tickets[t].owner
          /\ ~Presented(t)'
        BY <1>1, <1>3, <2>1, RewriteImage
    <2> QED BY <1>4, <2>2, PhaseBecomes, MoveImage
<1>6. CASE BuyResale(l, w)
    <2>1. Rewrites(t, "active", w) /\ w # tickets[t].owner
        BY <1>2, <1>3, <1>6, BuyResaleHolds DEF BuyResale
    <2>2. /\ t \in Ids /\ OnlyTicket(t) /\ t \in DOMAIN tickets'
          /\ tickets'[t].status = "active" /\ tickets'[t].owner = w
          /\ ~Presented(t)'
        BY <1>1, <1>3, <2>1, RewriteImage
    <2> QED BY <1>4, <2>1, <2>2, PhaseBecomes, HandImage
<1> QED BY <1>5, <1>6

(* A presentation ends: of its ticket none is left, of others all are.     *)
LEMMA CloseImage ==
    ASSUME IInv, NEW i \in DOMAIN intents, ActiveIntent(i), NEW status,
           status # "active", Closes(intents, intents', i, status),
           NEW t \in DOMAIN tickets, t = intents[i].ticketId
    PROVE  /\ t \in Ids /\ PhaseOf(t) = "presented" /\ HolderOf(t) = tickets[t].owner
           /\ ~Presented(t)'
           /\ \A u \in Ids \ {t} : Presented(u)' <=> Presented(u)
<1>1. tickets[t].status = "active" /\ Presented(t)
    BY DEF IInv, Core, Presentations, Presented
<1>2. t \in Ids /\ PhaseOf(t) = "presented" /\ HolderOf(t) = tickets[t].owner
    BY <1>1, PhaseIs, TicketIds DEF IInv, Core
<1>3. \A j \in DOMAIN intents : intents[j].status = "active" /\ intents[j].ticketId = t => j = i
    BY DEF IInv, Core, Presentations, ActiveIntent
<1>4. /\ DOMAIN intents' = DOMAIN intents /\ intents'[i].status # "active"
      /\ \A j \in DOMAIN intents : intents'[j].ticketId = intents[j].ticketId
      /\ \A j \in DOMAIN intents : j # i => intents'[j] = intents[j]
    BY DEF Closes
<1>5. ~Presented(t)'
    BY <1>3, <1>4 DEF Presented, ActiveIntent
<1>6. \A u \in Ids \ {t} : Presented(u)' <=> Presented(u)
    BY <1>4 DEF Presented, ActiveIntent
<1> QED BY <1>2, <1>5, <1>6

(* ... and so are the ends of a presentation. *)
LEMMA CheckInImage ==
    ASSUME IInv, NEW i \in DOMAIN intents,
           \/ \E w \in Attendee : CancelCheckIn(i, w)
           \/ ExpireCheckIn(i)
           \/ \E s \in Staff : ConsumeCheckIn(i, s)
    PROVE  Registry!RegistryNext
<1>1. ActiveIntent(i)
    BY DEF CancelCheckIn, ExpireCheckIn, ConsumeCheckIn
<1>2. PICK t \in DOMAIN tickets : t = intents[i].ticketId
    BY DEF IInv, Core, References
<1>3. CASE \E status \in {"cancelled", "expired"} : CloseIntent(i, status)
    <2>1. PICK status \in {"cancelled", "expired"} : CloseIntent(i, status)
        BY <1>3
    <2>2. Closes(intents, intents', i, status) /\ UNCHANGED tickets
        BY <1>1, <2>1, CloseIntentHolds DEF CloseIntent
    <2>3. /\ t \in Ids /\ PhaseOf(t) = "presented" /\ HolderOf(t) = tickets[t].owner
          /\ ~Presented(t)' /\ \A u \in Ids \ {t} : Presented(u)' <=> Presented(u)
        BY <1>1, <1>2, <2>2, CloseImage
    <2>4. OnlyTicket(t)
        BY <2>2, <2>3 DEF OnlyTicket
    <2>5. tickets'[t].status = "active"
        BY <1>1, <1>2, <2>2 DEF IInv, Core, Presentations
    <2> QED BY <2>2, <2>3, <2>4, <2>5, PhaseBecomes, MoveImage
<1>4. CASE \E s \in Staff : ConsumeCheckIn(i, s)
    <2>1. Rewrites(t, "used", tickets[t].owner) /\ Closes(intents, intents', i, "consumed")
        BY <1>2, <1>4, ConsumeHolds
    <2>2. /\ t \in Ids /\ PhaseOf(t) = "presented" /\ HolderOf(t) = tickets[t].owner
          /\ \A u \in Ids \ {t} : Presented(u)' <=> Presented(u)
        BY <1>1, <1>2, <2>1, CloseImage
    <2>3. OnlyTicket(t)
        BY <2>1, <2>2 DEF OnlyTicket, Rewrites
    <2> QED BY <2>1, <2>2, <2>3, PhaseBecomes, MoveImage DEF Rewrites
<1> QED BY <1>3, <1>4 DEF CancelCheckIn, ExpireCheckIn

(* Every step is a reset, a step of the registry, or invisible in it. *)
LEMMA DeskImage ==
    ASSUME IInv, [DeskNext]_vars
    PROVE  Reset \/ Registry!RegistryNext \/ UNCHANGED <<Phases, HoldersOf>>
<1>1. CASE UNCHANGED vars \/ Tick
    BY <1>1, IdleImage DEF vars, demoState, Tick
<1>2. CASE OrganizerSpace
    BY <1>2, IdleImage DEF OrganizerSpace, CreateEvent, PublishEvent
<1>3. CASE AttendeeSpace
    BY <1>3, BuyPrimaryImage, TicketFormsImage, MarketImage, CheckInImage DEF AttendeeSpace
<1>4. CASE StaffSpace
    BY <1>4, CheckInImage DEF StaffSpace
<1> QED BY <1>1, <1>2, <1>3, <1>4 DEF DeskNext

(* Between two resets, what the desk shows of the tickets follows the same *)
(* registry the program on chain implements.                               *)
THEOREM DeskImplementsRegistry == DeskSpec => DeskFollowsRegistry
<1>1. Init => Registry!RegistryInit
    BY DEF Init, Empty, Registry!RegistryInit, Phases, HoldersOf, PhaseOf
<1>2. IInv /\ [DeskNext]_vars => [Reset \/ Registry!RegistryNext]_<<Phases, HoldersOf>>
    BY DeskImage
<1> QED BY <1>1, <1>2, InvariantHolds, PTL DEF DeskSpec, DeskFollowsRegistry
===========================
