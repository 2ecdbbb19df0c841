---- MODULE Ticketing ----
(***************************************************************************)
(* The whole on-chain program: every instruction over the shared accounts, *)
(* in any order, sent by any wallet, beside the cluster's clock.           *)
(***************************************************************************)
EXTENDS PlatformEvent, Tickets, CheckIn, FiniteSets

CONSTANTS
    FeeInputs,          \* platform_fee_bps arguments
    StandardInputs,     \* asset_standard arguments
    TreasuryInputs,     \* treasury accounts
    DetailsInputs,      \* EventDetails arguments
    PriceInputs,        \* tier prices
    SupplyInputs,       \* tier supplies
    ResalePriceInputs,  \* listing prices
    PauseInputs         \* values the admin gives to `paused`

ASSUME InputAssumption ==
    /\ FeeInputs \subseteq Nat
    /\ TreasuryInputs \subseteq Wallet
    /\ StandardInputs \subseteq AssetStandard
    /\ DetailsInputs \subseteq EventDetails
    /\ PriceInputs \subseteq Nat
    /\ SupplyInputs \subseteq Nat
    /\ ResalePriceInputs \subseteq Nat
    /\ PauseInputs \subseteq BOOLEAN

Init ==
    /\ config = None
    /\ event = [e \in EventKey |-> None]
    /\ tier = [tr \in TierKey |-> None]
    /\ staff = [s \in StaffKey |-> "None"]
    /\ ticket = [t \in TicketKey |-> None]
    /\ asset = [t \in TicketKey |-> None]
    /\ listing = [l \in ListingKey |-> None]
    /\ intent = [i \in IntentKey |-> None]
    /\ balance = [w \in Wallet |-> InitialLamports]
    /\ now = 0

Tick ==
    /\ now < MaxTime
    /\ now' = now + 1
    /\ UNCHANGED <<config, setupVars, circulationVars, intent>>

PlatformStep ==
    \E signer \in Wallet, treasury \in TreasuryInputs, fee_bps \in FeeInputs :
        \/ \E standard \in StandardInputs :
              InitializePlatform(signer, treasury, fee_bps, standard)
        \/ \E paused \in PauseInputs :
              UpdatePlatform(signer, treasury, fee_bps, paused)

StandardStep ==
    \E signer \in Wallet, standard \in StandardInputs : SetAssetStandard(signer, standard)

EventStep ==
    \/ \E signer \in Organizer, id \in EventId, d \in DetailsInputs :
          CreateEvent(signer, id, d)
    \/ \E signer \in Wallet, e \in EventKey :
          \/ \E d \in DetailsInputs : UpdateEvent(signer, e, d)
          \/ PublishEvent(signer, e)
          \/ CancelEvent(signer, e)
          \/ CloseEvent(signer, e)

TierStep ==
    \E signer \in Wallet, e \in EventKey, price \in PriceInputs, supply \in SupplyInputs :
        \/ \E id \in 0 .. MaxTierId - 1 : AddTier(signer, e, id, price, supply)
        \/ \E tr \in TierKey, active \in BOOLEAN :
              UpdateTier(signer, e, tr, price, supply, active)

StaffStep ==
    \E signer \in Wallet, e \in EventKey, w \in Staff :
        AuthorizeStaff(signer, e, w) \/ RevokeStaff(signer, e, w)

PurchaseStep ==
    \E buyer \in Holder, e \in EventKey, tr \in TierKey, id \in 0 .. MaxTicketId - 1 :
        PrimaryPurchase(buyer, e, tr, id) \/ PrimaryPurchaseCore(buyer, e, tr, id)

GiftStep ==
    \E signer \in Holder, recipient \in Holder, e \in EventKey, t \in TicketKey :
        \/ GiftTicket(signer, recipient, e, t)
        \/ GiftTicketCore(signer, recipient, e, t)

ListStep ==
    \E seller \in Holder, e \in EventKey, t \in TicketKey,
       id \in 0 .. MaxListingId - 1, price \in ResalePriceInputs,
       expires_at \in 0 .. MaxTime :
        \/ ListTicket(seller, e, t, id, price, expires_at)
        \/ ListTicketCore(seller, e, t, id, price, expires_at)

CancelListingStep ==
    \E signer \in Holder, t \in TicketKey, l \in ListingKey :
        CancelListing(signer, t, l) \/ CancelListingCore(signer, t, l)

ResaleStep ==
    \E buyer \in Holder, e \in EventKey, t \in TicketKey, l \in ListingKey :
        BuyResale(buyer, e, t, l) \/ BuyResaleCore(buyer, e, t, l)

PresentStep ==
    \E holder \in Holder, e \in EventKey, t \in TicketKey,
       nonce \in 0 .. MaxNonce - 1, expires_at \in 0 .. MaxTime :
        \/ PresentCheckIn(holder, e, t, nonce, expires_at)
        \/ PresentCheckInCore(holder, e, t, nonce, expires_at)

CloseIntentStep ==
    \E t \in TicketKey, i \in IntentKey :
        \/ \E signer \in Holder : CancelCheckIn(signer, t, i)
        \/ ExpireCheckIn(t, i)

ConsumeStep ==
    \E signer \in Staff, e \in EventKey, t \in TicketKey, i \in IntentKey :
        ConsumeCheckIn(signer, e, t, i) \/ ConsumeCheckInCore(signer, e, t, i)

Next ==
    \/ Tick
    \/ PlatformStep \/ StandardStep
    \/ EventStep \/ TierStep \/ StaffStep
    \/ PurchaseStep \/ GiftStep
    \/ ListStep \/ CancelListingStep \/ ResaleStep
    \/ PresentStep \/ CloseIntentStep \/ ConsumeStep

Spec == Init /\ [][Next]_vars

(***************************************************************************)
(* Fairness.  The clock of the cluster advances; an organizer whose event  *)
(* has ended eventually closes it; somebody, the keeper, eventually sends  *)
(* expire_check_in for an intent whose time has passed.  Nothing else is   *)
(* promised: no wallet is obliged to buy, to present or to consume, and    *)
(* the admin may pause the platform and never resume it.                   *)
(***************************************************************************)
Fairness ==
    /\ WF_vars(Tick)
    /\ \A e \in EventKey : WF_vars(CloseEvent(e[1], e))
    /\ WF_vars(\E i \in IntentKey : ExpireCheckIn(i[1], i))

---------------------------------------------------------------------------
(* Type invariant *)

(* Every account, once initialised, has the layout of state.rs; counters   *)
(* and lamports are never negative.                                        *)
TypeOK == StateTypeOK

---------------------------------------------------------------------------
(* Safety *)

Pending(i) == intent[i] # None /\ intent[i].status = "Pending"
Consumed(i) == intent[i] # None /\ intent[i].status = "Consumed"
OpenOffer(l) == listing[l] # None /\ listing[l].status = "Active"

ActiveIntentPending(t) ==
    (ticket[t] # None /\ ticket[t].active_intent # None) =>
        LET i == ticket[t].active_intent IN
        Pending(i) /\ intent[i].ticket = t

PendingIntentCurrent(i) ==
    Pending(i) =>
        LET t == intent[i].ticket IN
        /\ ticket[t] # None
        /\ ticket[t].active_intent = i
        /\ ticket[t].event = intent[i].event
        /\ ticket[t].owner = intent[i].holder
        /\ ActiveTicket(t)

(* A ticket points at an intent exactly while that intent is pending, so   *)
(* at most one intent of a ticket is pending; a pending intent belongs to  *)
(* the current owner of an active, unused ticket of the same event.  The   *)
(* Core consumption handler relies on it: it does not look at the status.  *)
IntentExclusive ==
    /\ \A t \in TicketKey : ActiveIntentPending(t)
    /\ \A i \in IntentKey : PendingIntentCurrent(i)

ListedTicketOffered(t) ==
    (ticket[t] # None /\ ticket[t].status = "Listed")
        => \E l \in ListingKey : OpenOffer(l) /\ listing[l].ticket = t

WithinMarkup(price, original_price, markup_bps) ==
    price * BpsDenominator <= original_price * (BpsDenominator + markup_bps)

OpenOfferCurrent(l) ==
    OpenOffer(l) =>
        LET t == listing[l].ticket
            e == event[ticket[t].event]
        IN
        /\ ticket[t] # None
        /\ ticket[t].status = "Listed"
        /\ l = <<t, ticket[t].next_listing_id - 1>>
        /\ ticket[t].event = listing[l].event
        /\ ticket[t].owner = listing[l].seller
        /\ listing[l].expires_at <= e.details.check_in_start_at
        /\ WithinMarkup(listing[l].price_lamports, ticket[t].original_price_lamports,
                        e.details.max_resale_markup_bps)

(* A ticket is listed exactly while one listing of it is active: the       *)
(* latest.  Its seller owns the ticket, it expires before check-in opens,  *)
(* and for its whole life its price exceeds the original price by no more  *)
(* than the markup of the event, to the last fraction of a lamport.        *)
ListingExclusive ==
    /\ \A t \in TicketKey : ListedTicketOffered(t)
    /\ \A l \in ListingKey : OpenOfferCurrent(l)

AssetFollows(t) ==
    /\ (ticket[t] = None) <=> (asset[t] = None)
    /\ ticket[t] # None =>
          /\ asset[t].standard = ticket[t].asset_standard
          /\ asset[t].owner = ticket[t].owner
          /\ ticket[t].asset_standard = "MplCore" =>
                /\ asset[t].frozen
                /\ ticket[t].status = "Listed" => asset[t].delegated

(* The asset moves with its ticket record: same standard, same owner.  A   *)
(* Core asset is frozen between transactions, so no transfer can bypass    *)
(* the program, and it carries the delegate a resale needs while listed.   *)
CustodyConsistent == \A t \in TicketKey : AssetFollows(t)

UsedTicket(t) ==
    ticket[t] # None /\ (ticket[t].status = "Used" \/ ticket[t].used_at # None)

ConsumedIntentUsed(i) ==
    Consumed(i) =>
        LET t == intent[i].ticket
            e == event[ticket[t].event]
        IN
        /\ ticket[t] # None
        /\ ticket[t].status = "Used"
        /\ ticket[t].active_intent = None
        /\ ticket[t].used_at = intent[i].consumed_at
        /\ ticket[t].used_by = intent[i].staff
        /\ ticket[t].owner = intent[i].holder
        /\ intent[i].consumed_at < intent[i].expires_at
        /\ e.details.check_in_start_at <= intent[i].consumed_at
        /\ intent[i].consumed_at <= e.details.check_in_end_at

(* A ticket is used exactly when one intent of it was consumed, by the     *)
(* staff member and at the time both records name, before the intent       *)
(* expired and while check-in was open.                                    *)
SingleUse ==
    /\ \A t \in TicketKey :
          UsedTicket(t) => \E i \in IntentKey : Consumed(i) /\ intent[i].ticket = t
    /\ \A i \in IntentKey : ConsumedIntentUsed(i)
    /\ \A i, j \in IntentKey :
          (Consumed(i) /\ Consumed(j) /\ intent[i].ticket = intent[j].ticket) => i = j

TicketsOf(tr) == {t \in TicketKey : ticket[t] # None /\ ticket[t].tier = tr}

(* No tier sells more than its supply, and its counter is the number of    *)
(* tickets that exist for it.                                              *)
SupplyConsistent ==
    \A tr \in TierKey :
        tier[tr] # None =>
           /\ tier[tr].sold <= tier[tr].supply
           /\ tier[tr].sold = Cardinality(TicketsOf(tr))

TicketIssued(t) ==
    LET e == t[1] IN
    /\ ticket[t] # None <=> (event[e] # None /\ t[2] < event[e].next_ticket_id)
    /\ ticket[t] # None => event[e].status \in {"Published", "Closed"}

(* The tickets of an event are the ones its counter issued, without gaps,  *)
(* and an event with tickets is published or closed: a cancelled event     *)
(* never stranded a holder, and a draft sold nothing.                      *)
CancelledWithoutTickets == \A t \in TicketKey : TicketIssued(t)

(* From publication on, the fee and the royalty an event charges leave the *)
(* seller of a resale a non-negative share, whatever the admin did to the  *)
(* platform's fee before or after.                                         *)
FeesPayable ==
    \A e \in EventKey :
        (event[e] # None /\ event[e].status \in {"Published", "Closed"})
           => event[e].platform_fee_bps + event[e].details.organizer_royalty_bps
                 <= BpsDenominator

SharesExact(price, fee_bps, royalty_bps) ==
    LET split == ResaleSplit(price, fee_bps, royalty_bps) IN
    /\ split.platform + split.organizer + split.seller = price
    /\ split.platform * BpsDenominator <= price * fee_bps
    /\ price * fee_bps < (split.platform + 1) * BpsDenominator
    /\ split.organizer * BpsDenominator <= price * royalty_bps
    /\ price * royalty_bps < (split.organizer + 1) * BpsDenominator

(* The terms an event was published with settle every price up to          *)
(* MaxU64 \div BpsDenominator: no first sale or resale fails in the         *)
(* checked arithmetic, and its shares add up to the price, fee and royalty *)
(* each rounded down by less than a lamport.  Above that range the product *)
(* may overflow, and a sale of a price accepted earlier is refused.        *)
SettlementRange ==
    \A e \in EventKey :
        (event[e] # None /\ event[e].status \in {"Published", "Closed"}) =>
            LET fee_bps     == event[e].platform_fee_bps
                royalty_bps == event[e].details.organizer_royalty_bps
            IN
            \A price \in 0 .. MaxU64 \div BpsDenominator :
                /\ PrimarySplitOk(price, fee_bps)
                /\ ResaleSplitOk(price, fee_bps, royalty_bps)
                /\ SharesExact(price, fee_bps, royalty_bps)

TicketIsolated(t) ==
    ticket[t] # None =>
        /\ ticket[t].event = t[1]
        /\ ticket[t].tier[1] = t[1]
        /\ ticket[t].used_by # None => staff[<<t[1], ticket[t].used_by>>] # "None"

(* Events do not reach into each other: a ticket that was used was used by *)
(* somebody its own event authorised, and every tier, ticket, listing and  *)
(* intent names the event, the tier or the ticket its address derives from. *)
EventsIsolated ==
    /\ \A tr \in TierKey : tier[tr] # None => tier[tr].event = tr[1]
    /\ \A t \in TicketKey : TicketIsolated(t)
    /\ \A l \in ListingKey :
          listing[l] # None => listing[l].ticket = l[1] /\ listing[l].event = l[1][1]
    /\ \A i \in IntentKey :
          intent[i] # None => intent[i].ticket = i[1] /\ intent[i].event = i[1][1]

---------------------------------------------------------------------------
(* Action properties *)

(* Once published, what buyers agreed to never changes: windows, cap,      *)
(* royalty, fee, treasury, and the price and supply of every tier.         *)
TermsFrozen ==
    [][/\ \A e \in EventKey :
             (event[e] # None /\ event[e].status # "Draft") =>
                /\ event'[e].details = event[e].details
                /\ event'[e].platform_fee_bps = event[e].platform_fee_bps
                /\ event'[e].platform_treasury = event[e].platform_treasury
                /\ event'[e].status # "Draft"
       /\ \A tr \in TierKey :
             LET e == tr[1] IN
             (event[e] # None /\ event[e].status # "Draft") =>
                IF tier[tr] = None THEN tier'[tr] = None
                ELSE tier'[tr] = [tier[tr] EXCEPT !.sold = tier'[tr].sold]
      ]_vars

(* Nothing touches a used ticket again, neither its record nor its asset:  *)
(* it is not transferred, listed, presented or reused.                     *)
UsedIsFinal ==
    [][\A t \in TicketKey :
          (ticket[t] # None /\ ticket[t].status = "Used") =>
             ticket'[t] = ticket[t] /\ asset'[t] = asset[t]]_vars

(* A ticket changes hands only while its event is published, before its    *)
(* check-in opens, with no intent pending, and never twice in one step.    *)
TransfersOnlyWhileOpen ==
    [][\A t \in TicketKey :
          (ticket[t] # None /\ ticket'[t].owner # ticket[t].owner) =>
             /\ event[ticket[t].event].status = "Published"
             /\ now < event[ticket[t].event].details.check_in_start_at
             /\ \A i \in IntentKey : Pending(i) => intent[i].ticket # t
             /\ \A l \in ListingKey : OpenOffer(l)' => listing'[l].ticket # t
             /\ ticket'[t].transfer_count = ticket[t].transfer_count + 1]_vars

(* A sale of a ticket: it is issued, or the owner of an offered one changes. *)
Sold(t) ==
    /\ ticket'[t] # None
    /\ ticket[t] # None =>
          ticket[t].status = "Listed" /\ ticket'[t].owner # ticket[t].owner

SoldListing(t) == listing[<<t, ticket[t].next_listing_id - 1>>]

SalePrice(t) ==
    IF ticket[t] = None THEN ticket'[t].original_price_lamports
    ELSE SoldListing(t).price_lamports

FeeDue(t) ==
    FeeAmount(SalePrice(t), event[ticket'[t].event].platform_fee_bps)

(* A first sale leaves the organizer what the fee does not take, a resale  *)
(* the royalty; the seller of a resale keeps the rest.                     *)
OrganizerDue(t) ==
    IF ticket[t] = None THEN SalePrice(t) - FeeDue(t)
    ELSE FeeAmount(SalePrice(t), event[ticket'[t].event].details.organizer_royalty_bps)

SellerDue(t) == SalePrice(t) - FeeDue(t) - OrganizerDue(t)

If(due, amount) == IF due THEN amount ELSE 0

GainDue(t, w) ==
    LET e == event[ticket'[t].event] IN
    If(w = e.platform_treasury, FeeDue(t)) + If(w = e.organizer, OrganizerDue(t))
      + If(ticket[t] # None /\ w = ticket[t].owner, SellerDue(t))
      - If(w = ticket'[t].owner, SalePrice(t))

PaidOnlyForTickets ==
    balance' # balance => \E t \in TicketKey : ticket[t] # ticket'[t] /\ Sold(t)

SaleSettled(t) ==
    (ticket[t] # ticket'[t] /\ Sold(t)) =>
        \A w \in Wallet : balance'[w] - balance[w] = GainDue(t, w)

(* Money moves only when a ticket is sold.  Then every wallet gains what   *)
(* the terms of the event give it, as treasury, organizer, seller or all   *)
(* of them, less the price if it is the buyer; any other wallet nothing.   *)
MoneyFollowsTickets ==
    [][PaidOnlyForTickets /\ \A t \in TicketKey : SaleSettled(t)]_vars

---------------------------------------------------------------------------
(* The abstract specification the program implements *)

PhaseOf(t) ==
    CASE ticket[t] = None -> "unissued"
      [] ticket[t] # None /\ ticket[t].status = "Used" -> "used"
      [] ticket[t] # None /\ ticket[t].status = "Listed" -> "offered"
      [] ticket[t] # None /\ ticket[t].status = "Active" ->
            IF ticket[t].active_intent = None THEN "held" ELSE "presented"

HolderOf(t) == IF ticket[t] = None THEN None ELSE ticket[t].owner

Registry == INSTANCE TicketRegistry WITH
    Tickets <- TicketKey, Holders <- Wallet, Nobody <- None,
    phase <- [t \in TicketKey |-> PhaseOf(t)],
    holder <- [t \in TicketKey |-> HolderOf(t)]

(* Every instruction of the program is one step of the registry on one     *)
(* ticket, or changes nothing a holder can see.                            *)
ImplementsRegistry == Registry!RegistrySpec

---------------------------------------------------------------------------
(* Liveness, under Fairness *)

(* An abandoned presentation never blocks its ticket for ever: not if the  *)
(* platform is paused, not if the window or the event closes meanwhile.    *)
ExpiredIntentReleased ==
    \A i \in IntentKey :
        (Pending(i) /\ now >= intent[i].expires_at) ~> ~Pending(i)

(* A published event ends closed or cancelled, even on a platform that is  *)
(* paused and never resumed.                                               *)
PublishedEventEnds ==
    \A e \in EventKey :
        (event[e] # None /\ event[e].status = "Published")
           ~> (event[e] # None /\ event[e].status \in {"Closed", "Cancelled"})

---------------------------------------------------------------------------
(* A statement of the documentation about the delegate of a Core asset     *)

(* A Core asset carries a TransferDelegate only while its ticket is        *)
(* listed: cancelling a listing removes it.                                *)
DelegateOnlyWhileListed ==
    \A t \in TicketKey :
        (ticket[t] # None /\ asset[t].delegated) => ticket[t].status = "Listed"
===========================
