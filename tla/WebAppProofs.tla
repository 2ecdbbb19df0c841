---- MODULE WebAppProofs ----
(***************************************************************************)
(* The pages over the program, for any number of tabs, wallets, tickets    *)
(* and transactions, and catalogues however old and torn: what a buyer is  *)
(* charged, what becomes of a request that is made twice, what the pages   *)
(* keep of the program's promises, and whether notices and passes are true.*)
(***************************************************************************)
EXTENDS WebApp, LifecycleProofs, SequenceTheorems

---------------------------------------------------------------------------
(* Types: what the four lists answer, and what a page asks the wallet for *)

SnapshotRecord ==
    [event : [EventKey -> EventRecord \cup {None}],
     tier : [TierKey -> TierRecord \cup {None}],
     ticket : [TicketKey -> TicketRecord \cup {None}],
     listing : [ListingKey -> ListingRecord \cup {None}]]

PublishRequest == [kind : {"publishEvent"}, signer : Wallet, event : EventKey]
AddTierRequest ==
    [kind : {"addTier"}, signer : Wallet, event : EventKey, tier : EventKey \X Nat,
     price : PriceInputs]
AuthorizeRequest ==
    [kind : {"authorizeStaff"}, signer : Wallet, event : EventKey, staff : Staff]
PurchaseRequest ==
    [kind : {"primaryPurchaseCore"}, signer : Holder, event : EventKey, tier : TierKey,
     ticket : EventKey \X Nat]
ResaleRequest ==
    [kind : {"buyResaleCore"}, signer : Holder, event : EventKey, ticket : TicketKey,
     listing : ListingKey]
GiftRequest ==
    [kind : {"giftTicketCore"}, signer : Wallet, event : EventKey, ticket : TicketKey,
     recipient : Holder]
ListRequest ==
    [kind : {"listTicketCore"}, signer : Wallet, event : EventKey, ticket : TicketKey,
     price : ResalePriceInputs, listing : TicketKey \X Nat, expires_at : Nat]
CancelRequest ==
    [kind : {"cancelListingCore"}, signer : Wallet, ticket : TicketKey,
     listing : ListingKey]
PresentRequest ==
    [kind : {"presentCheckInCore"}, signer : Wallet, event : EventKey,
     ticket : TicketKey, intent : TicketKey \X Nat, expires_at : Nat]

Operation ==
    PublishRequest \cup AddTierRequest \cup AuthorizeRequest \cup PurchaseRequest
        \cup ResaleRequest \cup GiftRequest \cup ListRequest \cup CancelRequest
        \cup PresentRequest

View == [event : Nat, tier : Nat, ticket : Nat, listing : Nat]

Transaction ==
    [op : Operation, view : View, status : {"flight", "succeeded", "lost"},
     at : Nat \cup {None}]

PagesTypeOK ==
    /\ TypeOK
    /\ ledger \in Seq(SnapshotRecord) /\ Len(ledger) > 0
    /\ sent \in Seq(Transaction)

---------------------------------------------------------------------------
(* The inductive invariant *)

(* What the inputs of the program's own specification leave open: here     *)
(* tickets are held by holders and events keep the terms of the form.      *)
HoldersOwn == \A t \in TicketKey : ticket[t] # None => ticket[t].owner \in Holder
FormEvents == \A e \in EventKey : event[e] # None /\ event[e].details = Details

ChainOK == EventsIsolated /\ HoldersOwn /\ FormEvents

(* A page read its view before it made its request, and took from it the   *)
(* address of the account the transaction is to open; what it asks of a    *)
(* ticket, it asks of one it has seen.                                     *)
OfTicket ==
    {"buyResaleCore", "giftTicketCore", "listTicketCore", "cancelListingCore",
     "presentCheckInCore"}

Made(op, view) ==
    /\ {view.event, view.tier, view.ticket, view.listing} \subseteq 1 .. Latest
    /\ op.kind = "addTier" =>
          op.tier = <<op.event, SeenEvent(view, op.event).next_tier_id>>
    /\ op.kind = "primaryPurchaseCore" =>
          /\ op.ticket = <<op.event, SeenEvent(view, op.event).next_ticket_id>>
          /\ op.event = op.tier[1]
          /\ SeenTier(view, op.tier) # None
    /\ op.kind = "listTicketCore" =>
          op.listing = <<op.ticket, SeenTicket(view, op.ticket).next_listing_id>>
    /\ op.kind = "presentCheckInCore" =>
          /\ op.intent = <<op.ticket, SeenTicket(view, op.ticket).next_intent_nonce>>
          /\ op.signer = SeenTicket(view, op.ticket).owner
    /\ op.kind \in OfTicket => SeenTicket(view, op.ticket) # None
    /\ op.kind = "cancelListingCore" => SeenTicket(view, op.ticket).status = "Listed"

RequestsMade == \A s \in 1 .. Len(sent) : Made(sent[s].op, sent[s].view)

(* The account a transaction opens or closes for good.  A gift and an      *)
(* authorisation have none.                                                *)
Claims ==
    {"publishEvent", "addTier", "primaryPurchaseCore", "buyResaleCore",
     "listTicketCore", "cancelListingCore", "presentCheckInCore"}

Address(op) ==
    CASE op.kind = "publishEvent" -> op.event
      [] op.kind = "addTier" -> op.tier
      [] op.kind = "primaryPurchaseCore" -> op.ticket
      [] op.kind \in {"buyResaleCore", "listTicketCore", "cancelListingCore"} -> op.listing
      [] op.kind = "presentCheckInCore" -> op.intent

ClosedOffer(l) == listing[l] # None /\ listing[l].status # "Active"

Taken(kind, a) ==
    \/ kind = "publishEvent" /\ a \in EventKey /\ event[a].status # "Draft"
    \/ kind = "addTier" /\ a \in TierKey /\ tier[a] # None
    \/ kind = "primaryPurchaseCore" /\ a \in TicketKey /\ ticket[a] # None
    \/ kind = "listTicketCore" /\ a \in ListingKey /\ listing[a] # None
    \/ /\ kind \in {"buyResaleCore", "cancelListingCore"}
       /\ a \in ListingKey /\ ClosedOffer(a)
    \/ kind = "presentCheckInCore" /\ a \in IntentKey /\ intent[a] # None

Claimed(s) == Succeeded(s) /\ sent[s].op.kind \in Claims

ServedOnce ==
    /\ \A s \in 1 .. Len(sent) :
          Claimed(s) => Taken(sent[s].op.kind, Address(sent[s].op))
    /\ \A s, r \in 1 .. Len(sent) :
          (/\ Claimed(s) /\ Claimed(r)
           /\ sent[s].op.kind = sent[r].op.kind
           /\ Address(sent[s].op) = Address(sent[r].op)) => s = r

(* What a page saw of a published event is still so. *)
SamePrice(seen, r) ==
    IF seen = None THEN r = None
    ELSE r # None /\ r.price_lamports = seen.price_lamports

TermsSince(p) ==
    \A e \in EventKey : ledger[p].event[e].status # "Draft" =>
        /\ event[e].status # "Draft"
        /\ \A tr \in TierKey : tr[1] = e => SamePrice(ledger[p].tier[tr], tier[tr])

TermsKnown == \A p \in 1 .. Latest : TermsSince(p)

(* A transaction that succeeded was recorded in the ledger. *)
Dated == \A s \in 1 .. Len(sent) : Succeeded(s) => sent[s].at \in 1 .. Latest

IInv ==
    /\ PagesTypeOK /\ ChainOK
    /\ RequestsMade /\ Dated /\ ServedOnce
    /\ TermsKnown /\ PaysShownPrice

---------------------------------------------------------------------------
(* What the pages send is a step of the program *)

(* The kind of a request says which of the nine forms it has. *)
LEMMA Kinds ==
    ASSUME NEW op \in Operation
    PROVE  /\ op.kind = "publishEvent" => op \in PublishRequest
           /\ op.kind = "addTier" => op \in AddTierRequest
           /\ op.kind = "authorizeStaff" => op \in AuthorizeRequest
           /\ op.kind = "primaryPurchaseCore" => op \in PurchaseRequest
           /\ op.kind = "buyResaleCore" => op \in ResaleRequest
           /\ op.kind = "giftTicketCore" => op \in GiftRequest
           /\ op.kind = "listTicketCore" => op \in ListRequest
           /\ op.kind = "cancelListingCore" => op \in CancelRequest
           /\ op.kind = "presentCheckInCore" => op \in PresentRequest
           /\ op.kind \in Claims \cup {"giftTicketCore", "authorizeStaff"}
BY DEF Operation, PublishRequest, AddTierRequest, AuthorizeRequest, PurchaseRequest,
       ResaleRequest, GiftRequest, ListRequest, CancelRequest, PresentRequest, Claims

(* A step that leaves the terms of the events and the owners alone. *)
LEMMA SameOwners ==
    ASSUME HoldersOwn, FormEvents,
           \A e \in EventKey : event'[e] # None /\ event'[e].details = event[e].details,
           \A t \in TicketKey : ticket'[t] # None =>
              \/ ticket'[t].owner \in Holder
              \/ ticket[t] # None /\ ticket'[t].owner = ticket[t].owner
    PROVE  HoldersOwn' /\ FormEvents'
BY DEF HoldersOwn, FormEvents

(* A request of a page is an instruction of Next with arguments of its   *)
(* own: for publishing, and in the lemmas below for each other kind. The *)
(* holders stay the pages' own and the events those of the form.         *)
LEMMA PublishDrives ==
    ASSUME TypeOK, HoldersOwn, FormEvents, NEW op \in PublishRequest,
           PublishEvent(op.signer, op.event)
    PROVE  Next /\ HoldersOwn' /\ FormEvents'
<1>1. op.signer \in Wallet /\ op.event \in EventKey
    BY DEF PublishRequest
<1>2. EventStep
    BY <1>1 DEF EventStep
<1>3. UNCHANGED ticket
    BY <1>2, SetupEffect
<1>4. \A e \in EventKey : event'[e] # None /\ event'[e].details = event[e].details
    <2>1. TypeOK'
        BY <1>2, TypeStep DEF Next
    <2>2. event[op.event] \in EventRecord
        BY <1>1 DEF PublishEvent, PublishGuard, ManageEventAccounts, TypeOK, StateTypeOK
    <2>3. ASSUME NEW e \in EventKey
          PROVE  event'[e] # None /\ event'[e].details = event[e].details
        <3>1. EventKept(e) /\ event[e] # None
            BY <1>2, <2>3, EventStepKeepsEvents DEF FormEvents
        <3>2. event'[e].details = event[e].details
            BY <1>1, <2>2, <2>3 DEF PublishEvent, PublishEffect, TypeOK, StateTypeOK,
               EventRecord
        <3> QED BY <3>1, <3>2, NoneAssumption DEF EventKept
    <2> QED BY <2>3
<1> QED BY <1>2, <1>3, <1>4, SameOwners DEF Next, HoldersOwn

(* The same of adding a tier. *)
LEMMA AddTierDrives ==
    ASSUME TypeOK, HoldersOwn, FormEvents, NEW op \in AddTierRequest,
           AddTier(op.signer, op.event, op.tier[2], op.price, Supply)
    PROVE  Next /\ HoldersOwn' /\ FormEvents'
<1>1. /\ op.signer \in Wallet /\ op.event \in EventKey /\ op.price \in PriceInputs
      /\ op.tier[2] \in Nat /\ Supply \in SupplyInputs
    BY WebAssumption DEF AddTierRequest
<1>2. op.tier[2] \in 0 .. MaxTierId - 1
    BY <1>1, WidthsNat DEF AddTier, AddTierGuard
<1>3. TierStep
    BY <1>1, <1>2 DEF TierStep
<1>4. UNCHANGED ticket
    BY <1>3, SetupEffect
<1>5. ASSUME NEW e \in EventKey
      PROVE  event'[e] # None /\ event'[e].details = event[e].details
    <2>1. EventKept(e) /\ event[e] # None
        BY <1>3, <1>5, TierStepKeeps DEF FormEvents
    <2>2. event'[e].details = event[e].details
        BY <1>1, <1>5, <2>1 DEF AddTier, TypeOK, StateTypeOK, EventRecord
    <2> QED BY <2>1, <2>2, NoneAssumption DEF EventKept
<1> QED BY <1>3, <1>4, <1>5, SameOwners DEF Next, HoldersOwn

(* The same of authorising staff. *)
LEMMA AuthorizeDrives ==
    ASSUME TypeOK, HoldersOwn, FormEvents, NEW op \in AuthorizeRequest,
           AuthorizeStaff(op.signer, op.event, op.staff)
    PROVE  Next /\ HoldersOwn' /\ FormEvents'
<1>1. StaffStep
    BY DEF StaffStep, AuthorizeRequest
<1>2. UNCHANGED ticket
    BY <1>1, SetupEffect
<1>3. UNCHANGED event
    BY DEF AuthorizeStaff
<1> QED BY <1>1, <1>2, <1>3 DEF Next, HoldersOwn, FormEvents

(* The same of a purchase. *)
LEMMA PurchaseDrives ==
    ASSUME TypeOK, HoldersOwn, FormEvents, NEW op \in PurchaseRequest,
           PrimaryPurchaseCore(op.signer, op.event, op.tier, op.ticket[2])
    PROVE  Next /\ HoldersOwn' /\ FormEvents'
<1>1. /\ op.signer \in Holder /\ op.event \in EventKey /\ op.tier \in TierKey
      /\ op.ticket[2] \in Nat
    BY DEF PurchaseRequest
<1>2. op.ticket[2] \in 0 .. MaxTicketId - 1
    BY <1>1, WidthsNat DEF PrimaryPurchaseCore, SellTicket, SaleGuard
<1>3. PurchaseStep
    BY <1>1, <1>2 DEF PurchaseStep
<1>4. PICK e \in EventKey, tr \in TierKey, id \in 0 .. MaxTicketId - 1 : Issues(e, tr, id)
    BY <1>3, PurchaseEffect
<1>5. ASSUME NEW k \in EventKey
      PROVE  event'[k] # None /\ event'[k].details = event[k].details
    <2>1. CASE k = e
        <3>1. event'[k] = [event[k] EXCEPT !.next_ticket_id = id + 1]
            BY <1>4, <2>1 DEF Issues, TypeOK, StateTypeOK
        <3>2. event[k] \in EventRecord /\ id + 1 \in 0 .. MaxTicketId
            BY <1>4, <2>1, WidthsNat DEF Issues
        <3> QED BY <3>1, <3>2, NoneAssumption DEF EventRecord
    <2>2. CASE k # e
        BY <1>4, <2>2 DEF Issues, FormEvents, TypeOK, StateTypeOK
    <2> QED BY <2>1, <2>2
<1>6. ASSUME NEW t \in TicketKey, ticket'[t] # None
      PROVE  \/ ticket'[t].owner \in Holder
             \/ ticket[t] # None /\ ticket'[t].owner = ticket[t].owner
    BY <1>1, <1>2, <1>6 DEF PrimaryPurchaseCore, SellTicket, IssuedTicket, TicketKey,
       TypeOK, StateTypeOK
<1> QED BY <1>3, <1>5, <1>6, SameOwners DEF Next

(* The same of a gift: it names no counter. *)
LEMMA GiftDrives ==
    ASSUME TypeOK, HoldersOwn, FormEvents, NEW op \in GiftRequest,
           GiftTicketCore(op.signer, op.recipient, op.event, op.ticket)
    PROVE  Next /\ HoldersOwn' /\ FormEvents'
<1>1. op.recipient \in Holder /\ op.event \in EventKey /\ op.ticket \in TicketKey
    BY DEF GiftRequest
<1>2. op.signer \in Holder
    BY <1>1 DEF GiftTicketCore, GiftGuard, TicketOfEvent, HoldersOwn
<1>3. GiftStep
    BY <1>1, <1>2 DEF GiftStep
<1>4. UNCHANGED event
    BY <1>3, CirculationKeeps
<1>5. ASSUME NEW t \in TicketKey, ticket'[t] # None
      PROVE  \/ ticket'[t].owner \in Holder
             \/ ticket[t] # None /\ ticket'[t].owner = ticket[t].owner
    BY <1>1, <1>5 DEF GiftTicketCore, GiftGuard, TicketOfEvent, TransferTicketOwner,
       TicketRecord, TypeOK, StateTypeOK
<1> QED BY <1>3, <1>4, <1>5, SameOwners DEF Next, FormEvents

(* The same of a listing. *)
LEMMA ListDrives ==
    ASSUME TypeOK, HoldersOwn, FormEvents, NEW op \in ListRequest,
           ListTicketCore(op.signer, op.event, op.ticket, op.listing[2], op.price,
                          op.expires_at)
    PROVE  Next /\ HoldersOwn' /\ FormEvents'
<1>1. /\ op.event \in EventKey /\ op.ticket \in TicketKey
      /\ op.price \in ResalePriceInputs /\ op.listing[2] \in Nat /\ op.expires_at \in Nat
    BY DEF ListRequest
<1>2. OpenListing(op.signer, op.event, op.ticket, op.listing[2], op.price, op.expires_at)
    BY DEF ListTicketCore
<1>3. op.signer \in Holder
    BY <1>1, <1>2 DEF OpenListing, ListingGuard, TicketOfEvent, HoldersOwn
<1>4. op.listing[2] \in 0 .. MaxListingId - 1
    BY <1>1, <1>2, WidthsNat DEF OpenListing, ListingGuard
<1>5. op.expires_at \in 0 .. MaxTime
    <2>1. op.expires_at <= Details.check_in_start_at
        BY <1>1, <1>2 DEF OpenListing, ListingGuard, FormEvents
    <2> QED BY <1>1, <2>1, WebAssumption, StateAssumption
<1>6. ListStep
    BY <1>1, <1>3, <1>4, <1>5 DEF ListStep
<1>7. UNCHANGED event
    BY <1>6, CirculationKeeps
<1>8. ASSUME NEW t \in TicketKey, ticket'[t] # None
      PROVE  ticket[t] # None /\ ticket'[t].owner = ticket[t].owner
    BY <1>1, <1>2, <1>8 DEF OpenListing, ListingGuard, TicketOfEvent, ListedTicket,
       TicketRecord, TypeOK, StateTypeOK
<1> QED BY <1>6, <1>7, <1>8, SameOwners DEF Next, FormEvents

(* The same of a listing withdrawn. *)
LEMMA CancelDrives ==
    ASSUME TypeOK, HoldersOwn, FormEvents, NEW op \in CancelRequest,
           CancelListingCore(op.signer, op.ticket, op.listing)
    PROVE  Next /\ HoldersOwn' /\ FormEvents'
<1>1. op.ticket \in TicketKey /\ op.listing \in ListingKey
    BY DEF CancelRequest
<1>2. WithdrawListing(op.signer, op.ticket, op.listing)
    BY DEF CancelListingCore
<1>3. op.signer \in Holder
    BY <1>1, <1>2 DEF WithdrawListing, WithdrawGuard, CancelListingAccounts, HoldersOwn
<1>4. CancelListingStep
    BY <1>1, <1>3 DEF CancelListingStep
<1>5. UNCHANGED event
    BY <1>4, CirculationKeeps
<1>6. ASSUME NEW t \in TicketKey, ticket'[t] # None
      PROVE  ticket[t] # None /\ ticket'[t].owner = ticket[t].owner
    BY <1>1, <1>2, <1>6 DEF WithdrawListing, WithdrawGuard, CancelListingAccounts,
       UnlistedTicket, TicketRecord, TypeOK, StateTypeOK
<1> QED BY <1>4, <1>5, <1>6, SameOwners DEF Next, FormEvents

(* The same of a resale. *)
LEMMA ResaleDrives ==
    ASSUME TypeOK, HoldersOwn, FormEvents, NEW op \in ResaleRequest,
           BuyResaleCore(op.signer, op.event, op.ticket, op.listing)
    PROVE  Next /\ HoldersOwn' /\ FormEvents'
<1>1. /\ op.signer \in Holder /\ op.event \in EventKey /\ op.ticket \in TicketKey
      /\ op.listing \in ListingKey
    BY DEF ResaleRequest
<1>2. ResaleStep
    BY <1>1 DEF ResaleStep
<1>3. UNCHANGED event
    BY <1>2, CirculationKeeps
<1>4. ASSUME NEW t \in TicketKey, ticket'[t] # None
      PROVE  \/ ticket'[t].owner \in Holder
             \/ ticket[t] # None /\ ticket'[t].owner = ticket[t].owner
    BY <1>1, <1>4 DEF BuyResaleCore, ResaleGuard, BuyResaleAccounts, TicketOfEvent,
       FillListing, UnlistedTicket, TransferTicketOwner, TicketRecord, TypeOK, StateTypeOK
<1> QED BY <1>2, <1>3, <1>4, SameOwners DEF Next, FormEvents

(* The same of a presentation. *)
LEMMA PresentDrives ==
    ASSUME TypeOK, HoldersOwn, FormEvents, NEW op \in PresentRequest,
           PresentCheckInCore(op.signer, op.event, op.ticket, op.intent[2], op.expires_at)
    PROVE  Next /\ HoldersOwn' /\ FormEvents'
<1>1. /\ op.event \in EventKey /\ op.ticket \in TicketKey
      /\ op.intent[2] \in Nat /\ op.expires_at \in Nat
    BY DEF PresentRequest
<1>2. OpenIntent(op.signer, op.event, op.ticket, op.intent[2], op.expires_at)
    BY DEF PresentCheckInCore
<1>3. op.signer \in Holder
    BY <1>1, <1>2 DEF OpenIntent, PresentGuard, TicketOfEvent, HoldersOwn
<1>4. op.intent[2] \in 0 .. MaxNonce - 1
    BY <1>1, <1>2, WidthsNat DEF OpenIntent, PresentGuard
<1>5. op.expires_at \in 0 .. MaxTime
    <2>1. op.expires_at <= Details.check_in_end_at
        BY <1>1, <1>2 DEF OpenIntent, PresentGuard, FormEvents, ValidIntentExpiry
    <2> QED BY <1>1, <2>1, WebAssumption, StateAssumption
<1>6. PresentStep
    BY <1>1, <1>3, <1>4, <1>5 DEF PresentStep
<1>7. UNCHANGED event
    BY <1>6, CirculationKeeps
<1>8. ASSUME NEW t \in TicketKey, ticket'[t] # None
      PROVE  ticket[t] # None /\ ticket'[t].owner = ticket[t].owner
    BY <1>1, <1>2, <1>8 DEF OpenIntent, PresentGuard, TicketOfEvent, PresentedTicket,
       TicketRecord, TypeOK, StateTypeOK
<1> QED BY <1>6, <1>7, <1>8, SameOwners DEF Next, FormEvents

(* Whatever a page asks for, its execution is a step of the program. *)
LEMMA ApplyDrives ==
    ASSUME TypeOK, HoldersOwn, FormEvents, NEW op \in Operation, Apply(op)
    PROVE  Next /\ HoldersOwn' /\ FormEvents'
BY Kinds, PublishDrives, AddTierDrives, AuthorizeDrives, PurchaseDrives, ResaleDrives,
   GiftDrives, ListDrives, CancelDrives, PresentDrives DEF Apply

(* So is a transaction of any other client. *)
LEMMA ElsewhereDrives ==
    ASSUME TypeOK, HoldersOwn, FormEvents, Elsewhere
    PROVE  Next /\ HoldersOwn' /\ FormEvents'
<1>1. ASSUME NEW signer \in Organizer, NEW tr \in TierKey, NEW price \in PriceInputs,
             UpdateTier(signer, tr[1], tr, price, Supply, TRUE)
      PROVE  Next /\ HoldersOwn' /\ FormEvents'
    <2>1. signer \in Wallet /\ tr[1] \in EventKey /\ Supply \in SupplyInputs
        BY StateAssumption, WebAssumption DEF TierKey
    <2>2. TierStep
        BY <1>1, <2>1 DEF TierStep
    <2>3. UNCHANGED <<ticket, event>>
        BY <1>1, <2>2, SetupEffect DEF UpdateTier
    <2> QED BY <2>2, <2>3 DEF Next, HoldersOwn, FormEvents
<1> DEFINE Rewrites(t) ==
              /\ ticket[t] \in TicketRecord /\ ticket'[t].owner = ticket[t].owner
              /\ OnlyTicket(t) /\ UNCHANGED event
<1>2. ASSUME NEW t \in TicketKey, Rewrites(t)
      PROVE  HoldersOwn' /\ FormEvents'
    BY <1>2, NoneAssumption, SameOwners DEF OnlyTicket, FormEvents
<1>3. ASSUME NEW signer \in Staff, NEW i \in IntentKey,
             ConsumeCheckInCore(signer, i[1][1], i[1], i)
      PROVE  Next /\ HoldersOwn' /\ FormEvents'
    <2>1. ConsumeStep
        BY <1>3 DEF ConsumeStep, IntentKey, TicketKey
    <2>2. PICK s \in Wallet, t \in TicketKey, j \in IntentKey : Admits(s, t, j)
        BY <2>1, ConsumeEffect
    <2>3. Rewrites(t)
        BY <2>2 DEF Admits, AdmittedTicket, TicketRecord
    <2> QED BY <1>2, <2>1, <2>3 DEF Next
<1>4. ASSUME NEW i \in IntentKey, ExpireCheckIn(i[1], i)
      PROVE  Next /\ HoldersOwn' /\ FormEvents'
    <2>1. CloseIntentStep
        BY <1>4 DEF CloseIntentStep, IntentKey
    <2>2. PICK t \in TicketKey, j \in IntentKey, status \in {"Cancelled", "Expired"} :
            Retracts(t, j, status)
        BY <2>1, CloseIntentEffect
    <2>3. Rewrites(t)
        BY <2>2 DEF Retracts, RetractedTicket, TicketRecord
    <2> QED BY <1>2, <2>1, <2>3 DEF Next
<1> QED BY <1>1, <1>3, <1>4 DEF Elsewhere

(* A page never does more to the accounts than the program allows.         *)
LEMMA PageStepDrives ==
    ASSUME TypeOK, HoldersOwn, FormEvents,
           \/ \E op \in Operation : Apply(op)
           \/ Elsewhere \/ Tick \/ UNCHANGED vars
    PROVE  [Next]_vars /\ HoldersOwn' /\ FormEvents'
<1>1. CASE \E op \in Operation : Apply(op)
    BY <1>1, ApplyDrives
<1>2. CASE Elsewhere
    BY <1>2, ElsewhereDrives
<1>3. CASE Tick
    BY <1>3 DEF Tick, Next, HoldersOwn, FormEvents, setupVars, circulationVars
<1>4. CASE UNCHANGED vars
    BY <1>4 DEF vars, HoldersOwn, FormEvents
<1> QED BY <1>1, <1>2, <1>3, <1>4

---------------------------------------------------------------------------
(* An address, once taken, stays taken *)

(* No account a request may be the first to write is ever erased: a *)
(* tier, ...                                                        *)
LEMMA TiersStay ==
    ASSUME TypeOK, [Next]_vars, NEW tr \in TierKey, tier[tr] # None
    PROVE  tier'[tr] # None
<1>1. CASE SetupStep
    BY <1>1, SetupKeeps DEF SetupStep, TierKept
<1>2. CASE PurchaseStep
    <2>1. PICK e \in EventKey, k \in TierKey, id \in 0 .. MaxTicketId - 1 : Issues(e, k, id)
        BY <1>2, PurchaseEffect
    <2>2. CASE tr = k
        <3>1. tier'[tr] = [tier[tr] EXCEPT !.sold = @ + 1] /\ tier[tr] \in TierRecord
            BY <2>1, <2>2 DEF Issues, TypeOK, StateTypeOK
        <3> QED BY <3>1, NoneAssumption DEF TierRecord
    <2>3. CASE tr # k
        BY <2>1, <2>3 DEF Issues, TypeOK, StateTypeOK
    <2> QED BY <2>2, <2>3
<1>3. CASE Circulation
    BY <1>3, CirculationKeepsSetup
<1> QED BY <1>1, <1>2, <1>3, NextCases

(* ... a ticket, ... *)
LEMMA TicketsStay ==
    ASSUME TypeOK, [Next]_vars, NEW t \in TicketKey, ticket[t] # None
    PROVE  ticket'[t] # None
<1>1. CASE SetupStep
    BY <1>1, SetupEffect DEF SetupStep
<1>2. CASE PurchaseStep
    <2>1. PICK e \in EventKey, k \in TierKey, id \in 0 .. MaxTicketId - 1 : Issues(e, k, id)
        BY <1>2, PurchaseEffect
    <2> QED BY <2>1 DEF Issues, OnlyTicket
<1>3. CASE Circulation
    BY <1>3, CirculationKeeps DEF Circulation
<1> QED BY <1>1, <1>2, <1>3, NextCases

(* A listing is opened once and closed for good, an intent is opened once. *)
LEMMA OfferRewritten ==
    ASSUME TypeOK, [Next]_vars, NEW k \in ListingKey, listing[k] # None
    PROVE  \/ listing'[k] = listing[k]
           \/ listing'[k] \in ListingRecord /\ listing'[k].status # "Active"
<1>1. CASE SetupStep
    BY <1>1, SetupEffect DEF SetupStep
<1>2. CASE PurchaseStep
    <2>1. PICK e \in EventKey, tr \in TierKey, id \in 0 .. MaxTicketId - 1 :
            Issues(e, tr, id)
        BY <1>2, PurchaseEffect
    <2> QED BY <2>1 DEF Issues
<1>3. CASE GiftStep \/ PresentStep \/ CloseIntentStep \/ ConsumeStep
    <2>1. GiftStep => UNCHANGED listing
        BY DEF GiftStep, GiftTicket, GiftTicketCore
    <2>2. PresentStep => UNCHANGED listing
        BY DEF PresentStep, PresentCheckIn, PresentCheckInCore, OpenIntent
    <2>3. CloseIntentStep => UNCHANGED listing
        BY DEF CloseIntentStep, CancelCheckIn, ExpireCheckIn, CloseIntent
    <2>4. ConsumeStep => UNCHANGED listing
        BY DEF ConsumeStep, ConsumeCheckIn, ConsumeCheckInCore, UseTicket
    <2> QED BY <1>3, <2>1, <2>2, <2>3, <2>4
<1>4. CASE ListStep
    <2>1. PICK t \in TicketKey, id \in 0 .. MaxListingId - 1 : Offers(t, id)
        BY <1>4, ListEffect
    <2> QED BY <2>1 DEF Offers, OnlyListing
<1>5. CASE CancelListingStep
    <2>1. PICK t \in TicketKey, l \in ListingKey : Withdraws(t, l)
        BY <1>5, CancelListingEffect
    <2> QED BY <2>1 DEF Withdraws, OnlyListing, ListingRecord
<1>6. CASE ResaleStep
    <2>1. PICK t \in TicketKey, l \in ListingKey, buyer \in Wallet : Resells(t, l, buyer)
        BY <1>6, ResaleEffect
    <2>2. /\ listing[l] \in ListingRecord /\ OnlyListing(l)
          /\ listing'[l] = [listing[l] EXCEPT !.status = "Filled", !.buyer = buyer]
        BY <2>1 DEF Resells
    <2>3. listing'[l] \in ListingRecord /\ listing'[l].status = "Filled"
        BY <2>2 DEF ListingRecord
    <2> QED BY <2>2, <2>3 DEF OnlyListing
<1> QED BY <1>1, <1>2, <1>3, <1>4, <1>5, <1>6, NextCases DEF Circulation

(* ... a listing, which once closed stays closed, ... *)
LEMMA OffersStay ==
    ASSUME TypeOK, [Next]_vars, NEW k \in ListingKey, listing[k] # None
    PROVE  listing'[k] # None /\ (ClosedOffer(k) => ClosedOffer(k)')
BY OfferRewritten, NoneAssumption DEF ClosedOffer

(* ... an intent. *)
LEMMA IntentsStay ==
    ASSUME TypeOK, [Next]_vars, NEW j \in IntentKey, intent[j] # None
    PROVE  intent'[j] # None
<1>1. CASE SetupStep
    BY <1>1, SetupEffect DEF SetupStep
<1>2. CASE PurchaseStep
    <2>1. PICK e \in EventKey, tr \in TierKey, id \in 0 .. MaxTicketId - 1 :
            Issues(e, tr, id)
        BY <1>2, PurchaseEffect
    <2> QED BY <2>1 DEF Issues
<1>3. CASE GiftStep \/ ListStep \/ CancelListingStep \/ ResaleStep
    <2>1. GiftStep => UNCHANGED intent
        BY DEF GiftStep, GiftTicket, GiftTicketCore
    <2>4. ListStep => UNCHANGED intent
        BY DEF ListStep, ListTicket, ListTicketCore, OpenListing
    <2>2. CancelListingStep => UNCHANGED intent
        BY DEF CancelListingStep, CancelListing, CancelListingCore, WithdrawListing
    <2>3. ResaleStep => UNCHANGED intent
        BY DEF ResaleStep, BuyResale, BuyResaleCore
    <2> QED BY <1>3, <2>1, <2>2, <2>3, <2>4
<1>4. CASE PresentStep
    <2>1. PICK t \in TicketKey, nonce \in 0 .. MaxNonce - 1 : Presents(t, nonce)
        BY <1>4, PresentEffect
    <2> QED BY <2>1, NoneAssumption DEF Presents, OnlyIntent
<1>5. CASE CloseIntentStep
    <2>1. PICK t \in TicketKey, i \in IntentKey, status \in {"Cancelled", "Expired"} :
            Retracts(t, i, status)
        BY <1>5, CloseIntentEffect
    <2>2. [intent[i] EXCEPT !.status = status] \in CheckInIntent
        BY <2>1 DEF Retracts, CheckInIntent
    <2> QED BY <2>1, <2>2, NoneAssumption DEF Retracts, OnlyIntent
<1>6. CASE ConsumeStep
    <2>1. PICK s \in Wallet, t \in TicketKey, i \in IntentKey : Admits(s, t, i)
        BY <1>6, ConsumeEffect
    <2>2. [intent[i] EXCEPT !.status = "Consumed", !.consumed_at = now, !.staff = s]
            \in CheckInIntent
        BY <2>1 DEF Admits, CheckInIntent, TypeOK, StateTypeOK
    <2> QED BY <2>1, <2>2, NoneAssumption DEF Admits, OnlyIntent
<1> QED BY <1>1, <1>2, <1>3, <1>4, <1>5, <1>6, NextCases DEF Circulation

(* An address that a request has taken stays taken. *)
LEMMA TakenStays ==
    ASSUME TypeOK, FormEvents, [Next]_vars, NEW kind, NEW a, Taken(kind, a)
    PROVE  Taken(kind, a)'
BY TiersStay, TicketsStay, OffersStay, IntentsStay, EventTermsStep
   DEF Taken, EventTermsKept, FormEvents, ClosedOffer

(* A request names the account its handler will open. *)
LEMMA AddressNamed ==
    ASSUME NEW op \in Operation, NEW view, Made(op, view)
    PROVE  /\ op.kind = "addTier" =>
                 op.tier = <<op.event, op.tier[2]>> /\ op.event \in EventKey
           /\ op.kind = "primaryPurchaseCore" =>
                 op.ticket = <<op.event, op.ticket[2]>> /\ op.event \in EventKey
           /\ op.kind = "listTicketCore" =>
                 op.listing = <<op.ticket, op.listing[2]>> /\ op.ticket \in TicketKey
           /\ op.kind = "presentCheckInCore" =>
                 op.intent = <<op.ticket, op.intent[2]>> /\ op.ticket \in TicketKey
BY Kinds DEF Made, AddTierRequest, PurchaseRequest, ListRequest, PresentRequest

(* Every claim is refused once its address is taken, and takes it. *)
LEMMA ApplyTakes ==
    ASSUME TypeOK, NEW op \in Operation, op.kind \in Claims, Apply(op),
           NEW view, Made(op, view)
    PROVE  /\ ~Taken(op.kind, Address(op))
           /\ Taken(op.kind, Address(op))'
<1>1. CASE op.kind = "publishEvent"
    <2>1. op.event \in EventKey /\ PublishEvent(op.signer, op.event)
        BY <1>1, Kinds DEF Apply, PublishRequest
    <2>2. event[op.event].status = "Draft" /\ event'[op.event].status = "Published"
        BY <2>1 DEF PublishEvent, PublishGuard, PublishEffect, ManageEventAccounts, TypeOK,
           StateTypeOK, EventRecord
    <2> QED BY <1>1, <2>1, <2>2 DEF Taken, Address
<1>2. CASE op.kind = "addTier"
    <2>1. /\ AddTier(op.signer, op.event, op.tier[2], op.price, Supply)
          /\ op.tier = <<op.event, op.tier[2]>>
          /\ op.event \in EventKey /\ op.tier[2] \in Nat
        BY <1>2, Kinds, AddressNamed DEF Apply, AddTierRequest
    <2>2. op.tier \in TierKey
        BY <2>1, WidthsNat DEF AddTier, AddTierGuard, TierKey
    <2>3. tier[op.tier] = None /\ tier'[op.tier].event = op.event
        BY <2>1, <2>2 DEF AddTier, AddTierGuard, TypeOK, StateTypeOK
    <2>4. tier'[op.tier] # None
        <3> DEFINE opened == [event |-> op.event, price_lamports |-> op.price,
                              supply |-> Supply, sold |-> 0, active |-> TRUE]
        <3>1. tier'[op.tier] = opened
            BY <2>1, <2>2 DEF AddTier, TypeOK, StateTypeOK
        <3>2. op.price \in Nat /\ Supply \in Nat
            BY <1>2, Kinds, InputAssumption, WebAssumption DEF AddTierRequest
        <3>3. opened \in TierRecord
            BY <2>1, <3>2 DEF TierRecord
        <3> QED BY <3>1, <3>3, NoneAssumption
    <2> QED BY <1>2, <2>2, <2>3, <2>4 DEF Taken, Address
<1>3. CASE op.kind = "primaryPurchaseCore"
    <2>1. /\ PrimaryPurchaseCore(op.signer, op.event, op.tier, op.ticket[2])
          /\ op.ticket = <<op.event, op.ticket[2]>> /\ op.event \in EventKey
          /\ op.ticket[2] \in Nat /\ op.signer \in Holder /\ op.tier \in TierKey
        BY <1>3, Kinds, AddressNamed DEF Apply, PurchaseRequest
    <2>2. op.ticket \in TicketKey
        BY <2>1, WidthsNat DEF PrimaryPurchaseCore, SellTicket, SaleGuard, TicketKey
    <2>3. ticket[op.ticket] = None
        BY <2>1 DEF PrimaryPurchaseCore, SellTicket, SaleGuard
    <2>4. ticket'[op.ticket] # None
        <3> DEFINE price == tier[op.tier].price_lamports
        <3>1. ticket'[op.ticket]
                = IssuedTicket(op.event, op.tier, "MplCore", op.signer, price)
            BY <2>1, <2>2 DEF PrimaryPurchaseCore, SellTicket, TypeOK, StateTypeOK
        <3>2. price \in Nat
            BY <2>1 DEF PrimaryPurchaseCore, SellTicket, SaleGuard, TierRecord, TypeOK,
               StateTypeOK
        <3>3. IssuedTicket(op.event, op.tier, "MplCore", op.signer, price) \in TicketRecord
            BY <2>1, <3>2, IssuedTicketType, StateAssumption DEF AssetStandard
        <3> QED BY <3>1, <3>3, NoneAssumption
    <2> QED BY <1>3, <2>2, <2>3, <2>4 DEF Taken, Address
<1>4. CASE op.kind = "listTicketCore"
    <2>1. /\ OpenListing(op.signer, op.event, op.ticket, op.listing[2], op.price,
                         op.expires_at)
          /\ op.listing = <<op.ticket, op.listing[2]>> /\ op.ticket \in TicketKey
          /\ op.listing[2] \in Nat
        BY <1>4, Kinds, AddressNamed DEF Apply, ListTicketCore, ListRequest
    <2>2. op.listing \in ListingKey
        BY <2>1, WidthsNat DEF OpenListing, ListingGuard, ListingKey
    <2>3. listing[op.listing] = None
        BY <2>1 DEF OpenListing, ListingGuard
    <2>4. listing'[op.listing] # None
        <3> DEFINE offer == [ticket |-> op.ticket, event |-> op.event, seller |-> op.signer,
                             price_lamports |-> op.price, status |-> "Active",
                             expires_at |-> op.expires_at, buyer |-> None]
        <3>1. listing'[op.listing] = offer
            BY <2>1, <2>2 DEF OpenListing, TypeOK, StateTypeOK
        <3>2. offer \in ListingRecord
            BY <1>4, Kinds, InputAssumption DEF ListRequest, ListingRecord
        <3> QED BY <3>1, <3>2, NoneAssumption
    <2> QED BY <1>4, <2>2, <2>3, <2>4 DEF Taken, Address
<1>5. CASE op.kind = "presentCheckInCore"
    <2>1. /\ OpenIntent(op.signer, op.event, op.ticket, op.intent[2], op.expires_at)
          /\ op.intent = <<op.ticket, op.intent[2]>> /\ op.ticket \in TicketKey
          /\ op.intent[2] \in Nat
        BY <1>5, Kinds, AddressNamed DEF Apply, PresentCheckInCore, PresentRequest
    <2>2. op.intent \in IntentKey
        BY <2>1, WidthsNat DEF OpenIntent, PresentGuard, IntentKey
    <2>3. intent[op.intent] = None
        BY <2>1 DEF OpenIntent, PresentGuard
    <2>4. intent'[op.intent] # None
        <3> DEFINE new == [ticket |-> op.ticket, event |-> op.event, holder |-> op.signer,
                           expires_at |-> op.expires_at, status |-> "Pending",
                           consumed_at |-> None, staff |-> None]
        <3>1. intent'[op.intent] = new
            BY <2>1, <2>2 DEF OpenIntent, TypeOK, StateTypeOK
        <3>2. new \in CheckInIntent
            BY <1>5, Kinds DEF PresentRequest, CheckInIntent
        <3> QED BY <3>1, <3>2, NoneAssumption
    <2> QED BY <1>5, <2>2, <2>3, <2>4 DEF Taken, Address
<1>6. CASE op.kind = "buyResaleCore"
    <2>1. /\ BuyResaleCore(op.signer, op.event, op.ticket, op.listing)
          /\ op.listing \in ListingKey
        BY <1>6, Kinds DEF Apply, ResaleRequest
    <2>2. listing[op.listing] # None /\ listing[op.listing].status = "Active"
        BY <2>1 DEF BuyResaleCore, ResaleGuard, BuyResaleAccounts
    <2>3. ClosedOffer(op.listing)'
        <3>1. listing'[op.listing] = [listing[op.listing] EXCEPT !.status = "Filled",
                                                                 !.buyer = op.signer]
            BY <2>1 DEF BuyResaleCore, FillListing, TypeOK, StateTypeOK
        <3>2. listing[op.listing] \in ListingRecord /\ op.signer \in Wallet
            BY <1>6, <2>1, <2>2, Kinds, StateAssumption
               DEF ResaleRequest, TypeOK, StateTypeOK
        <3> QED BY <3>1, <3>2, NoneAssumption DEF ClosedOffer, ListingRecord
    <2> QED BY <1>6, <2>1, <2>2, <2>3 DEF Taken, Address, ClosedOffer
<1>7. CASE op.kind = "cancelListingCore"
    <2>1. WithdrawListing(op.signer, op.ticket, op.listing) /\ op.listing \in ListingKey
        BY <1>7, Kinds DEF Apply, CancelListingCore, CancelRequest
    <2>2. listing[op.listing] # None /\ listing[op.listing].status = "Active"
        BY <2>1 DEF WithdrawListing, WithdrawGuard, CancelListingAccounts
    <2>3. ClosedOffer(op.listing)'
        <3>1. listing'[op.listing] = [listing[op.listing] EXCEPT !.status = "Cancelled"]
            BY <2>1 DEF WithdrawListing, TypeOK, StateTypeOK
        <3>2. listing[op.listing] \in ListingRecord
            BY <2>1, <2>2 DEF TypeOK, StateTypeOK
        <3> QED BY <3>1, <3>2, NoneAssumption DEF ClosedOffer, ListingRecord
    <2> QED BY <1>7, <2>1, <2>2, <2>3 DEF Taken, Address, ClosedOffer
<1> QED BY <1>1, <1>2, <1>3, <1>4, <1>5, <1>6, <1>7 DEF Claims

---------------------------------------------------------------------------
(* The ledger only grows *)

(* What the four lists answer has the layout of the accounts. *)
LEMMA SnapshotTyped ==
    ASSUME TypeOK
    PROVE  Snapshot \in SnapshotRecord
BY DEF TypeOK, StateTypeOK, Snapshot, SnapshotRecord

(* A transaction that executes adds one snapshot to the ledger and *)
(* leaves the earlier ones alone.                                  *)
LEMMA Recording ==
    ASSUME PagesTypeOK, TypeOK', Recorded
    PROVE  /\ ledger' \in Seq(SnapshotRecord) /\ Latest' = Latest + 1
           /\ \A p \in 1 .. Latest : ledger'[p] = ledger[p]
           /\ ledger'[Latest + 1] = Snapshot'
<1>1. Snapshot' \in SnapshotRecord
    BY SnapshotTyped DEF TypeOK, StateTypeOK, Snapshot, SnapshotRecord
<1> HIDE DEF Snapshot
<1> QED BY <1>1, AppendProperties DEF Recorded, PagesTypeOK, Latest

(* What the ledger holds is read as it was written. *)
Extends ==
    /\ ledger' \in Seq(SnapshotRecord) /\ Latest' \in Nat /\ Latest' >= Latest
    /\ \A p \in 1 .. Latest : ledger'[p] = ledger[p]

(* So the ledger only grows. *)
LEMMA Extending ==
    ASSUME PagesTypeOK, UNCHANGED ledger \/ (Recorded /\ TypeOK')
    PROVE  Extends
<1>1. Latest \in Nat
    BY LenProperties DEF PagesTypeOK, Latest
<1>2. CASE UNCHANGED ledger
    BY <1>1, <1>2 DEF PagesTypeOK, Extends, Latest
<1>3. CASE Recorded /\ TypeOK'
    BY <1>1, <1>3, Recording DEF Extends
<1> QED BY <1>2, <1>3

(* What a page saw when it made a request is still in the ledger later. *)
LEMMA MadeStays ==
    ASSUME PagesTypeOK, Extends, NEW op, NEW view \in View, Made(op, view)
    PROVE  Made(op, view)'
<1>1. Latest \in Nat
    BY LenProperties DEF PagesTypeOK, Latest
<1>2. /\ {view.event, view.tier, view.ticket, view.listing} \subseteq 1 .. Latest'
      /\ ledger'[view.event] = ledger[view.event]
      /\ ledger'[view.tier] = ledger[view.tier]
      /\ ledger'[view.ticket] = ledger[view.ticket]
    BY <1>1 DEF Extends, Made
<1> QED BY <1>2 DEF Made, SeenEvent, SeenTier, SeenTicket

(* What a page saw of a published event is still so after any step. *)
LEMMA TermsSinceStays ==
    ASSUME TypeOK, EventsIsolated, FormEvents, [Next]_vars, NEW p, ledger'[p] = ledger[p],
           TermsSince(p)
    PROVE  TermsSince(p)'
<1> SUFFICES ASSUME NEW e \in EventKey, ledger[p].event[e].status # "Draft"
             PROVE  /\ event'[e].status # "Draft"
                    /\ \A tr \in TierKey :
                          tr[1] = e => SamePrice(ledger[p].tier[tr], tier'[tr])
    BY DEF TermsSince, SamePrice
<1>1. event[e] # None /\ event[e].status # "Draft"
    BY DEF TermsSince, FormEvents
<1>2. event'[e].status # "Draft"
    BY <1>1, EventTermsStep DEF EventTermsKept
<1>3. ASSUME NEW tr \in TierKey, tr[1] = e
      PROVE  SamePrice(ledger[p].tier[tr], tier'[tr])
    <2>1. SamePrice(ledger[p].tier[tr], tier[tr])
        BY <1>3 DEF TermsSince
    <2>2. IF tier[tr] = None THEN tier'[tr] = None
          ELSE tier'[tr] = [tier[tr] EXCEPT !.sold = tier'[tr].sold]
        BY <1>1, <1>3, TierTermsStep DEF TierTermsKept
    <2>3. CASE tier[tr] = None
        BY <2>1, <2>2, <2>3 DEF SamePrice
    <2>4. CASE tier[tr] # None
        <3>1. tier[tr] \in TierRecord /\ tier'[tr] # None
            BY <2>4, TiersStay DEF TypeOK, StateTypeOK
        <3>2. tier'[tr].price_lamports = tier[tr].price_lamports
            BY <2>2, <2>4, <3>1 DEF TierRecord
        <3> QED BY <2>1, <2>4, <3>1, <3>2 DEF SamePrice
    <2> QED BY <2>3, <2>4
<1> QED BY <1>2, <1>3

(* Every snapshot of a published event shows the terms and tiers the *)
(* event has now: they are frozen, and the new snapshot is of now.   *)
LEMMA TermsKnownStep ==
    ASSUME PagesTypeOK, EventsIsolated, FormEvents, [Next]_vars, TermsKnown,
           UNCHANGED ledger \/ (Recorded /\ TypeOK')
    PROVE  TermsKnown'
<1>1. /\ Latest \in Nat
      /\ \A p \in 1 .. Latest : TermsSince(p)'
    <2>1. Latest \in Nat
        BY LenProperties DEF PagesTypeOK, Latest
    <2>2. ASSUME NEW p \in 1 .. Latest
          PROVE  TermsSince(p)'
        BY <2>2, Extending, TermsSinceStays DEF Extends, TermsKnown, PagesTypeOK
    <2> QED BY <2>1, <2>2
<1>2. CASE UNCHANGED ledger
    BY <1>1, <1>2 DEF TermsKnown, Latest
<1>3. CASE Recorded /\ TypeOK'
    <2>1. Latest' = Latest + 1 /\ ledger'[Latest + 1] = Snapshot'
        BY <1>3, Recording
    <2>2. ASSUME NEW p, p = Latest + 1
          PROVE  TermsSince(p)'
        BY <2>1, <2>2 DEF Snapshot, TermsSince, SamePrice
    <2>3. ASSUME NEW p \in 1 .. Latest'
          PROVE  TermsSince(p)'
        <3>1. p \in 1 .. Latest \/ p = Latest + 1
            BY <1>1, <2>1, <2>3
        <3> QED BY <1>1, <2>2, <3>1
    <2> QED BY <2>3 DEF TermsKnown
<1> QED BY <1>2, <1>3

---------------------------------------------------------------------------
(* Clicks *)

(* What a click leaves behind: nothing on chain, one request, and a tab    *)
(* that waits for it.                                                      *)
Asked(op, view) ==
    /\ sent' = Append(sent, [op |-> op, view |-> view, status |-> "flight", at |-> None])
    /\ \E b \in Tab :
          tab' = [tab EXCEPT ![b].job = [op |-> op, step |-> "wait",
                                        signature |-> Len(sent) + 1]]
    /\ UNCHANGED <<vars, ledger, drawings, storage, evidence, done>>

(* So Send does. *)
LEMMA SendAsks ==
    ASSUME NEW b \in Tab, NEW op, NEW view, Send(b, op, view)
    PROVE  Asked(op, view)
BY DEF Send, Asked

Clicked == \E op \in Operation, view \in View : Made(op, view) /\ Asked(op, view)

(* A catalogue names transactions that happened. *)
LEMMA CataloguePast ==
    ASSUME PagesTypeOK, NEW lists, NEW view \in Catalogues(lists)
    PROVE  /\ view \in View
           /\ {view.event, view.tier, view.ticket, view.listing} \subseteq 1 .. Latest
           /\ \A e \in EventKey : SeenEvent(view, e) \in EventRecord \cup {None}
           /\ \A tr \in TierKey : SeenTier(view, tr) \in TierRecord \cup {None}
           /\ \A t \in TicketKey : SeenTicket(view, t) \in TicketRecord \cup {None}
           /\ \A l \in ListingKey : SeenListing(view, l) \in ListingRecord \cup {None}
<1>1. Latest \in Nat /\ 1 \in 1 .. Latest
    BY LenProperties DEF PagesTypeOK, Latest
<1>2. {view.event, view.tier, view.ticket, view.listing} \subseteq 1 .. Latest
    BY <1>1 DEF Catalogues, Versions
<1>3. \A p \in 1 .. Latest : ledger[p] \in SnapshotRecord
    BY ElementOfSeq DEF PagesTypeOK, Latest
<1>4. view \in View
    BY <1>1, <1>2 DEF Catalogues, View
<1> QED BY <1>2, <1>3, <1>4 DEF SeenEvent, SeenTier, SeenTicket, SeenListing, SnapshotRecord

(* A click on a page sends one typed request made from what that page  *)
(* saw: on the organizer's page, and in the lemmas below on each other *)
(* one.                                                                *)
LEMMA ManageEventClicks ==
    ASSUME PagesTypeOK, NEW b \in Tab, ManageEvent(b)
    PROVE  Clicked
<1>1. PICK e \in EventKey, view \in Catalogues({"event"}) :
        /\ SeenEvent(view, e) # None
        /\ \/ Send(b, [kind |-> "publishEvent", signer |-> SeenEvent(view, e).organizer,
                       event |-> e], view)
           \/ \E price \in PriceInputs :
                 Send(b, [kind |-> "addTier", signer |-> SeenEvent(view, e).organizer,
                          event |-> e, tier |-> <<e, SeenEvent(view, e).next_tier_id>>,
                          price |-> price], view)
           \/ \E w \in Staff :
                 Send(b, [kind |-> "authorizeStaff",
                          signer |-> SeenEvent(view, e).organizer, event |-> e,
                          staff |-> w], view)
    BY DEF ManageEvent
<1>2. /\ view \in View
      /\ {view.event, view.tier, view.ticket, view.listing} \subseteq 1 .. Latest
      /\ SeenEvent(view, e).organizer \in Wallet
      /\ SeenEvent(view, e).next_tier_id \in Nat
    BY <1>1, CataloguePast, WidthsNat DEF EventRecord
<1>3. ASSUME NEW op \in PublishRequest \cup AddTierRequest \cup AuthorizeRequest,
             op.kind = "addTier" =>
                op.tier = <<op.event, SeenEvent(view, op.event).next_tier_id>>,
             Send(b, op, view)
      PROVE  Clicked
    <2>1. Made(op, view)
        BY <1>2, <1>3 DEF Made, OfTicket, PublishRequest, AddTierRequest, AuthorizeRequest
    <2>2. op \in Operation
        BY DEF Operation
    <2> QED BY <1>2, <1>3, <2>1, <2>2, SendAsks DEF Clicked
<1>4. [kind |-> "publishEvent", signer |-> SeenEvent(view, e).organizer, event |-> e]
        \in PublishRequest
    BY <1>2 DEF PublishRequest
<1>5. \A price \in PriceInputs :
        [kind |-> "addTier", signer |-> SeenEvent(view, e).organizer, event |-> e,
         tier |-> <<e, SeenEvent(view, e).next_tier_id>>, price |-> price]
          \in AddTierRequest
    BY <1>2 DEF AddTierRequest
<1>6. \A w \in Staff :
        [kind |-> "authorizeStaff", signer |-> SeenEvent(view, e).organizer, event |-> e,
         staff |-> w] \in AuthorizeRequest
    BY <1>2 DEF AuthorizeRequest
<1> QED BY <1>1, <1>3, <1>4, <1>5, <1>6

(* The same of the event page. *)
LEMMA PurchaseClicks ==
    ASSUME PagesTypeOK, NEW b \in Tab, Purchase(b)
    PROVE  Clicked
<1>1. PICK w \in Holder, tr \in TierKey, view \in Catalogues({"event", "tier"}) :
        /\ SeenEvent(view, tr[1]) # None /\ SeenTier(view, tr) # None
        /\ Send(b, [kind |-> "primaryPurchaseCore", signer |-> w, event |-> tr[1],
                    tier |-> tr, ticket |-> <<tr[1], NextTicket(view, tr[1])>>], view)
    BY DEF Purchase
<1> DEFINE op == [kind |-> "primaryPurchaseCore", signer |-> w, event |-> tr[1],
                  tier |-> tr, ticket |-> <<tr[1], NextTicket(view, tr[1])>>]
<1>2. /\ view \in View /\ tr[1] \in EventKey
      /\ {view.event, view.tier, view.ticket, view.listing} \subseteq 1 .. Latest
      /\ NextTicket(view, tr[1]) \in Nat
    BY <1>1, CataloguePast, WidthsNat DEF EventRecord, NextTicket, TierKey
<1>3. op \in Operation
    BY <1>2 DEF PurchaseRequest, Operation
<1>4. Made(op, view)
    BY <1>1, <1>2 DEF Made, OfTicket, NextTicket
<1>5. Asked(op, view)
    BY <1>1, SendAsks
<1> QED BY <1>2, <1>3, <1>4, <1>5 DEF Clicked

(* The same of the market. *)
LEMMA BuyResaleClicks ==
    ASSUME PagesTypeOK, NEW b \in Tab, BuyResaleOnPage(b)
    PROVE  Clicked
<1>1. PICK w \in Holder, l \in ListingKey,
           view \in Catalogues({"event", "ticket", "listing"}) :
        /\ SeenTicket(view, l[1]) # None
        /\ Send(b, [kind |-> "buyResaleCore", signer |-> w, event |-> l[1][1],
                    ticket |-> l[1], listing |-> l], view)
    BY DEF BuyResaleOnPage
<1> DEFINE op == [kind |-> "buyResaleCore", signer |-> w, event |-> l[1][1],
                  ticket |-> l[1], listing |-> l]
<1>2. /\ view \in View
      /\ {view.event, view.tier, view.ticket, view.listing} \subseteq 1 .. Latest
    BY <1>1, CataloguePast
<1>3. op \in Operation
    BY DEF ResaleRequest, Operation, ListingKey, TicketKey
<1>4. Made(op, view)
    BY <1>1, <1>2 DEF Made, OfTicket
<1>5. Asked(op, view)
    BY <1>1, SendAsks
<1> QED BY <1>2, <1>3, <1>4, <1>5 DEF Clicked

(* The same of giving and listing. *)
LEMMA CirculateClicks ==
    ASSUME PagesTypeOK, NEW b \in Tab, Circulate(b)
    PROVE  Clicked
<1>1. PICK t \in TicketKey, view \in Catalogues({"event", "ticket"}) :
        /\ Usable(view, t)
        /\ \/ \E w \in Holder :
                 Send(b, [kind |-> "giftTicketCore", signer |-> SeenTicket(view, t).owner,
                          event |-> t[1], ticket |-> t, recipient |-> w], view)
           \/ \E price \in ResalePriceInputs :
                 Send(b, [kind |-> "listTicketCore", signer |-> SeenTicket(view, t).owner,
                          event |-> t[1], ticket |-> t, price |-> price,
                          listing |-> <<t, SeenTicket(view, t).next_listing_id>>,
                          expires_at |-> SeenEvent(view, t[1]).details.check_in_start_at],
                      view)
    BY DEF Circulate
<1>2. /\ view \in View /\ t[1] \in EventKey
      /\ {view.event, view.tier, view.ticket, view.listing} \subseteq 1 .. Latest
      /\ SeenTicket(view, t).owner \in Wallet
      /\ SeenTicket(view, t).next_listing_id \in Nat
      /\ SeenEvent(view, t[1]).details.check_in_start_at \in Nat
    BY <1>1, CataloguePast, WidthsNat DEF Usable, TicketRecord, EventRecord, EventDetails,
       TicketKey
<1>3. ASSUME NEW w \in Holder,
             Send(b, [kind |-> "giftTicketCore", signer |-> SeenTicket(view, t).owner,
                      event |-> t[1], ticket |-> t, recipient |-> w], view)
      PROVE  Clicked
    <2> DEFINE op == [kind |-> "giftTicketCore", signer |-> SeenTicket(view, t).owner,
                      event |-> t[1], ticket |-> t, recipient |-> w]
    <2>1. op \in Operation
        BY <1>2 DEF GiftRequest, Operation
    <2>2. Made(op, view)
        BY <1>1, <1>2 DEF Made, OfTicket, Usable
    <2>3. Asked(op, view)
        BY <1>3, SendAsks
    <2> QED BY <1>2, <2>1, <2>2, <2>3 DEF Clicked
<1>4. ASSUME NEW price \in ResalePriceInputs,
             Send(b, [kind |-> "listTicketCore", signer |-> SeenTicket(view, t).owner,
                      event |-> t[1], ticket |-> t, price |-> price,
                      listing |-> <<t, SeenTicket(view, t).next_listing_id>>,
                      expires_at |-> SeenEvent(view, t[1]).details.check_in_start_at], view)
      PROVE  Clicked
    <2> DEFINE op == [kind |-> "listTicketCore", signer |-> SeenTicket(view, t).owner,
                      event |-> t[1], ticket |-> t, price |-> price,
                      listing |-> <<t, SeenTicket(view, t).next_listing_id>>,
                      expires_at |-> SeenEvent(view, t[1]).details.check_in_start_at]
    <2>1. op \in Operation
        BY <1>2 DEF ListRequest, Operation
    <2>2. Made(op, view)
        BY <1>1, <1>2 DEF Made, OfTicket, Usable
    <2>3. Asked(op, view)
        BY <1>4, SendAsks
    <2> QED BY <1>2, <2>1, <2>2, <2>3 DEF Clicked
<1> QED BY <1>1, <1>3, <1>4

(* The same of withdrawing a listing. *)
LEMMA CancelClicks ==
    ASSUME PagesTypeOK, NEW b \in Tab, CancelOnPage(b)
    PROVE  Clicked
<1>1. PICK l \in ListingKey, view \in Catalogues({"ticket", "listing"}) :
        /\ SeenTicket(view, l[1]) # None /\ SeenTicket(view, l[1]).status = "Listed"
        /\ Send(b, [kind |-> "cancelListingCore", signer |-> SeenTicket(view, l[1]).owner,
                    ticket |-> l[1], listing |-> l], view)
    BY DEF CancelOnPage
<1> DEFINE op == [kind |-> "cancelListingCore", signer |-> SeenTicket(view, l[1]).owner,
                  ticket |-> l[1], listing |-> l]
<1>2. /\ view \in View /\ l[1] \in TicketKey
      /\ {view.event, view.tier, view.ticket, view.listing} \subseteq 1 .. Latest
      /\ SeenTicket(view, l[1]).owner \in Wallet
    BY <1>1, CataloguePast DEF TicketRecord, ListingKey
<1>3. op \in Operation
    BY <1>2 DEF CancelRequest, Operation
<1>4. Made(op, view)
    BY <1>1, <1>2 DEF Made, OfTicket
<1>5. Asked(op, view)
    BY <1>1, SendAsks
<1> QED BY <1>2, <1>3, <1>4, <1>5 DEF Clicked

(* The same of presenting at the door. *)
LEMMA PresentClicks ==
    ASSUME PagesTypeOK, now \in Nat, NEW b \in Tab, Present(b)
    PROVE  Clicked
<1>1. PICK t \in TicketKey, view \in Catalogues({"event", "ticket"}), time \in PageTimes :
        /\ Usable(view, t)
        /\ Send(b, [kind |-> "presentCheckInCore", signer |-> SeenTicket(view, t).owner,
                    event |-> t[1], ticket |-> t,
                    intent |-> <<t, SeenTicket(view, t).next_intent_nonce>>,
                    expires_at |->
                       IF time + Hold < SeenEvent(view, t[1]).details.check_in_end_at
                       THEN time + Hold
                       ELSE SeenEvent(view, t[1]).details.check_in_end_at], view)
    BY DEF Present
<1> DEFINE closes == SeenEvent(view, t[1]).details.check_in_end_at
           op == [kind |-> "presentCheckInCore", signer |-> SeenTicket(view, t).owner,
                  event |-> t[1], ticket |-> t,
                  intent |-> <<t, SeenTicket(view, t).next_intent_nonce>>,
                  expires_at |-> IF time + Hold < closes THEN time + Hold ELSE closes]
<1>2. /\ view \in View /\ t[1] \in EventKey
      /\ {view.event, view.tier, view.ticket, view.listing} \subseteq 1 .. Latest
      /\ SeenTicket(view, t).owner \in Wallet
      /\ SeenTicket(view, t).next_intent_nonce \in Nat
      /\ closes \in Nat /\ time \in Nat /\ Hold \in Nat
    BY <1>1, CataloguePast, WidthsNat, WebAssumption
       DEF Usable, TicketRecord, EventRecord, EventDetails, TicketKey, PageTimes
<1>3. op \in Operation
    BY <1>2 DEF PresentRequest, Operation
<1>4. Made(op, view)
    BY <1>1, <1>2 DEF Made, OfTicket, Usable
<1>5. Asked(op, view)
    BY <1>1, SendAsks
<1> QED BY <1>2, <1>3, <1>4, <1>5 DEF Clicked

---------------------------------------------------------------------------
(* The steps *)

(* The parts of the invariant that say what succeeded. *)
Outcomes == Dated /\ ServedOnce /\ PaysShownPrice

(* A step after which nothing more has succeeded, from anybody's pages. *)
NothingServed ==
    \A s \in 1 .. Len(sent') :
        sent'[s].status = "succeeded" => s \in 1 .. Len(sent) /\ sent'[s] = sent[s]

(* A transaction that was sent has its type. *)
LEMMA RequestTyped ==
    ASSUME PagesTypeOK, NEW s \in 1 .. Len(sent)
    PROVE  /\ sent[s] \in Transaction /\ sent[s].op \in Operation
           /\ sent[s].view \in View
<1>1. sent[s] \in Transaction
    BY ElementOfSeq DEF PagesTypeOK
<1> QED BY <1>1 DEF Transaction

(* What an earlier success was charged is on record. *)
LEMMA PriceKept ==
    ASSUME IInv, Extends, NEW s \in 1 .. Len(sent), Succeeded(s),
           sent[s].op.kind = "primaryPurchaseCore"
    PROVE  LET op == sent[s].op
               view == sent[s].view
           IN
           \/ ledger'[view.tier].event[op.event].status = "Draft"
           \/ ledger'[view.tier].tier[op.tier].price_lamports
                 = ledger'[sent[s].at].ticket[op.ticket].original_price_lamports
<1>1. sent[s].view.tier \in 1 .. Latest /\ sent[s].at \in 1 .. Latest
    BY DEF IInv, RequestsMade, Made, Dated
<1>2. ledger'[sent[s].view.tier] = ledger[sent[s].view.tier]
      /\ ledger'[sent[s].at] = ledger[sent[s].at]
    BY <1>1 DEF Extends
<1> QED BY <1>2 DEF IInv, PaysShownPrice

(* A step that serves no request leaves what was served, and what was *)
(* charged for it, as it was.                                         *)
LEMMA SameOutcomes ==
    ASSUME IInv, [Next]_vars, Extends, NothingServed
    PROVE  Outcomes'
<1>1. \A s \in 1 .. Len(sent') : Succeeded(s)' =>
        s \in 1 .. Len(sent) /\ Succeeded(s) /\ sent'[s] = sent[s]
    BY DEF NothingServed, Succeeded
<1>2. Dated'
    <2>1. Latest \in Nat /\ Latest' \in Nat /\ Latest <= Latest'
        BY LenProperties DEF Extends, IInv, PagesTypeOK, Latest
    <2> QED BY <1>1, <2>1 DEF IInv, Dated
<1>3. ServedOnce'
    <2>1. ASSUME NEW s \in 1 .. Len(sent'), Claimed(s)', NEW kind, NEW a,
                 kind = sent'[s].op.kind, a = Address(sent'[s].op)
          PROVE  Taken(kind, a)'
        <3>1. s \in 1 .. Len(sent) /\ Claimed(s) /\ sent'[s] = sent[s]
            BY <1>1, <2>1 DEF Claimed
        <3>2. Taken(kind, a)
            BY <2>1, <3>1 DEF IInv, ServedOnce
        <3> QED BY <3>2, TakenStays DEF IInv, PagesTypeOK, ChainOK
    <2>2. ASSUME NEW s \in 1 .. Len(sent'), NEW r \in 1 .. Len(sent'),
                 Claimed(s)', Claimed(r)', sent'[s].op.kind = sent'[r].op.kind,
                 Address(sent'[s].op) = Address(sent'[r].op)
          PROVE  s = r
        BY <1>1, <2>2 DEF Claimed, IInv, ServedOnce
    <2> QED BY <2>1, <2>2 DEF ServedOnce, Taken, ClosedOffer
<1>4. PaysShownPrice'
    BY <1>1, PriceKept DEF PaysShownPrice
<1> QED BY <1>2, <1>3, <1>4 DEF Outcomes

(* The request of a transaction, after a step. *)
LEMMA MadeNext ==
    ASSUME NEW s,
           \A op, view : (op = sent'[s].op /\ view = sent'[s].view) => Made(op, view)'
    PROVE  Made(sent[s].op, sent[s].view)'
BY DEF Made, SeenEvent, SeenTier, SeenTicket, Latest

(* Requests are kept as they were made. *)
LEMMA RequestsStay ==
    ASSUME PagesTypeOK, RequestsMade, Extends,
           \A s \in 1 .. Len(sent') :
              \/ s \in 1 .. Len(sent) /\ sent'[s].op = sent[s].op
                 /\ sent'[s].view = sent[s].view
              \/ \E op \in Operation, view \in View :
                    Made(op, view) /\ sent'[s].op = op /\ sent'[s].view = view
    PROVE  RequestsMade'
<1>1. ASSUME NEW s \in 1 .. Len(sent'), NEW op, NEW view,
             op = sent'[s].op, view = sent'[s].view
      PROVE  Made(op, view)'
    <2>1. CASE s \in 1 .. Len(sent) /\ op = sent[s].op /\ view = sent[s].view
        <3>1. view \in View
            BY <2>1, RequestTyped
        <3>2. Made(op, view)
            BY <2>1 DEF RequestsMade
        <3> QED BY <3>1, <3>2, MadeStays
    <2>2. CASE \E o \in Operation, v \in View :
                 Made(o, v) /\ sent'[s].op = o /\ sent'[s].view = v
        <3>1. PICK o \in Operation, v \in View :
                Made(o, v) /\ sent'[s].op = o /\ sent'[s].view = v
            BY <2>2
        <3>2. Made(o, v)'
            BY <3>1, MadeStays
        <3>3. op = o /\ view = v
            BY <1>1, <3>1
        <3> QED BY <3>2, <3>3
    <2>3. \/ s \in 1 .. Len(sent) /\ sent'[s].op = sent[s].op
             /\ sent'[s].view = sent[s].view
          \/ \E o \in Operation, v \in View :
                Made(o, v) /\ sent'[s].op = o /\ sent'[s].view = v
        BY <1>1
    <2>4. CASE s \in 1 .. Len(sent) /\ sent'[s].op = sent[s].op
               /\ sent'[s].view = sent[s].view
        BY <1>1, <2>1, <2>4
    <2> QED BY <2>2, <2>3, <2>4
<1>2. ASSUME NEW s \in 1 .. Len(sent')
      PROVE  Made(sent[s].op, sent[s].view)'
    BY <1>1, <1>2, MadeNext
<1> QED BY <1>2 DEF RequestsMade

(* A purchase that executes charges the price its tier has at that *)
(* moment, and the page had seen that tier.                        *)
LEMMA PurchaseCharges ==
    ASSUME TypeOK, NEW op \in Operation, op.kind = "primaryPurchaseCore", Apply(op),
           NEW view, Made(op, view)
    PROVE  /\ ticket'[op.ticket].original_price_lamports = tier[op.tier].price_lamports
           /\ op.tier \in TierKey /\ op.event \in EventKey /\ op.event = op.tier[1]
           /\ SeenTier(view, op.tier) # None
<1>1. /\ PrimaryPurchaseCore(op.signer, op.event, op.tier, op.ticket[2])
      /\ op.ticket = <<op.event, op.ticket[2]>> /\ op.event \in EventKey
      /\ op.ticket[2] \in Nat /\ op.tier \in TierKey
    BY Kinds, AddressNamed DEF Apply, PurchaseRequest
<1>2. op.ticket \in TicketKey
    BY <1>1, WidthsNat DEF PrimaryPurchaseCore, SellTicket, SaleGuard, TicketKey
<1>3. ticket'[op.ticket] = IssuedTicket(op.event, op.tier, "MplCore", op.signer,
                                        tier[op.tier].price_lamports)
    BY <1>1, <1>2 DEF PrimaryPurchaseCore, SellTicket, TypeOK, StateTypeOK
<1> QED BY <1>1, <1>3 DEF IssuedTicket, Made

(* The invariant is kept when a transaction executes: the address it *)
(* claims was free, so no earlier one had taken it.                  *)
LEMMA ExecuteStep ==
    ASSUME IInv, NEW s \in 1 .. Len(sent), Execute(s)
    PROVE  IInv'
<1> DEFINE op == sent[s].op
           view == sent[s].view
           served == [sent[s] EXCEPT !.status = "succeeded", !.at = Latest + 1]
<1>1. /\ sent[s] \in Transaction /\ op \in Operation /\ view \in View
      /\ Latest \in Nat /\ Made(op, view)
    <2>1. sent[s] \in Transaction /\ op \in Operation /\ view \in View
        BY RequestTyped DEF IInv
    <2>2. Latest \in Nat
        BY LenProperties DEF IInv, PagesTypeOK, Latest
    <2> QED BY <2>1, <2>2 DEF IInv, RequestsMade
<1>2. Apply(op) /\ Recorded /\ sent[s].status = "flight"
    BY DEF Execute
<1>3. served \in Transaction /\ served.status = "succeeded" /\ served.at = Latest + 1
      /\ served.op = op /\ served.view = view
    <2>1. sent[s] \in Transaction /\ Latest + 1 \in Nat
        BY <1>1
    <2> QED BY <2>1 DEF Transaction
<1>4. /\ sent' \in Seq(Transaction) /\ Len(sent') = Len(sent)
      /\ sent'[s] = served /\ \A r \in 1 .. Len(sent) : r # s => sent'[r] = sent[r]
    <2>1. sent' = [sent EXCEPT ![s] = served]
        BY LenProperties DEF Execute, IInv, PagesTypeOK
    <2> HIDE DEF served
    <2> QED BY <1>3, <2>1, ExceptSeq DEF IInv, PagesTypeOK
<1> HIDE DEF served
<1>5. [Next]_vars /\ HoldersOwn' /\ FormEvents' /\ TypeOK' /\ EventsIsolated'
    <2>1. [Next]_vars /\ HoldersOwn' /\ FormEvents'
        BY <1>1, <1>2, PageStepDrives DEF IInv, PagesTypeOK, ChainOK
    <2> QED BY <2>1, TypeStep, EventsIsolatedStep DEF IInv, PagesTypeOK, ChainOK
<1>6. Extends /\ Latest' = Latest + 1 /\ ledger'[Latest + 1] = Snapshot'
      /\ ledger' \in Seq(SnapshotRecord)
    BY <1>2, <1>5, Extending, Recording DEF IInv
<1>7. PagesTypeOK' /\ ChainOK'
    BY <1>1, <1>4, <1>5, <1>6 DEF PagesTypeOK, ChainOK, Latest
<1>8. RequestsMade'
    <2>1. \A r \in 1 .. Len(sent') :
            r \in 1 .. Len(sent) /\ sent'[r].op = sent[r].op /\ sent'[r].view = sent[r].view
        BY <1>3, <1>4
    <2> QED BY <1>6, <2>1, RequestsStay DEF IInv
<1>9. Dated'
    BY <1>1, <1>3, <1>4, <1>6 DEF IInv, Dated, Succeeded
<1>10. ServedOnce'
    <2>1. op.kind \in Claims =>
            ~Taken(op.kind, Address(op)) /\ \A kind, a :
               (kind = op.kind /\ a = Address(op)) => Taken(kind, a)'
        BY <1>1, <1>2, ApplyTakes DEF IInv, PagesTypeOK, Taken, ClosedOffer
    <2>2. \A r \in 1 .. Len(sent') : r # s /\ Claimed(r)' =>
            Claimed(r) /\ sent'[r] = sent[r] /\ r \in 1 .. Len(sent)
        BY <1>4 DEF Claimed, Succeeded
    <2>3. \A r \in 1 .. Len(sent) :
            Claimed(r) => Taken(sent[r].op.kind, Address(sent[r].op))
        BY DEF IInv, ServedOnce
    <2>4. ASSUME NEW r \in 1 .. Len(sent'), Claimed(r)', NEW kind, NEW a,
                 kind = sent'[r].op.kind, a = Address(sent'[r].op)
          PROVE  Taken(kind, a)'
        <3>1. CASE r = s
            <4>1. kind = op.kind /\ a = Address(op) /\ op.kind \in Claims
                BY <1>3, <1>4, <2>4, <3>1 DEF Claimed
            <4> QED BY <2>1, <4>1
        <3>2. CASE r # s
            <4>1. Taken(kind, a)
                BY <2>2, <2>3, <2>4, <3>2
            <4> QED BY <1>5, <4>1, TakenStays DEF IInv, PagesTypeOK, ChainOK
        <3> QED BY <3>1, <3>2
    <2>5. ASSUME NEW r \in 1 .. Len(sent'), r # s, Claimed(r)', op.kind \in Claims
          PROVE  ~(sent'[r].op.kind = op.kind /\ Address(sent'[r].op) = Address(op))
        BY <2>1, <2>2, <2>3, <2>5
    <2>6. ASSUME NEW q \in 1 .. Len(sent'), NEW r \in 1 .. Len(sent'),
                 Claimed(q)', Claimed(r)', sent'[q].op.kind = sent'[r].op.kind,
                 Address(sent'[q].op) = Address(sent'[r].op)
          PROVE  q = r
        <3>1. sent'[s].op = op
            BY <1>3, <1>4
        <3>2. CASE q # s /\ r # s
            BY <2>2, <2>6, <3>2 DEF IInv, ServedOnce
        <3>3. CASE q = s \/ r = s
            BY <2>5, <2>6, <3>1, <3>3 DEF Claimed
        <3> QED BY <3>2, <3>3
    <2> QED BY <2>4, <2>6 DEF ServedOnce, Taken, ClosedOffer
<1>11. TermsKnown'
    BY <1>2, <1>5, TermsKnownStep DEF IInv, ChainOK
<1>12. PaysShownPrice'
    <2> SUFFICES ASSUME NEW r \in 1 .. Len(sent'), Succeeded(r)',
                        sent'[r].op.kind = "primaryPurchaseCore"
                 PROVE  LET bought == sent'[r].op
                            seen == sent'[r].view
                        IN
                        \/ ledger'[seen.tier].event[bought.event].status = "Draft"
                        \/ ledger'[seen.tier].tier[bought.tier].price_lamports
                              = ledger'[sent'[r].at].ticket[bought.ticket]
                                   .original_price_lamports
        BY DEF PaysShownPrice
    <2>1. CASE r # s
        <3>1. r \in 1 .. Len(sent) /\ sent'[r] = sent[r] /\ Succeeded(r)
            BY <1>4, <2>1 DEF Succeeded
        <3> QED BY <1>6, <3>1, PriceKept
    <2>2. CASE r = s
        <3>1. sent'[r].op = op /\ sent'[r].view = view /\ sent'[r].at = Latest + 1
              /\ op.kind = "primaryPurchaseCore"
            BY <1>3, <1>4, <2>2
        <3>2. /\ ticket'[op.ticket].original_price_lamports = tier[op.tier].price_lamports
              /\ op.tier \in TierKey /\ op.event \in EventKey /\ op.event = op.tier[1]
              /\ ledger[view.tier].tier[op.tier] # None
            BY <1>1, <1>2, <3>1, PurchaseCharges DEF IInv, PagesTypeOK, SeenTier
        <3>3. view.tier \in 1 .. Latest
            BY <1>1 DEF Made
        <3>4. ledger[view.tier].event[op.event].status # "Draft" =>
                tier[op.tier].price_lamports
                  = ledger[view.tier].tier[op.tier].price_lamports
            BY <3>2, <3>3 DEF IInv, TermsKnown, TermsSince, SamePrice
        <3>5. ledger'[view.tier] = ledger[view.tier]
              /\ ledger'[Latest + 1].ticket = ticket'
            BY <1>6, <3>3 DEF Extends, Snapshot
        <3> QED BY <3>1, <3>2, <3>4, <3>5
    <2> QED BY <2>1, <2>2
<1> QED BY <1>7, <1>8, <1>9, <1>10, <1>11, <1>12 DEF IInv

(* The steps in which no page's transaction executes. *)
LEMMA QuietStep ==
    ASSUME IInv, [Next]_vars, HoldersOwn', FormEvents', NothingServed,
           UNCHANGED ledger \/ Recorded, sent' \in Seq(Transaction), RequestsMade'
    PROVE  IInv'
<1>1. TypeOK' /\ EventsIsolated'
    BY TypeStep, EventsIsolatedStep DEF IInv, PagesTypeOK, ChainOK
<1>2. Extends
    BY <1>1, Extending DEF IInv
<1>3. PagesTypeOK' /\ ChainOK'
    BY <1>1, <1>2, LenProperties DEF IInv, PagesTypeOK, ChainOK, Extends, Latest
<1>4. TermsKnown'
    BY <1>1, TermsKnownStep DEF IInv, ChainOK
<1>5. Outcomes'
    BY <1>2, SameOutcomes
<1> QED BY <1>3, <1>4, <1>5 DEF IInv, Outcomes

(* Requests stay made when nothing is sent. *)
LEMMA SameSent ==
    ASSUME IInv, UNCHANGED sent, UNCHANGED ledger \/ (Recorded /\ TypeOK')
    PROVE  NothingServed /\ sent' \in Seq(Transaction) /\ RequestsMade'
<1>1. sent' \in Seq(Transaction) /\ NothingServed
    BY DEF IInv, PagesTypeOK, NothingServed
<1>2. Extends
    BY Extending DEF IInv
<1> QED BY <1>1, <1>2, RequestsStay DEF IInv

(* The invariant is kept when a page sends a request. *)
LEMMA ClickStep ==
    ASSUME IInv, Clicked
    PROVE  IInv'
<1>1. PICK op \in Operation, view \in View : Made(op, view) /\ Asked(op, view)
    BY DEF Clicked
<1> DEFINE request == [op |-> op, view |-> view, status |-> "flight", at |-> None]
<1>2. request \in Transaction
    BY DEF Transaction
<1>3. /\ sent' \in Seq(Transaction) /\ Len(sent') = Len(sent) + 1 /\ Len(sent) \in Nat
      /\ \A s \in 1 .. Len(sent) : sent'[s] = sent[s]
      /\ sent'[Len(sent) + 1] = request
    <2> HIDE DEF request
    <2> QED BY <1>1, <1>2, AppendProperties, LenProperties
            DEF Asked, IInv, PagesTypeOK, request
<1>4. \A s \in 1 .. Len(sent') : s \in 1 .. Len(sent) \/ s = Len(sent) + 1
    BY <1>3
<1>5. NothingServed
    BY <1>3, <1>4 DEF NothingServed
<1>6. UNCHANGED vars /\ UNCHANGED ledger
    BY <1>1 DEF Asked
<1>7. RequestsMade'
    <2>1. Extends
        BY <1>6, Extending DEF IInv
    <2> QED BY <1>1, <1>3, <1>4, <2>1, RequestsStay DEF IInv
<1>8. HoldersOwn' /\ FormEvents'
    BY <1>6, PageStepDrives DEF IInv, PagesTypeOK, ChainOK
<1> QED BY <1>3, <1>5, <1>6, <1>7, <1>8, QuietStep

(* It is kept when a transaction is lost. *)
LEMMA LoseStep ==
    ASSUME IInv, NEW s \in 1 .. Len(sent), Lose(s)
    PROVE  IInv'
<1> DEFINE lost == [sent[s] EXCEPT !.status = "lost"]
<1>1. sent[s] \in Transaction
    BY RequestTyped DEF IInv
<1>2. lost \in Transaction /\ lost.status = "lost" /\ lost.op = sent[s].op
      /\ lost.view = sent[s].view
    BY <1>1 DEF Transaction
<1>3. sent' = [sent EXCEPT ![s] = lost]
    BY LenProperties DEF Lose, IInv, PagesTypeOK
<1> HIDE DEF lost
<1>4. /\ sent' \in Seq(Transaction) /\ Len(sent') = Len(sent)
      /\ sent'[s] = lost /\ \A r \in 1 .. Len(sent) : r # s => sent'[r] = sent[r]
    BY <1>2, <1>3, ExceptSeq DEF IInv, PagesTypeOK
<1>5. NothingServed
    BY <1>2, <1>4 DEF NothingServed
<1>6. UNCHANGED vars /\ UNCHANGED ledger
    BY DEF Lose
<1>7. RequestsMade'
    <2>1. Extends
        BY <1>6, Extending DEF IInv
    <2>2. \A r \in 1 .. Len(sent') :
            r \in 1 .. Len(sent) /\ sent'[r].op = sent[r].op /\ sent'[r].view = sent[r].view
        BY <1>2, <1>4
    <2> QED BY <2>1, <2>2, RequestsStay DEF IInv
<1>8. HoldersOwn' /\ FormEvents'
    BY <1>6, PageStepDrives DEF IInv, PagesTypeOK, ChainOK
<1> QED BY <1>4, <1>5, <1>6, <1>7, <1>8, QuietStep

(* It is kept when another client's transaction executes. *)
LEMMA ElsewhereStep ==
    ASSUME IInv, Elsewhere
    PROVE  IInv'
<1>1. Recorded /\ UNCHANGED sent
    BY DEF Elsewhere
<1>2. [Next]_vars /\ HoldersOwn' /\ FormEvents'
    BY PageStepDrives DEF IInv, PagesTypeOK, ChainOK
<1>3. TypeOK'
    BY <1>2, TypeStep DEF IInv, PagesTypeOK
<1> QED BY <1>1, <1>2, <1>3, SameSent, QuietStep

(* It is kept when time passes, and when a page waits, announces or *)
(* draws.                                                           *)
LEMMA PageOnlyStep ==
    ASSUME IInv, Tick \/ UNCHANGED vars, UNCHANGED <<ledger, sent>>
    PROVE  IInv'
<1>1. [Next]_vars /\ HoldersOwn' /\ FormEvents'
    BY PageStepDrives DEF IInv, PagesTypeOK, ChainOK
<1> QED BY <1>1, SameSent, QuietStep

(* The invariant is inductive. *)
LEMMA InvariantStep == IInv /\ [PagesNext]_<<vars, webVars>> => IInv'
<1> SUFFICES ASSUME IInv, [PagesNext]_<<vars, webVars>>
             PROVE  IInv'
    OBVIOUS
<1>1. ASSUME NEW s \in 1 .. Len(sent), Execute(s) \/ Lose(s)
      PROVE  IInv'
    BY <1>1, ExecuteStep, LoseStep
<1>2. CASE Elsewhere
    BY <1>2, ElsewhereStep
<1>3. CASE TimePasses \/ UNCHANGED <<vars, webVars>>
    BY <1>3, PageOnlyStep DEF TimePasses, webVars
<1>4. ASSUME NEW b \in Tab,
             \/ ManageEvent(b) \/ Purchase(b) \/ BuyResaleOnPage(b)
             \/ Circulate(b) \/ CancelOnPage(b) \/ Present(b)
      PROVE  IInv'
    <2>1. PagesTypeOK /\ now \in Nat
        BY DEF IInv, PagesTypeOK, TypeOK, StateTypeOK
    <2>2. Clicked
        BY <1>4, <2>1, ManageEventClicks, PurchaseClicks, BuyResaleClicks, CirculateClicks,
           CancelClicks, PresentClicks
    <2> QED BY <2>2, ClickStep
<1>5. ASSUME NEW b \in Tab,
             \/ TimeOut(b) \/ Announce(b) \/ Finish(b) \/ Draw(b) \/ Drawn(b)
      PROVE  IInv'
    <2>1. UNCHANGED vars /\ UNCHANGED <<ledger, sent>>
        BY <1>5 DEF TimeOut, Announce, Finish, Draw, Drawn
    <2> QED BY <2>1, PageOnlyStep
<1> QED BY <1>1, <1>2, <1>3, <1>4, <1>5 DEF PagesNext

---------------------------------------------------------------------------
(* Where the pages start *)

(* The first ticket of an event and its listing have the layout of the *)
(* accounts.                                                           *)
LEMMA FirstTyped ==
    ASSUME NEW t \in TicketKey, NEW owner \in Holder
    PROVE  /\ FirstTicket(t, owner) \in TicketRecord
           /\ ListedTicket(FirstTicket(t, owner)) \in TicketRecord
           /\ FirstListing(t, owner) \in ListingRecord
<1>1. /\ Details \in EventDetails /\ FirstPrice \in Nat
      /\ Holder \subseteq Wallet
      /\ 0 \in 0 .. MaxTierId - 1 /\ 1 \in 0 .. MaxListingId
    BY WebAssumption, InputAssumption, StateAssumption, WidthsNat
<1>2. /\ t[1] \in EventKey /\ <<t[1], 0>> \in TierKey /\ owner \in Wallet
      /\ "MplCore" \in AssetStandard
    BY <1>1 DEF TicketKey, TierKey, AssetStandard
<1>3. FirstTicket(t, owner) \in TicketRecord
    <2>1. FirstTicket(t, owner)
            = IssuedTicket(t[1], <<t[1], 0>>, "MplCore", owner, FirstPrice)
        BY DEF FirstTicket, IssuedTicket
    <2> QED BY <1>1, <1>2, <2>1, IssuedTicketType
<1>4. FirstTicket(t, owner).next_listing_id + 1 <= MaxListingId
    BY <1>1, WidthsNat DEF FirstTicket
<1>5. FirstListing(t, owner) \in ListingRecord
    BY <1>1, <1>2 DEF FirstListing, ListingRecord, EventDetails
<1> QED BY <1>3, <1>4, <1>5, ListedTicketType

(* At each of the moments the pages may start from, the program is in a *)
(* state of its own type, with its events isolated.                     *)
LEMMA StartTyped ==
    ASSUME PagesInit
    PROVE  TypeOK /\ ChainOK
<1>1. /\ Details \in EventDetails /\ FirstPrice \in Nat /\ Supply \in Nat
      /\ UpgradeAuthority \in Wallet
      /\ Holder \subseteq Wallet /\ Organizer \subseteq Wallet
      /\ 0 \in 0 .. MaxTierId - 1 /\ 0 \in 0 .. MaxTicketId - 1
      /\ 0 \in 0 .. MaxListingId - 1 /\ 0 \in 0 .. MaxNonce /\ 0 \in 0 .. MaxTransfers
      /\ 1 \in 0 .. MaxTierId
      /\ {0, 1} \subseteq 0 .. MaxTicketId /\ {0, 1} \subseteq 0 .. MaxListingId
    BY WebAssumption, InputAssumption, StateAssumption, WidthsNat
<1>2. \A e \in EventKey, status \in {"Draft", "Published"}, sold \in {0, 1} :
        /\ EventWith(e, status, sold) \in EventRecord
        /\ EventWith(e, status, sold).details = Details
    BY <1>1 DEF EventWith, EventRecord, EventKey
<1>3. \A t \in TicketKey, owner \in Holder :
        /\ FirstTicket(t, owner) \in TicketRecord
        /\ ListedTicket(FirstTicket(t, owner)) \in TicketRecord
        /\ FirstListing(t, owner) \in ListingRecord
    BY FirstTyped
<1>4. ASSUME NEW status \in {"Draft", "Published"}, NEW sold \in {0, 1},
             StartEvents(status, sold)
      PROVE  /\ event \in [EventKey -> EventRecord \cup {None}]
             /\ tier \in [TierKey -> TierRecord \cup {None}]
             /\ FormEvents
             /\ \A tr \in TierKey : tier[tr] # None => tier[tr].event = tr[1]
    <2>1. \A tr \in TierKey :
            [event |-> tr[1], price_lamports |-> FirstPrice, supply |-> Supply,
             sold |-> sold, active |-> TRUE] \in TierRecord
        BY <1>1 DEF TierRecord, TierKey
    <2> QED BY <1>2, <1>4, <2>1, NoneAssumption DEF StartEvents, FormEvents
<1> DEFINE Started ==
        /\ ticket \in [TicketKey -> TicketRecord \cup {None}]
        /\ asset \in [TicketKey -> AssetRecord \cup {None}]
        /\ listing \in [ListingKey -> ListingRecord \cup {None}]
        /\ HoldersOwn
        /\ \A t \in TicketKey : TicketIsolated(t)
        /\ \A l \in ListingKey :
              listing[l] # None => listing[l].ticket = l[1] /\ listing[l].event = l[1][1]
<1>5. ASSUME NEW first, NEW owner \in Holder, NEW firstAsset \in AssetRecord,
             NEW listed \in BOOLEAN, StartTickets(first, firstAsset, listed),
             \A t \in TicketKey :
                /\ first[t] \in TicketRecord /\ first[t].owner = owner
                /\ first[t].event = t[1] /\ first[t].tier = <<t[1], 0>>
                /\ first[t].used_by = None
      PROVE  Started
    <2>1. \A l \in ListingKey : l[1] \in TicketKey
        BY DEF ListingKey
    <2>2. ticket \in [TicketKey -> TicketRecord \cup {None}] /\ HoldersOwn
        BY <1>5 DEF StartTickets, HoldersOwn
    <2>3. asset \in [TicketKey -> AssetRecord \cup {None}]
        BY <1>5 DEF StartTickets
    <2>4. listing \in [ListingKey -> ListingRecord \cup {None}]
        BY <1>3, <1>5, <2>1 DEF StartTickets
    <2>5. \A t \in TicketKey : TicketIsolated(t)
        BY <1>5 DEF StartTickets, TicketIsolated
    <2>6. \A l \in ListingKey :
            listing[l] # None => listing[l].ticket = l[1] /\ listing[l].event = l[1][1]
        BY <1>5 DEF StartTickets, FirstListing
    <2> QED BY <2>2, <2>3, <2>4, <2>5, <2>6
<1>6. \A w \in Holder :
        CoreAsset(w) \in AssetRecord /\ AddTransferDelegate(CoreAsset(w)) \in AssetRecord
    BY <1>1, CoreAssetType DEF CoreAsset, AssetRecord, AssetStandard
<1>7. /\ config \in PlatformConfig /\ balance \in [Wallet -> Nat]
      /\ intent \in [IntentKey -> CheckInIntent \cup {None}]
      /\ \A i \in IntentKey : intent[i] = None
    BY <1>1, StateAssumption DEF PagesInit, Platform, PlatformConfig, AssetStandard
<1> DEFINE Issued ==
        /\ Started
        /\ staff \in [StaffKey -> {"None", "Active", "Revoked"}]
        /\ now \in Nat
        /\ \E status \in {"Draft", "Published"}, sold \in {0, 1} : StartEvents(status, sold)
<1>8. ASSUME OnSale, staff = [k \in StaffKey |-> "None"]
      PROVE  Issued
    <2>1. Details.sales_start_at \in Nat
        BY <1>1 DEF EventDetails
    <2> QED BY <1>8, <2>1 DEF OnSale, HoldersOwn, TicketIsolated
<1>9. ASSUME Circulating,
             staff = [k \in StaffKey |-> IF k[2] \in Staff THEN "Active" ELSE "None"]
      PROVE  Issued
    <2>1. PICK owner \in Holder,
               time \in {Details.sales_start_at, Details.check_in_start_at} :
            LET first == [t \in TicketKey |-> FirstTicket(t, owner)]
                listed == [t \in TicketKey |-> ListedTicket(first[t])]
            IN
            /\ StartEvents("Published", 1)
            /\ \/ StartTickets(first, CoreAsset(owner), FALSE)
               \/ StartTickets(listed, AddTransferDelegate(CoreAsset(owner)), TRUE)
            /\ now = time
        BY <1>9 DEF Circulating
    <2> DEFINE first == [t \in TicketKey |-> FirstTicket(t, owner)]
               listed == [t \in TicketKey |-> ListedTicket(first[t])]
    <2>2. \A t \in TicketKey :
            /\ first[t] \in TicketRecord /\ first[t].owner = owner
            /\ first[t].event = t[1] /\ first[t].tier = <<t[1], 0>>
            /\ first[t].used_by = None
        BY <1>3 DEF FirstTicket
    <2>3. \A t \in TicketKey :
            /\ listed[t] \in TicketRecord /\ listed[t].owner = owner
            /\ listed[t].event = t[1] /\ listed[t].tier = <<t[1], 0>>
            /\ listed[t].used_by = None
        BY <1>3 DEF FirstTicket, ListedTicket
    <2> HIDE DEF first, listed, Started
    <2>4. StartTickets(first, CoreAsset(owner), FALSE) => Started
        BY <1>5, <1>6, <2>2
    <2>5. StartTickets(listed, AddTransferDelegate(CoreAsset(owner)), TRUE) => Started
        BY <1>5, <1>6, <2>3
    <2>6. now \in Nat
        BY <1>1, <2>1 DEF EventDetails
    <2>7. staff \in [StaffKey -> {"None", "Active", "Revoked"}]
        BY <1>9
    <2>8. StartTickets(first, CoreAsset(owner), FALSE)
          \/ StartTickets(listed, AddTransferDelegate(CoreAsset(owner)), TRUE)
        BY <2>1 DEF first, listed
    <2> QED BY <2>1, <2>4, <2>5, <2>6, <2>7, <2>8
<1>10. Issued
    BY <1>8, <1>9 DEF PagesInit
<1> HIDE DEF Issued
<1>11. /\ event \in [EventKey -> EventRecord \cup {None}]
       /\ tier \in [TierKey -> TierRecord \cup {None}]
       /\ FormEvents
       /\ \A tr \in TierKey : tier[tr] # None => tier[tr].event = tr[1]
    BY <1>4, <1>10 DEF Issued
<1> QED BY <1>7, <1>10, <1>11
        DEF Issued, Started, TypeOK, StateTypeOK, ChainOK, EventsIsolated

(* The invariant holds at the start: nothing is sent and the ledger has *)
(* one snapshot.                                                        *)
LEMMA StartInvariant == PagesInit => IInv
<1> SUFFICES ASSUME PagesInit
             PROVE  IInv
    OBVIOUS
<1>1. TypeOK /\ ChainOK
    BY StartTyped
<1>2. Snapshot \in SnapshotRecord /\ ledger = <<Snapshot>> /\ sent = <<>>
    BY <1>1, SnapshotTyped DEF PagesInit
<1>3. ledger \in Seq(SnapshotRecord) /\ Latest = 1 /\ ledger[1] = Snapshot
    <2> HIDE DEF Snapshot
    <2> QED BY <1>2 DEF Latest
<1>4. sent \in Seq(Transaction) /\ Len(sent) = 0
    BY <1>2
<1>5. PagesTypeOK
    BY <1>1, <1>3, <1>4 DEF PagesTypeOK, Latest
<1>6. RequestsMade /\ Dated /\ ServedOnce /\ PaysShownPrice
    BY <1>4 DEF RequestsMade, Dated, ServedOnce, PaysShownPrice
<1>7. TermsKnown
    <2>1. ASSUME NEW p, p = 1
          PROVE  TermsSince(p)
        BY <1>3, <2>1 DEF TermsSince, Snapshot, SamePrice
    <2> QED BY <1>3, <2>1 DEF TermsKnown
<1> QED BY <1>1, <1>5, <1>6, <1>7 DEF IInv

(* The invariant of the pages and the program together. *)
THEOREM PagesInvariant == PagesSpec => []IInv
<1> QED BY StartInvariant, InvariantStep, PTL DEF PagesSpec

---------------------------------------------------------------------------
(* What the invariant says of a buyer and of a retry *)

(* Two requests for the same thing, made of one catalogue, claim one       *)
(* address, and an address is taken once.                                  *)
LEMMA SameRequestSameAddress ==
    ASSUME IInv, NEW s \in 1 .. Len(sent), NEW r \in 1 .. Len(sent), SameRequest(s, r)
    PROVE  Address(sent[s].op) = Address(sent[r].op)
<1>1. Made(sent[s].op, sent[s].view) /\ Made(sent[r].op, sent[r].view)
    BY DEF IInv, RequestsMade
<1> DEFINE p == sent[s].op
           q == sent[r].op
           v == sent[s].view
<1>2. sent[r].view = v /\ p.kind = q.kind
    BY DEF SameRequest
<1>3. CASE p = q
    BY <1>3
<1>4. CASE p.kind = "primaryPurchaseCore" /\ p.event = q.event
    BY <1>1, <1>2, <1>4 DEF Made, Address
<1>5. CASE p.kind = "addTier" /\ p.event = q.event
    BY <1>1, <1>2, <1>5 DEF Made, Address
<1>6. CASE p.kind = "listTicketCore" /\ p.ticket = q.ticket
    BY <1>1, <1>2, <1>6 DEF Made, Address
<1>7. CASE p.kind = "presentCheckInCore" /\ p.ticket = q.ticket
    BY <1>1, <1>2, <1>7 DEF Made, Address
<1> QED BY <1>3, <1>4, <1>5, <1>6, <1>7 DEF SameRequest

(* A retry after a timeout, or a second click on a stale page, is served   *)
(* at most once: execute and submit of platform-provider.tsx.              *)
THEOREM RetriesServedOnce == PagesSpec => []RetriedOnce
<1>1. IInv => RetriedOnce
    <2> SUFFICES ASSUME IInv, NEW s \in 1 .. Len(sent), NEW r \in 1 .. Len(sent),
                        s # r, Succeeded(s), Succeeded(r), SameRequest(s, r),
                        sent[s].op.kind \notin {"giftTicketCore", "authorizeStaff"}
                 PROVE  FALSE
        BY DEF RetriedOnce
    <2>1. sent[s].op.kind = sent[r].op.kind
        BY DEF SameRequest
    <2>2. sent[s].op.kind \in Claims
        BY RequestTyped, Kinds DEF IInv
    <2>3. Address(sent[s].op) = Address(sent[r].op)
        BY SameRequestSameAddress
    <2> QED BY <2>1, <2>2, <2>3 DEF IInv, ServedOnce, Claimed
<1> QED BY <1>1, PagesInvariant, PTL

(* The buyer is charged what the page showed, from any catalogue whose     *)
(* list of tiers was read after the publication.                           *)
THEOREM PricesAsShown == PagesSpec => []PaysShownPrice
<1>1. IInv => PaysShownPrice
    BY DEF IInv
<1> QED BY <1>1, PagesInvariant, PTL

(* Each step of the pages is one of the program, or touches no account.    *)
LEMMA StepDrives == IInv /\ [PagesNext]_<<vars, webVars>> => [Next]_vars
<1> SUFFICES ASSUME IInv, [PagesNext]_<<vars, webVars>>
             PROVE  [Next]_vars
    OBVIOUS
<1>1. TypeOK /\ HoldersOwn /\ FormEvents
    BY DEF IInv, PagesTypeOK, ChainOK
<1>2. ASSUME NEW s \in 1 .. Len(sent), Execute(s)
      PROVE  [Next]_vars
    <2>1. sent[s].op \in Operation /\ Apply(sent[s].op)
        BY <1>2, RequestTyped DEF Execute, IInv
    <2> QED BY <1>1, <2>1, PageStepDrives
<1>3. ASSUME NEW s \in 1 .. Len(sent), Lose(s)
      PROVE  UNCHANGED vars
    BY <1>3 DEF Lose
<1>4. CASE Elsewhere
    BY <1>1, <1>4, PageStepDrives
<1>5. TimePasses => Tick
    BY DEF TimePasses
<1>6. ASSUME NEW b \in Tab,
             \/ ManageEvent(b) \/ Purchase(b) \/ BuyResaleOnPage(b)
             \/ Circulate(b) \/ CancelOnPage(b) \/ Present(b)
      PROVE  UNCHANGED vars
    <2>1. Clicked
        BY <1>6, ManageEventClicks, PurchaseClicks, BuyResaleClicks, CirculateClicks,
           CancelClicks, PresentClicks DEF IInv, PagesTypeOK, TypeOK, StateTypeOK
    <2> QED BY <2>1 DEF Clicked, Asked
<1>7. ASSUME NEW b \in Tab,
             \/ TimeOut(b) \/ Announce(b) \/ Finish(b) \/ Draw(b) \/ Drawn(b)
      PROVE  UNCHANGED vars
    BY <1>7 DEF TimeOut, Announce, Finish, Draw, Drawn
<1> QED BY <1>2, <1>3, <1>4, <1>5, <1>6, <1>7 DEF PagesNext, Next

(* Whatever the pages do, the accounts move only as the program allows.    *)
THEOREM PagesDriveProgram == PagesSpec => [][Next]_vars
BY StepDrives, PagesInvariant, PTL DEF PagesSpec

---------------------------------------------------------------------------
(* What the program promises, while the pages use it *)

(* The pages start with no ticket, or with the first one of every event,   *)
(* held by somebody and perhaps listed.                                    *)
StartedWith(sold, listed, owner) ==
    /\ sold = 1 => owner \in Holder
    /\ \A e \in EventKey :
          /\ event[e] # None /\ event[e].details = Details
          /\ event[e].next_ticket_id = sold
          /\ sold = 1 => event[e].status = "Published"
    /\ \A tr \in TierKey : tier[tr] # None =>
          tr[2] = 0 /\ tier[tr].sold = sold /\ tier[tr].supply = Supply
    /\ \A tr \in TierKey : tr[2] = 0 => tier[tr] # None
    /\ \A t \in TicketKey :
          IF sold = 0 \/ t[2] # 0 THEN ticket[t] = None /\ asset[t] = None
          ELSE IF listed
          THEN /\ ticket[t] = ListedTicket(FirstTicket(t, owner))
               /\ asset[t] = AddTransferDelegate(CoreAsset(owner))
          ELSE ticket[t] = FirstTicket(t, owner) /\ asset[t] = CoreAsset(owner)
    /\ \A l \in ListingKey :
          listing[l] = IF sold = 1 /\ listed /\ l[1][2] = 0 /\ l[2] = 0
                       THEN FirstListing(l[1], owner) ELSE None

(* Each of the moments the pages start from is of that form. *)
LEMMA StartCases ==
    ASSUME PagesInit
    PROVE  /\ \A i \in IntentKey : intent[i] = None
           /\ \E sold \in {0, 1}, listed \in BOOLEAN, owner \in Wallet :
                 StartedWith(sold, listed, owner)
<1>1. /\ \A i \in IntentKey : intent[i] = None
      /\ UpgradeAuthority \in Wallet /\ Holder \subseteq Wallet
    BY StateAssumption DEF PagesInit
<1>2. ASSUME NEW status \in {"Draft", "Published"}, NEW sold \in {0, 1},
             sold = 1 => status = "Published", StartEvents(status, sold)
      PROVE  /\ \A e \in EventKey :
                   /\ event[e] # None /\ event[e].details = Details
                   /\ event[e].next_ticket_id = sold
                   /\ sold = 1 => event[e].status = "Published"
             /\ \A tr \in TierKey : tier[tr] # None =>
                   tr[2] = 0 /\ tier[tr].sold = sold /\ tier[tr].supply = Supply
             /\ \A tr \in TierKey : tr[2] = 0 => tier[tr] # None
    <2>1. \A e \in EventKey : event[e] = EventWith(e, status, sold)
        BY <1>2 DEF StartEvents
    <2>2. \A e \in EventKey : event[e] # None
        BY StartTyped DEF ChainOK, FormEvents
    <2>3. \A tr \in TierKey :
            tier[tr] = IF tr[2] # 0 THEN None
                       ELSE [event |-> tr[1], price_lamports |-> FirstPrice,
                             supply |-> Supply, sold |-> sold, active |-> TRUE]
        BY <1>2 DEF StartEvents
    <2>4. \A tr \in TierKey :
            [event |-> tr[1], price_lamports |-> FirstPrice,
             supply |-> Supply, sold |-> sold, active |-> TRUE] # None
        <3>1. ASSUME NEW tr \in TierKey
              PROVE  [event |-> tr[1], price_lamports |-> FirstPrice,
                      supply |-> Supply, sold |-> sold, active |-> TRUE] \in TierRecord
            BY WebAssumption, InputAssumption DEF TierRecord, TierKey
        <3> QED BY <3>1, NoneAssumption
    <2> QED BY <1>2, <2>1, <2>2, <2>3, <2>4 DEF StartEvents, EventWith
<1>3. CASE OnSale
    <2>1. PICK status \in {"Draft", "Published"} : StartEvents(status, 0)
        BY <1>3 DEF OnSale
    <2>2. StartedWith(0, FALSE, UpgradeAuthority)
        BY <1>2, <1>3, <2>1 DEF OnSale, StartedWith
    <2> QED BY <1>1, <2>2
<1>4. CASE Circulating
    <2>1. PICK owner \in Holder :
            LET first == [t \in TicketKey |-> FirstTicket(t, owner)]
                listed == [t \in TicketKey |-> ListedTicket(first[t])]
            IN
            /\ StartEvents("Published", 1)
            /\ \/ StartTickets(first, CoreAsset(owner), FALSE)
               \/ StartTickets(listed, AddTransferDelegate(CoreAsset(owner)), TRUE)
        BY <1>4 DEF Circulating
    <2> DEFINE first == [t \in TicketKey |-> FirstTicket(t, owner)]
               onMarket == [t \in TicketKey |-> ListedTicket(first[t])]
    <2>2. CASE StartTickets(first, CoreAsset(owner), FALSE)
        <3>1. StartedWith(1, FALSE, owner)
            BY <1>2, <2>1, <2>2 DEF StartTickets, StartedWith
        <3> QED BY <1>1, <3>1
    <2>3. CASE StartTickets(onMarket, AddTransferDelegate(CoreAsset(owner)), TRUE)
        <3>1. \A l \in ListingKey : l[1] \in TicketKey
            BY DEF ListingKey
        <3>2. \A t \in TicketKey : onMarket[t] = ListedTicket(FirstTicket(t, owner))
            OBVIOUS
        <3>3. \A t \in TicketKey : ListedTicket(FirstTicket(t, owner)).owner = owner
            BY DEF ListedTicket, FirstTicket
        <3> HIDE DEF onMarket
        <3>4. StartedWith(1, TRUE, owner)
            BY <1>2, <2>1, <2>3, <3>1, <3>2, <3>3 DEF StartTickets, StartedWith
        <3> QED BY <1>1, <3>4
    <2> QED BY <2>1, <2>2, <2>3
<1> QED BY <1>3, <1>4 DEF PagesInit

(* What the program promises holds of each of those starts: no intent is   *)
(* open, the first ticket is where its asset is, and its offer, if it has  *)
(* one, asks the original price, which is below any cap.                   *)
Promised ==
    /\ IntentExclusive /\ CancelledWithoutTickets /\ SingleUse /\ ListingExclusive
    /\ CustodyConsistent /\ SupplyInv

(* They all hold when the pages are opened.                                *)
LEMMA StartPromised ==
    ASSUME PagesInit
    PROVE  Promised
<1>1. TypeOK /\ EventsIsolated
    BY StartTyped DEF ChainOK
<1>2. \A i \in IntentKey : intent[i] = None
    BY StartCases
<1>3. PICK sold \in {0, 1}, listed \in BOOLEAN, owner \in Wallet :
        StartedWith(sold, listed, owner)
    BY StartCases
<1> DEFINE First(t) == sold = 1 /\ t[2] = 0
<1>4. ASSUME NEW t \in TicketKey, ~First(t)
      PROVE  ticket[t] = None /\ asset[t] = None
    BY <1>3, <1>4 DEF StartedWith
<1>5. ASSUME NEW t \in TicketKey, First(t)
      PROVE  /\ ticket[t] # None /\ asset[t] # None
             /\ ticket[t].event = t[1] /\ ticket[t].tier = <<t[1], 0>>
             /\ ticket[t].owner = owner /\ ticket[t].active_intent = None
             /\ ticket[t].used_at = None /\ ticket[t].asset_standard = "MplCore"
             /\ ticket[t].original_price_lamports = FirstPrice
             /\ ticket[t].status = IF listed THEN "Listed" ELSE "Active"
             /\ listed => ticket[t].next_listing_id = 1
             /\ asset[t].standard = "MplCore" /\ asset[t].owner = owner
             /\ asset[t].frozen /\ (listed => asset[t].delegated)
    <2>1. owner \in Holder
        BY <1>3, <1>5 DEF StartedWith
    <2>2. /\ FirstTicket(t, owner) # None /\ ListedTicket(FirstTicket(t, owner)) # None
          /\ CoreAsset(owner) # None /\ AddTransferDelegate(CoreAsset(owner)) # None
        <3>1. CoreAsset(owner) \in AssetRecord
            BY <2>1, StateAssumption DEF CoreAsset, AssetRecord, AssetStandard
        <3> QED BY <2>1, <3>1, FirstTyped, CoreAssetType, NoneAssumption
    <2>3. CASE listed
        <3>1. /\ ticket[t] = ListedTicket(FirstTicket(t, owner))
              /\ asset[t] = AddTransferDelegate(CoreAsset(owner))
            BY <1>3, <1>5, <2>3 DEF StartedWith
        <3> DEFINE new == FirstTicket(t, owner)
        <3>2. /\ new.event = t[1] /\ new.tier = <<t[1], 0>> /\ new.owner = owner
              /\ new.active_intent = None /\ new.used_at = None
              /\ new.asset_standard = "MplCore"
              /\ new.original_price_lamports = FirstPrice /\ new.next_listing_id = 0
            BY DEF FirstTicket
        <3>3. new \in TicketRecord
            BY <2>1, FirstTyped
        <3> HIDE DEF new
        <3>4. /\ ListedTicket(new).status = "Listed"
              /\ ListedTicket(new).next_listing_id = 1
              /\ ListedTicket(new).event = t[1] /\ ListedTicket(new).tier = <<t[1], 0>>
              /\ ListedTicket(new).owner = owner
              /\ ListedTicket(new).active_intent = None
              /\ ListedTicket(new).used_at = None
              /\ ListedTicket(new).asset_standard = "MplCore"
              /\ ListedTicket(new).original_price_lamports = FirstPrice
            BY <3>2, <3>3 DEF ListedTicket, TicketRecord
        <3>5. /\ AddTransferDelegate(CoreAsset(owner)).standard = "MplCore"
              /\ AddTransferDelegate(CoreAsset(owner)).owner = owner
              /\ AddTransferDelegate(CoreAsset(owner)).frozen
              /\ AddTransferDelegate(CoreAsset(owner)).delegated
            BY DEF AddTransferDelegate, CoreAsset
        <3>6. ticket[t] = ListedTicket(new) /\ ticket[t] # None /\ asset[t] # None
            BY <2>2, <3>1 DEF new
        <3> QED BY <2>3, <3>1, <3>4, <3>5, <3>6
    <2>4. CASE ~listed
        <3>1. ticket[t] = FirstTicket(t, owner) /\ asset[t] = CoreAsset(owner)
            BY <1>3, <1>5, <2>4 DEF StartedWith
        <3> QED BY <2>2, <2>4, <3>1 DEF FirstTicket, CoreAsset
    <2> QED BY <2>3, <2>4
<1>6. \A t \in TicketKey : t[1] \in EventKey /\ t[2] \in Nat /\ t = <<t[1], t[2]>>
    BY WidthsNat DEF TicketKey
<1>7. \A e \in EventKey :
        /\ event[e] # None /\ event[e].details = Details
        /\ event[e].next_ticket_id = sold
        /\ sold = 1 => event[e].status = "Published"
    BY <1>3 DEF StartedWith
<1>8. IntentExclusive
    BY <1>2, <1>4, <1>5
       DEF IntentExclusive, ActiveIntentPending, PendingIntentCurrent, Pending
<1>9. CancelledWithoutTickets
    <2> SUFFICES ASSUME NEW t \in TicketKey PROVE TicketIssued(t)
        BY DEF CancelledWithoutTickets
    <2>1. First(t) <=> t[2] < sold
        BY <1>6
    <2> QED BY <1>4, <1>5, <1>6, <1>7, <2>1 DEF TicketIssued
<1>10. SingleUse
    <2>1. \A t \in TicketKey : ~UsedTicket(t)
        BY <1>4, <1>5 DEF UsedTicket
    <2> QED BY <1>2, <2>1 DEF SingleUse, Consumed, ConsumedIntentUsed
<1>11. CustodyConsistent
    BY <1>4, <1>5 DEF CustodyConsistent, AssetFollows
<1>12. ListingExclusive
    <2>1. ASSUME NEW t \in TicketKey
          PROVE  ListedTicketOffered(t)
        <3> SUFFICES ASSUME ticket[t] # None, ticket[t].status = "Listed"
                     PROVE  \E l \in ListingKey : OpenOffer(l) /\ listing[l].ticket = t
            BY DEF ListedTicketOffered
        <3>1. First(t) /\ listed
            BY <1>4, <1>5
        <3>2. <<t, 0>> \in ListingKey
            BY WebAssumption, WidthsNat DEF ListingKey
        <3>3. listing[<<t, 0>>] = FirstListing(t, owner) /\ owner \in Holder
            BY <1>3, <3>1, <3>2 DEF StartedWith
        <3>4. FirstListing(t, owner) # None
            BY <3>3, FirstTyped, NoneAssumption
        <3> QED BY <3>2, <3>3, <3>4 DEF OpenOffer, FirstListing
    <2>2. ASSUME NEW l \in ListingKey
          PROVE  OpenOfferCurrent(l)
        <3> SUFFICES ASSUME OpenOffer(l) PROVE OpenOfferCurrent(l)
            BY DEF OpenOfferCurrent
        <3>1. l[1] \in TicketKey /\ l = <<l[1], l[2]>>
            BY DEF ListingKey
        <3>2. First(l[1]) /\ listed /\ l[2] = 0 /\ listing[l] = FirstListing(l[1], owner)
            BY <1>3 DEF StartedWith, OpenOffer
        <3>3. WithinMarkup(FirstPrice, FirstPrice, Details.max_resale_markup_bps)
            <4>1. /\ FirstPrice \in Nat /\ Details.max_resale_markup_bps \in Nat
                  /\ BpsDenominator \in Nat \ {0}
                BY WebAssumption, InputAssumption, DomainAssumption DEF EventDetails
            <4> QED BY <4>1 DEF WithinMarkup
        <3>4. Details.check_in_start_at \in Nat
            BY WebAssumption, InputAssumption DEF EventDetails
        <3>5. ticket[l[1]].next_listing_id - 1 = 0
            BY <1>5, <3>1, <3>2
        <3> QED BY <1>5, <1>6, <1>7, <3>1, <3>2, <3>3, <3>4, <3>5
                DEF OpenOfferCurrent, FirstListing
    <2> QED BY <2>1, <2>2 DEF ListingExclusive
<1>13. SupplyInv
    <2> SUFFICES ASSUME NEW tr \in TierKey
                 PROVE  /\ IsFiniteSet(TicketsOf(tr))
                        /\ tier[tr] = None => TicketsOf(tr) = {}
                        /\ tier[tr] # None =>
                              /\ tier[tr].sold <= tier[tr].supply
                              /\ tier[tr].sold = Cardinality(TicketsOf(tr))
        BY DEF SupplyInv, SupplyCounted, SupplyConsistent
    <2>1. tr[1] \in EventKey /\ tr[2] \in Nat /\ tr = <<tr[1], tr[2]>>
        BY WidthsNat DEF TierKey
    <2>2. /\ tier[tr] # None => tr[2] = 0 /\ tier[tr].sold = sold /\ tier[tr].supply = Supply
          /\ tr[2] = 0 => tier[tr] # None
        BY <1>3 DEF StartedWith
    <2>3. Supply \in Nat /\ Supply > 0
        BY WebAssumption, InputAssumption DEF ValidTier
    <2>4. CASE sold = 1 /\ tr[2] = 0
        <3>1. <<tr[1], 0>> \in TicketKey
            BY <2>1, WebAssumption, WidthsNat DEF TicketKey
        <3>2. TicketsOf(tr) = {<<tr[1], 0>>}
            BY <1>4, <1>5, <1>6, <2>1, <2>4, <3>1 DEF TicketsOf
        <3>3. IsFiniteSet(TicketsOf(tr)) /\ Cardinality(TicketsOf(tr)) = 1
            BY <3>2, FS_Singleton
        <3> QED BY <2>2, <2>3, <2>4, <3>3
    <2>5. CASE ~(sold = 1 /\ tr[2] = 0)
        <3>1. TicketsOf(tr) = {}
            BY <1>4, <1>5, <1>6, <2>1, <2>5 DEF TicketsOf
        <3> QED BY <2>2, <2>3, <2>5, <3>1, FS_EmptySet
    <2> QED BY <2>4, <2>5
<1> QED BY <1>8, <1>9, <1>10, <1>11, <1>12, <1>13 DEF Promised

(* Every step of the pages keeps them, for it is one of the program. *)
LEMMA PromisedStep ==
    ASSUME IInv, Promised, [Next]_vars
    PROVE  Promised'
<1>1. TypeOK /\ EventsIsolated
    BY DEF IInv, PagesTypeOK, ChainOK
<1> QED BY <1>1, IntentExclusiveStep, CancelledWithoutTicketsStep, SingleUseStep,
           ListingExclusiveStep, CustodyStep, SupplyStep DEF Promised

(* Whatever the pages send, from catalogues however old, and whatever      *)
(* other clients do between: one use, one offer, assets where their        *)
(* records say, no tier oversold and nobody stranded.                      *)
THEOREM PagesKeepPromises ==
    PagesSpec => [](/\ SingleUse /\ ListingExclusive /\ CustodyConsistent
                    /\ SupplyConsistent /\ CancelledWithoutTickets)
<1>1. PagesInit => Promised
    BY StartPromised
<1>2. Promised => /\ SingleUse /\ ListingExclusive /\ CustodyConsistent
                  /\ SupplyConsistent /\ CancelledWithoutTickets
    BY DEF Promised, SupplyInv
<1> QED BY <1>1, <1>2, PromisedStep, PagesInvariant, PagesDriveProgram, PTL DEF PagesSpec

(* Nor can the pages make a step that uses a used ticket, moves money      *)
(* without a sale, edits what was published, or changes an owner once      *)
(* check-in opened.                                                        *)
THEOREM PagesStepsHonest ==
    PagesSpec => /\ UsedIsFinal /\ MoneyFollowsTickets /\ TermsFrozen
                 /\ TransfersOnlyWhileOpen
<1>1. PagesSpec => [](IInv /\ Promised)
    BY StartPromised, PromisedStep, PagesInvariant, PagesDriveProgram, PTL DEF PagesSpec
<1>2. IInv /\ Promised => TypeOK /\ EventsIsolated /\ IntentExclusive /\ ListingExclusive
    BY DEF IInv, PagesTypeOK, ChainOK, Promised
<1>3. PagesSpec => [](TypeOK /\ EventsIsolated /\ IntentExclusive /\ ListingExclusive)
    BY <1>1, <1>2, PTL
<1>4. TypeOK /\ IntentExclusive /\ [Next]_vars =>
        [\A t \in TicketKey :
            (ticket[t] # None /\ ticket[t].status = "Used") =>
               ticket'[t] = ticket[t] /\ asset'[t] = asset[t]]_vars
    BY UsedUntouched
<1>5. TypeOK /\ ListingExclusive /\ [Next]_vars =>
        [PaidOnlyForTickets /\ \A t \in TicketKey : SaleSettled(t)]_vars
    BY PurchaseSettled, ResaleSettled, OtherStepsUnpaid
<1>6. TypeOK /\ EventsIsolated /\ [Next]_vars =>
        [/\ \A e \in EventKey : EventTermsKept(e)
         /\ \A tr \in TierKey : TierTermsKept(tr)]_vars
    BY EventTermsStep, TierTermsStep
<1>7. TypeOK /\ IntentExclusive /\ ListingExclusive /\ [Next]_vars =>
        [\A t \in TicketKey :
            (ticket[t] # None /\ ticket'[t].owner # ticket[t].owner) => OpenTransfer(t)]_vars
    BY TransferStep
<1>8. PagesSpec => UsedIsFinal
    BY <1>3, <1>4, PagesDriveProgram, PTL DEF UsedIsFinal
<1>9. PagesSpec => MoneyFollowsTickets
    BY <1>3, <1>5, PagesDriveProgram, PTL DEF MoneyFollowsTickets
<1>10. PagesSpec => TermsFrozen
    BY <1>3, <1>6, PagesDriveProgram, PTL DEF TermsFrozen, EventTermsKept, TierTermsKept
<1>11. PagesSpec => TransfersOnlyWhileOpen
    BY <1>3, <1>7, PagesDriveProgram, PTL DEF TransfersOnlyWhileOpen, OpenTransfer
<1> QED BY <1>8, <1>9, <1>10, <1>11

(* And each of their steps is one of the registry, or invisible in it: a   *)
(* ticket the pages start with is issued already, and goes on as every     *)
(* other does.                                                             *)
THEOREM PagesFollowRegistry ==
    PagesSpec => [][Registry!RegistryNext]_<<phases, holders>>
<1>1. PagesSpec => [](IInv /\ Promised)
    BY StartPromised, PromisedStep, PagesInvariant, PagesDriveProgram, PTL DEF PagesSpec
<1>2. IInv /\ Promised => TypeOK /\ IntentExclusive
    BY DEF IInv, PagesTypeOK, ChainOK, Promised
<1>3. TypeOK /\ IntentExclusive /\ [Next]_vars
        => [Registry!RegistryNext]_<<phases, holders>>
    BY RegistryStep
<1> QED BY <1>1, <1>2, <1>3, PagesDriveProgram, PTL

---------------------------------------------------------------------------
(* What the browser says: notices and passes *)

Job == [op : Operation, step : {"wait", "refresh"}, signature : Nat]
AccessPass ==
    [ticket : TicketKey, intent : TicketKey \X Nat, expires_at : Nat, signature : Nat]

BrowserTypeOK ==
    /\ tab \in [Tab -> [job : Job \cup {None}, pass : AccessPass \cup {None}]]
    /\ drawings \in [Tab -> [pass : AccessPass, view : View, wallet : Holder] \cup {None}]
    /\ storage \in AccessPass \cup {None}
    /\ done \subseteq 1 .. Len(sent)

(* A tab waits for the transaction it sent, and goes on to refresh only    *)
(* when it has announced it.                                               *)
JobTrue(job) ==
    /\ job.signature \in 1 .. Len(sent)
    /\ job.op = sent[job.signature].op
    /\ job.step = "refresh" => job.signature \in done

JobsTrue == \A b \in Tab : tab[b].job # None => JobTrue(tab[b].job)

(* A pass was made from a presentation that was announced.                 *)
PassRecorded(p) ==
    /\ p.signature \in done
    /\ LET op == sent[p.signature].op IN
       /\ op.kind = "presentCheckInCore"
       /\ p.ticket = op.ticket /\ p.intent = op.intent /\ p.expires_at = op.expires_at

PassesRecorded ==
    /\ storage # None => PassRecorded(storage)
    /\ \A b \in Tab :
          /\ tab[b].pass # None => PassRecorded(tab[b].pass)
          /\ drawings[b] # None => PassRecorded(drawings[b].pass)
    /\ \A x \in evidence :
          PassRecorded(x.pass) /\ x.actor = sent[x.pass.signature].op.signer

(* What a page read of a ticket at position p of the ledger is still so,   *)
(* but for its use at the door.                                            *)
SameSince(p, t) ==
    LET seen == ledger[p].ticket[t] IN
    IF seen = None THEN ticket[t] = None
    ELSE /\ ticket[t] # None
         /\ ticket[t].owner = seen.owner
         /\ ticket[t].next_listing_id = seen.next_listing_id
         /\ ticket[t].next_intent_nonce = seen.next_intent_nonce
         /\ ticket[t].status \in {seen.status, "Used"}

OwnerSince(p, t) ==
    ledger[p].ticket[t] # None =>
        ticket[t] # None /\ ticket[t].owner = ledger[p].ticket[t].owner

(* So it is of every position and ticket, unless the pages have touched or *)
(* traded the ticket since.  And no list shows a ticket that the list of   *)
(* events of the same moment still calls the next one.                     *)
Remembered ==
    \A p \in 1 .. Latest, t \in TicketKey :
        /\ Touched(t, p) \/ SameSince(p, t)
        /\ Traded(t, p) \/ OwnerSince(p, t)
        /\ ledger[p].ticket[t] # None => t[2] < ledger[p].event[t[1]].next_ticket_id

(* The counters of a ticket are past the listings and intents it has had,  *)
(* and the holder of an intent has kept the ticket.                        *)
NumbersTaken(t) ==
    /\ \A l \in ListingKey : (l[1] = t /\ listing[l] # None) =>
          ticket[t] # None /\ l[2] < ticket[t].next_listing_id
    /\ \A i \in IntentKey : (i[1] = t /\ intent[i] # None) =>
          /\ ticket[t] # None /\ i[2] < ticket[t].next_intent_nonce
          /\ intent[i].ticket = t /\ intent[i].holder = ticket[t].owner
          /\ Details.check_in_start_at <= now

Explained(s) == Touched(sent[s].op.ticket, ReadAt(s)) \/ AlreadySo(s)

WaitsExplained == \A s \in done : Waits(sent[s].op) => Explained(s)

(* The intent of a presentation that was announced is there, and it is     *)
(* what was asked for when the presentation itself succeeded.              *)
PresentationTrue(s) ==
    LET op == sent[s].op
        i == intent[op.intent]
    IN
    (Succeeded(s) \/ s \in done) =>
        /\ op.intent \in IntentKey /\ i # None
        /\ Succeeded(s) =>
              /\ i.holder = op.signer /\ i.expires_at = op.expires_at
              /\ now < op.expires_at => i.status \in {"Pending", "Consumed"}

PresentationsTrue ==
    \A s \in 1 .. Len(sent) :
        sent[s].op.kind = "presentCheckInCore" => PresentationTrue(s)

(* The part of the invariant about the chain.                              *)
ChainAgrees ==
    /\ Remembered /\ (\A t \in TicketKey : NumbersTaken(t))
    /\ WaitsExplained /\ PresentationsTrue

---------------------------------------------------------------------------
(* What has landed has a cause *)

(* Of what a page was asked for, that which is so now was so when the page *)
(* read the ticket, or came about by a transaction on it since.            *)
LEMMA LandedSince ==
    ASSUME IInv, Promised, ChainAgrees, NEW s \in 1 .. Len(sent), Waits(sent[s].op),
           Landed(sent[s].op)
    PROVE  Explained(s)
<1> DEFINE op == sent[s].op
           view == sent[s].view
           t == op.ticket
           seen == ledger[view.ticket].ticket[t]
<1>1. op \in Operation /\ Made(op, view) /\ TypeOK
    BY RequestTyped DEF IInv, PagesTypeOK, RequestsMade
<1>2. SUFFICES ASSUME ~Touched(t, ReadAt(s))
               PROVE  AlreadySo(s)
    BY DEF Explained
<1>3. CASE op.kind = "primaryPurchaseCore"
    <2>1. /\ t \in TicketKey /\ ticket[t] # None
          /\ t = <<op.event, ledger[view.event].event[op.event].next_ticket_id>>
          /\ view.event \in 1 .. Latest /\ ReadAt(s) = view.event
        BY <1>1, <1>3 DEF Landed, Exists, Made, SeenEvent, ReadAt, Promised, TypeOK,
                          StateTypeOK, CustodyConsistent, AssetFollows
    <2>2. ledger[view.event].ticket[t] = None
        <3> DEFINE past == ledger[view.event]
        <3>1. t[1] = op.event /\ t[2] = past.event[op.event].next_ticket_id
            BY <2>1
        <3>2. t[2] \in Nat
            BY <2>1, WidthsNat DEF TicketKey
        <3>3. past.ticket[t] # None => t[2] < past.event[t[1]].next_ticket_id
            BY <2>1 DEF ChainAgrees, Remembered
        <3> HIDE DEF t, past
        <3> QED BY <3>1, <3>2, <3>3 DEF past
    <2> QED BY <1>2, <2>1, <2>2 DEF ChainAgrees, Remembered, SameSince
<1>4. ASSUME op.kind \in OfTicket
      PROVE  /\ t \in TicketKey /\ seen # None /\ ticket[t] # None
             /\ ticket[t].owner = seen.owner
             /\ ticket[t].next_listing_id = seen.next_listing_id
             /\ ticket[t].next_intent_nonce = seen.next_intent_nonce
             /\ ticket[t].status \in {seen.status, "Used"}
             /\ NumbersTaken(t) /\ ticket[t] \in TicketRecord
    <2>1. t \in TicketKey
        BY <1>1, <1>4, Kinds DEF OfTicket, ResaleRequest, GiftRequest, ListRequest,
                                 CancelRequest, PresentRequest
    <2>2. view.ticket \in 1 .. Latest /\ seen # None /\ ReadAt(s) = view.ticket
        BY <1>1, <1>4 DEF Made, SeenTicket, ReadAt, OfTicket
    <2>3. SameSince(view.ticket, t) /\ NumbersTaken(t)
        BY <1>2, <2>1, <2>2 DEF ChainAgrees, Remembered
    <2> QED BY <1>1, <2>1, <2>2, <2>3 DEF SameSince, TypeOK, StateTypeOK
<1>5. CASE op.kind \in {"buyResaleCore", "giftTicketCore"}
    BY <1>4, <1>5 DEF Landed, AlreadySo, SeenTicket, OfTicket
<1>6. CASE op.kind = "listTicketCore"
    <2>1. /\ op.listing \in ListingKey /\ listing[op.listing] # None
          /\ op.listing = <<t, seen.next_listing_id>>
        BY <1>1, <1>6 DEF Landed, Exists, Made, SeenTicket, TypeOK, StateTypeOK
    <2>2. /\ NumbersTaken(t) /\ ticket[t].next_listing_id = seen.next_listing_id
          /\ ticket[t] \in TicketRecord
        BY <1>4, <1>6 DEF OfTicket
    <2> HIDE DEF t, seen
    <2>3. op.listing[1] = t /\ op.listing[2] = ticket[t].next_listing_id
        BY <2>1, <2>2
    <2>4. op.listing[2] < ticket[t].next_listing_id
        BY <2>1, <2>2, <2>3 DEF NumbersTaken
    <2>5. ticket[t].next_listing_id \in Nat
        BY <2>2, WidthsNat DEF TicketRecord
    <2> QED BY <2>3, <2>4, <2>5
<1>7. CASE op.kind = "cancelListingCore"
    BY <1>1, <1>4, <1>7 DEF Landed, OfTicket, Made, SeenTicket
<1>8. CASE op.kind = "presentCheckInCore"
    <2>1. /\ op.intent \in IntentKey /\ intent[op.intent] # None
          /\ op.intent = <<t, seen.next_intent_nonce>>
        BY <1>1, <1>8 DEF Landed, Exists, Made, SeenTicket, TypeOK, StateTypeOK
    <2>2. /\ NumbersTaken(t) /\ ticket[t].next_intent_nonce = seen.next_intent_nonce
          /\ ticket[t] \in TicketRecord
        BY <1>4, <1>8 DEF OfTicket
    <2> HIDE DEF t, seen
    <2>3. op.intent[1] = t /\ op.intent[2] = ticket[t].next_intent_nonce
        BY <2>1, <2>2
    <2>4. op.intent[2] < ticket[t].next_intent_nonce
        BY <2>1, <2>2, <2>3 DEF NumbersTaken
    <2>5. ticket[t].next_intent_nonce \in Nat
        BY <2>2, WidthsNat DEF TicketRecord
    <2> QED BY <2>3, <2>4, <2>5
<1> QED BY <1>1, <1>3, <1>5, <1>6, <1>7, <1>8, Kinds DEF Waits, Claims

---------------------------------------------------------------------------
(* Tickets a step is not about *)

(* An intent keeps what the pass shows of it, and its holder; it is not    *)
(* closed before its time but by being consumed.                           *)
IntentHonoured(i) ==
    IF intent[i] = None THEN intent'[i] = None
    ELSE /\ intent'[i] # None
         /\ intent'[i].ticket = intent[i].ticket
         /\ intent'[i].holder = intent[i].holder
         /\ intent'[i].expires_at = intent[i].expires_at
         /\ intent'[i].status \in {intent[i].status, "Consumed"}
               \/ now >= intent[i].expires_at

(* What pages remember of a ticket stays so, and nothing of it lands.      *)
Untouched(t) ==
    /\ ticket[t] = None => ticket'[t] = None
    /\ ticket[t] # None =>
          /\ ticket'[t] # None
          /\ ticket'[t].owner = ticket[t].owner
          /\ ticket'[t].next_listing_id = ticket[t].next_listing_id
          /\ ticket'[t].next_intent_nonce = ticket[t].next_intent_nonce
          /\ ticket'[t].status \in {ticket[t].status, "Used"}
    /\ \A l \in ListingKey : (l[1] = t /\ listing'[l] # None) => listing[l] # None
    /\ \A i \in IntentKey : i[1] = t => IntentHonoured(i)

(* A step that leaves the accounts alone is about no ticket, ...           *)
LEMMA SameUntouched ==
    ASSUME UNCHANGED <<ticket, listing, intent>>, NEW t
    PROVE  Untouched(t)
BY DEF Untouched, IntentHonoured

(* ... nor is a transaction of the organizer's pages.                      *)
LEMMA OrganizerApply ==
    ASSUME NEW op \in Operation, ~Waits(op), Apply(op)
    PROVE  UNCHANGED <<ticket, asset, listing, intent, now>>
BY DEF Waits, Apply, PublishEvent, PublishEffect, AddTier, AuthorizeStaff, circulationVars

(* One of a holder is about one ticket.                                    *)
LEMMA ApplyElsewhere ==
    ASSUME TypeOK, NEW op \in Operation, NEW view, Made(op, view), Waits(op), Apply(op),
           NEW t \in TicketKey, t # op.ticket
    PROVE  Untouched(t)
<1>1. CASE op.kind = "primaryPurchaseCore"
    <2>1. /\ PrimaryPurchaseCore(op.signer, op.event, op.tier, op.ticket[2])
          /\ op.ticket = <<op.event, op.ticket[2]>>
        BY <1>1, Kinds, AddressNamed DEF Apply
    <2> QED BY <2>1 DEF PrimaryPurchaseCore, SellTicket, Untouched, IntentHonoured, TypeOK,
            StateTypeOK
<1>2. CASE op.kind = "buyResaleCore"
    <2>1. BuyResaleCore(op.signer, op.event, op.ticket, op.listing)
        BY <1>2 DEF Apply
    <2>2. listing[op.listing] # None
        BY <2>1 DEF BuyResaleCore, ResaleGuard, BuyResaleAccounts
    <2> QED BY <2>1, <2>2 DEF BuyResaleCore, FillListing, Untouched, IntentHonoured, TypeOK,
            StateTypeOK
<1>3. CASE op.kind = "giftTicketCore"
    BY <1>3 DEF Apply, GiftTicketCore, Untouched, IntentHonoured, TypeOK, StateTypeOK
<1>4. CASE op.kind = "listTicketCore"
    <2>1. /\ ListTicketCore(op.signer, op.event, op.ticket, op.listing[2], op.price,
                            op.expires_at)
          /\ op.listing = <<op.ticket, op.listing[2]>>
        BY <1>4, Kinds, AddressNamed DEF Apply
    <2> QED BY <2>1 DEF ListTicketCore, OpenListing, Untouched, IntentHonoured, TypeOK,
            StateTypeOK
<1>5. CASE op.kind = "cancelListingCore"
    <2>1. CancelListingCore(op.signer, op.ticket, op.listing)
        BY <1>5 DEF Apply
    <2>2. listing[op.listing] # None
        BY <2>1 DEF CancelListingCore, WithdrawListing, WithdrawGuard, CancelListingAccounts
    <2> QED BY <2>1, <2>2 DEF CancelListingCore, WithdrawListing, Untouched, IntentHonoured,
            TypeOK, StateTypeOK
<1>6. CASE op.kind = "presentCheckInCore"
    <2>1. /\ OpenIntent(op.signer, op.event, op.ticket, op.intent[2], op.expires_at)
          /\ op.intent = <<op.ticket, op.intent[2]>>
        BY <1>6, Kinds, AddressNamed DEF Apply, PresentCheckInCore
    <2> QED BY <2>1 DEF OpenIntent, Untouched, IntentHonoured, TypeOK, StateTypeOK
<1> QED BY <1>1, <1>2, <1>3, <1>4, <1>5, <1>6, Kinds DEF Waits, Claims

(* A transaction of another client touches no ticket but to use it, and    *)
(* closes no intent early.                                                 *)
LEMMA ElsewhereHonest ==
    ASSUME TypeOK, Elsewhere
    PROVE  /\ \A t \in TicketKey : Untouched(t)
           /\ UNCHANGED now
<1>1. ASSUME NEW signer \in Organizer, NEW tr \in TierKey, NEW price \in PriceInputs,
             UpdateTier(signer, tr[1], tr, price, Supply, TRUE)
      PROVE  UNCHANGED <<ticket, asset, listing, intent, now>>
    BY <1>1 DEF UpdateTier, circulationVars
<1>2. ASSUME NEW signer \in Staff, NEW i \in IntentKey,
             ConsumeCheckInCore(signer, i[1][1], i[1], i)
      PROVE  (\A t \in TicketKey : Untouched(t)) /\ UNCHANGED now
    <2>1. PICK s \in Wallet, t \in TicketKey, k \in IntentKey : Admits(s, t, k)
        BY <1>2, ConsumeEffect DEF ConsumeStep, IntentKey, TicketKey
    <2> DEFINE consumed == [intent[k] EXCEPT !.status = "Consumed", !.consumed_at = now,
                                            !.staff = s]
    <2>2. /\ intent[k] # None /\ intent'[k] = consumed /\ OnlyIntent(k)
          /\ consumed \in CheckInIntent /\ consumed.status = "Consumed"
          /\ consumed.ticket = intent[k].ticket /\ consumed.holder = intent[k].holder
          /\ consumed.expires_at = intent[k].expires_at
        BY <2>1 DEF Admits, PendingIntent, CheckInIntent, TypeOK, StateTypeOK
    <2>3. /\ ticket[t] # None /\ ticket'[t] # None
          /\ ticket'[t].owner = ticket[t].owner /\ ticket'[t].status = "Used"
          /\ ticket'[t].next_listing_id = ticket[t].next_listing_id
          /\ ticket'[t].next_intent_nonce = ticket[t].next_intent_nonce
          /\ OnlyTicket(t) /\ UNCHANGED <<listing, now, asset>>
        <3> DEFINE admitted == AdmittedTicket(ticket[t], s, now)
        <3>1. /\ ticket[t] \in TicketRecord /\ admitted \in TicketRecord
              /\ ticket'[t] = admitted
              /\ OnlyTicket(t) /\ UNCHANGED <<listing, now, asset>>
            BY <2>1 DEF Admits
        <3>2. /\ admitted.owner = ticket[t].owner /\ admitted.status = "Used"
              /\ admitted.next_listing_id = ticket[t].next_listing_id
              /\ admitted.next_intent_nonce = ticket[t].next_intent_nonce
            BY <3>1 DEF AdmittedTicket, TicketRecord
        <3> HIDE DEF admitted
        <3> QED BY <3>1, <3>2, NoneAssumption
    <2> HIDE DEF consumed
    <2>4. \A j \in IntentKey : IntentHonoured(j)
        BY <2>2, NoneAssumption DEF IntentHonoured, OnlyIntent
    <2> QED BY <2>3, <2>4 DEF Untouched, OnlyTicket
<1>3. ASSUME NEW i \in IntentKey, ExpireCheckIn(i[1], i)
      PROVE  (\A t \in TicketKey : Untouched(t)) /\ UNCHANGED now
    <2> DEFINE t == i[1]
               expired == [intent[i] EXCEPT !.status = "Expired"]
    <2>1. /\ t \in TicketKey /\ ticket[t] \in TicketRecord
          /\ intent[i] # None /\ intent[i] \in CheckInIntent
          /\ now >= intent[i].expires_at
        BY <1>3 DEF ExpireCheckIn, PendingIntent, IntentKey, TypeOK, StateTypeOK
    <2>2. /\ intent'[i] = expired /\ OnlyIntent(i)
          /\ ticket'[t] = RetractedTicket(ticket[t]) /\ OnlyTicket(t)
          /\ UNCHANGED <<asset, listing, now>>
        BY <1>3, <2>1
           DEF ExpireCheckIn, CloseIntent, OnlyIntent, OnlyTicket, TypeOK, StateTypeOK
    <2>3. /\ expired \in CheckInIntent
          /\ expired.ticket = intent[i].ticket /\ expired.holder = intent[i].holder
          /\ expired.expires_at = intent[i].expires_at
        BY <2>1 DEF CheckInIntent
    <2>4. /\ ticket[t] # None /\ ticket'[t] # None
          /\ ticket'[t].owner = ticket[t].owner /\ ticket'[t].status = ticket[t].status
          /\ ticket'[t].next_listing_id = ticket[t].next_listing_id
          /\ ticket'[t].next_intent_nonce = ticket[t].next_intent_nonce
        BY <2>1, <2>2, RetractedTicketType, NoneAssumption DEF RetractedTicket, TicketRecord
    <2> HIDE DEF expired, t
    <2>5. \A j \in IntentKey : IntentHonoured(j)
        BY <2>1, <2>2, <2>3, NoneAssumption DEF IntentHonoured, OnlyIntent
    <2> QED BY <2>2, <2>4, <2>5 DEF Untouched, OnlyTicket
<1> QED BY <1>1, <1>2, <1>3, SameUntouched DEF Elsewhere

---------------------------------------------------------------------------
(* The ticket a step is about *)

(* An owner who presented keeps the ticket.                                *)
LEMMA PresenterStays ==
    ASSUME TypeOK, FormEvents, Promised, [Next]_vars,
           NEW t \in TicketKey, ticket[t] # None, Details.check_in_start_at <= now
    PROVE  ticket'[t] # None /\ ticket'[t].owner = ticket[t].owner
<1>1. ticket[t] \in TicketRecord /\ ticket[t].event \in EventKey
    BY DEF TypeOK, StateTypeOK, TicketRecord
<1>2. event[ticket[t].event].details = Details
    BY <1>1 DEF FormEvents
<1>3. Details.check_in_start_at \in Nat /\ now \in Nat
    BY WebAssumption, InputAssumption DEF EventDetails, TypeOK, StateTypeOK
<1>4. ~OpenTransfer(t)
    BY <1>2, <1>3 DEF OpenTransfer
<1> QED BY <1>4, TicketsStay, TransferStep DEF Promised

(* A presentation that executes opens the intent its pass names, for the   *)
(* owner of the ticket.                                                    *)
LEMMA PresentOpens ==
    ASSUME TypeOK, FormEvents, NEW op \in Operation, NEW view, Made(op, view),
           op.kind = "presentCheckInCore", Apply(op)
    PROVE  /\ op.intent \in IntentKey /\ op.intent[1] = op.ticket
           /\ OnlyIntent(op.intent)
           /\ intent[op.intent] = None /\ intent'[op.intent] # None
           /\ intent'[op.intent].ticket = op.ticket
           /\ intent'[op.intent].holder = op.signer
           /\ intent'[op.intent].expires_at = op.expires_at
           /\ intent'[op.intent].status = "Pending"
           /\ ticket[op.ticket] # None /\ ticket[op.ticket].owner = op.signer
           /\ Details.check_in_start_at <= now
           /\ UNCHANGED now
<1>1. /\ OpenIntent(op.signer, op.event, op.ticket, op.intent[2], op.expires_at)
      /\ op.intent = <<op.ticket, op.intent[2]>> /\ op.ticket \in TicketKey
      /\ op.intent[2] \in Nat /\ op \in PresentRequest
    BY Kinds, AddressNamed DEF Apply, PresentCheckInCore, PresentRequest
<1>2. op.intent \in IntentKey
    BY <1>1, WidthsNat DEF OpenIntent, PresentGuard, IntentKey
<1> DEFINE new == [ticket |-> op.ticket, event |-> op.event, holder |-> op.signer,
                   expires_at |-> op.expires_at, status |-> "Pending",
                   consumed_at |-> None, staff |-> None]
<1>3. intent'[op.intent] = new /\ OnlyIntent(op.intent)
    BY <1>1, <1>2 DEF OpenIntent, OnlyIntent, TypeOK, StateTypeOK
<1>4. new \in CheckInIntent
    BY <1>1 DEF PresentRequest, CheckInIntent
<1>5. /\ intent[op.intent] = None /\ UNCHANGED now
      /\ ticket[op.ticket] # None /\ ticket[op.ticket].owner = op.signer
      /\ Details.check_in_start_at <= now
    BY <1>1 DEF OpenIntent, PresentGuard, TicketOfEvent, CheckInOpen, FormEvents,
                PresentRequest
<1> QED BY <1>1, <1>2, <1>3, <1>4, <1>5, NoneAssumption

(* Nothing else a page sends touches an intent.                            *)
LEMMA OthersHonour ==
    ASSUME NEW op \in Operation, op.kind # "presentCheckInCore", Apply(op)
    PROVE  UNCHANGED <<intent, now>>
BY DEF Apply, PublishEvent, PublishEffect, AddTier, AuthorizeStaff, circulationVars,
       PrimaryPurchaseCore, SellTicket, BuyResaleCore, GiftTicketCore, ListTicketCore,
       OpenListing, CancelListingCore, WithdrawListing

(* Its transaction finds or makes a ticket, counts on, and opens no        *)
(* listing its counter has not passed.  Only trades change the owner.      *)
LEMMA CountersGrow ==
    ASSUME TypeOK, NEW op \in Operation, NEW view, Made(op, view), Waits(op), Apply(op)
    PROVE  /\ op.ticket \in TicketKey
           /\ ticket[op.ticket] # None =>
                 /\ ticket'[op.ticket].next_listing_id >= ticket[op.ticket].next_listing_id
                 /\ ticket'[op.ticket].next_intent_nonce
                       >= ticket[op.ticket].next_intent_nonce
                 /\ ~Trades(op) => ticket'[op.ticket].owner = ticket[op.ticket].owner
           /\ \A l \in ListingKey : (l[1] = op.ticket /\ listing'[l] # None) =>
                 \/ listing[l] # None
                 \/ ticket[op.ticket] # None /\ l[2] < ticket'[op.ticket].next_listing_id
           /\ op.kind = "presentCheckInCore" =>
                 op.intent[2] < ticket'[op.ticket].next_intent_nonce
<1> DEFINE t == op.ticket
<1>1. CASE op.kind = "primaryPurchaseCore"
    <2>1. /\ PrimaryPurchaseCore(op.signer, op.event, op.tier, op.ticket[2])
          /\ op.ticket = <<op.event, op.ticket[2]>> /\ op.event \in EventKey
          /\ op.ticket[2] \in Nat
        BY <1>1, Kinds, AddressNamed DEF Apply, PurchaseRequest
    <2>2. t \in TicketKey /\ ticket[t] = None /\ UNCHANGED listing
        BY <2>1, WidthsNat DEF PrimaryPurchaseCore, SellTicket, SaleGuard, TicketKey
    <2> QED BY <1>1, <2>2
<1>2. ASSUME op.kind # "primaryPurchaseCore"
      PROVE  t \in TicketKey /\
             (ticket[t] # None =>
                /\ ticket[t] \in TicketRecord
                /\ ticket[t].next_listing_id \in Nat /\ ticket[t].next_intent_nonce \in Nat)
    <2>1. t \in TicketKey
        BY <1>2, Kinds DEF Waits, Claims, ResaleRequest, GiftRequest, ListRequest,
                           CancelRequest, PresentRequest
    <2> QED BY <2>1, WidthsNat DEF TypeOK, StateTypeOK, TicketRecord
<1>3. CASE op.kind = "giftTicketCore"
    <2>1. /\ UNCHANGED listing
          /\ ticket' = [ticket EXCEPT ![t] = TransferTicketOwner(@, op.recipient)]
        BY <1>3 DEF Apply, GiftTicketCore
    <2>2. ticket[t] # None =>
            /\ ticket'[t].next_listing_id = ticket[t].next_listing_id
            /\ ticket'[t].next_intent_nonce = ticket[t].next_intent_nonce
        BY <1>2, <1>3, <2>1 DEF TransferTicketOwner, TicketRecord, TypeOK, StateTypeOK
    <2> QED BY <1>2, <1>3, <2>1, <2>2 DEF Trades
<1>4. CASE op.kind = "buyResaleCore"
    <2>1. /\ ticket' = [ticket EXCEPT ![t] =
                          UnlistedTicket(TransferTicketOwner(@, op.signer))]
          /\ listing[op.listing] # None
          /\ \A l \in ListingKey : l # op.listing => listing'[l] = listing[l]
        BY <1>4 DEF Apply, BuyResaleCore, FillListing, ResaleGuard, BuyResaleAccounts,
                    TypeOK, StateTypeOK
    <2>2. ticket[t] # None =>
            /\ ticket'[t].next_listing_id = ticket[t].next_listing_id
            /\ ticket'[t].next_intent_nonce = ticket[t].next_intent_nonce
        BY <1>2, <1>4, <2>1
           DEF TransferTicketOwner, UnlistedTicket, TicketRecord, TypeOK, StateTypeOK
    <2> QED BY <1>2, <1>4, <2>1, <2>2 DEF Trades
<1>5. CASE op.kind = "cancelListingCore"
    <2>1. /\ ticket' = [ticket EXCEPT ![t] = UnlistedTicket(@)]
          /\ listing[op.listing] # None
          /\ \A l \in ListingKey : l # op.listing => listing'[l] = listing[l]
        BY <1>5 DEF Apply, CancelListingCore, WithdrawListing, WithdrawGuard,
                    CancelListingAccounts, TypeOK, StateTypeOK
    <2>2. ticket[t] # None =>
            /\ ticket'[t].next_listing_id = ticket[t].next_listing_id
            /\ ticket'[t].next_intent_nonce = ticket[t].next_intent_nonce
            /\ ticket'[t].owner = ticket[t].owner
        BY <1>2, <1>5, <2>1 DEF UnlistedTicket, TicketRecord, TypeOK, StateTypeOK
    <2> QED BY <1>2, <1>5, <2>1, <2>2
<1>6. CASE op.kind = "listTicketCore"
    <2>1. /\ OpenListing(op.signer, op.event, op.ticket, op.listing[2], op.price,
                         op.expires_at)
          /\ op.listing = <<op.ticket, op.listing[2]>>
        BY <1>6, Kinds, AddressNamed DEF Apply, ListTicketCore
    <2>2. /\ ticket' = [ticket EXCEPT ![t] = ListedTicket(@)]
          /\ ticket[t] # None /\ op.listing[2] = ticket[t].next_listing_id
          /\ \A l \in ListingKey : l # op.listing => listing'[l] = listing[l]
        BY <2>1 DEF OpenListing, ListingGuard, TicketOfEvent, TypeOK, StateTypeOK
    <2>3. /\ ticket'[t].next_listing_id = ticket[t].next_listing_id + 1
          /\ ticket'[t].next_intent_nonce = ticket[t].next_intent_nonce
          /\ ticket'[t].owner = ticket[t].owner
        BY <1>2, <1>6, <2>2 DEF ListedTicket, TicketRecord, TypeOK, StateTypeOK
    <2> QED BY <1>2, <1>6, <2>2, <2>3
<1>7. CASE op.kind = "presentCheckInCore"
    <2>1. /\ OpenIntent(op.signer, op.event, op.ticket, op.intent[2], op.expires_at)
          /\ op.intent = <<op.ticket, op.intent[2]>>
        BY <1>7, Kinds, AddressNamed DEF Apply, PresentCheckInCore
    <2>2. /\ ticket' = [ticket EXCEPT ![t] = PresentedTicket(@, op.intent)]
          /\ ticket[t] # None /\ op.intent[2] = ticket[t].next_intent_nonce
          /\ UNCHANGED listing
        BY <2>1 DEF OpenIntent, PresentGuard, TicketOfEvent
    <2>3. /\ ticket'[t].next_listing_id = ticket[t].next_listing_id
          /\ ticket'[t].next_intent_nonce = ticket[t].next_intent_nonce + 1
          /\ ticket'[t].owner = ticket[t].owner
        BY <1>2, <1>7, <2>2 DEF PresentedTicket, TicketRecord, TypeOK, StateTypeOK
    <2> QED BY <1>2, <1>7, <2>2, <2>3
<1> QED BY <1>1, <1>3, <1>4, <1>5, <1>6, <1>7, Kinds DEF Waits, Claims

(* The counters stay past what they have numbered: of the ticket a step is *)
(* not about, ...                                                          *)
LEMMA UntouchedNumbers ==
    ASSUME TypeOK, NEW t \in TicketKey, NumbersTaken(t), Untouched(t),
           now' \in Nat, now' >= now
    PROVE  NumbersTaken(t)'
<1>1. now \in Nat /\ Details.check_in_start_at \in Nat
    BY WebAssumption, InputAssumption DEF EventDetails, TypeOK, StateTypeOK
<1>2. ASSUME NEW l \in ListingKey, l[1] = t, listing'[l] # None
      PROVE  ticket'[t] # None /\ l[2] < ticket'[t].next_listing_id
    BY <1>2 DEF NumbersTaken, Untouched
<1>3. ASSUME NEW i \in IntentKey, i[1] = t, intent'[i] # None
      PROVE  /\ ticket'[t] # None /\ i[2] < ticket'[t].next_intent_nonce
             /\ intent'[i].ticket = t /\ intent'[i].holder = ticket'[t].owner
             /\ Details.check_in_start_at <= now'
    <2>1. intent[i] # None /\ IntentHonoured(i)
        BY <1>3 DEF Untouched, IntentHonoured
    <2>2. /\ ticket[t] # None /\ i[2] < ticket[t].next_intent_nonce
          /\ intent[i].ticket = t /\ intent[i].holder = ticket[t].owner
          /\ Details.check_in_start_at <= now
        BY <1>3, <2>1 DEF NumbersTaken
    <2>3. /\ ticket'[t] # None /\ ticket'[t].next_intent_nonce = ticket[t].next_intent_nonce
          /\ ticket'[t].owner = ticket[t].owner
        BY <2>2 DEF Untouched
    <2> QED BY <1>1, <2>1, <2>2, <2>3 DEF IntentHonoured
<1> QED BY <1>2, <1>3 DEF NumbersTaken

(* ... and of the ticket it is about.                                      *)
LEMMA ServedNumbers ==
    ASSUME TypeOK, TypeOK', FormEvents, Promised, [Next]_vars,
           NEW op \in Operation, NEW view, Made(op, view), Waits(op), Apply(op),
           NEW t \in TicketKey, t = op.ticket, NumbersTaken(t)
    PROVE  NumbersTaken(t)'
<1>1. /\ ticket[t] # None =>
            /\ ticket'[t] # None
            /\ ticket'[t].next_listing_id >= ticket[t].next_listing_id
            /\ ticket'[t].next_intent_nonce >= ticket[t].next_intent_nonce
            /\ {ticket[t].next_listing_id, ticket'[t].next_listing_id,
                ticket[t].next_intent_nonce, ticket'[t].next_intent_nonce} \subseteq Nat
      /\ \A l \in ListingKey : (l[1] = t /\ listing'[l] # None) =>
            \/ listing[l] # None
            \/ ticket[t] # None /\ l[2] < ticket'[t].next_listing_id
    <2>1. ticket[t] # None => ticket'[t] # None
        BY TicketsStay
    <2>2. ticket[t] # None => ticket[t] \in TicketRecord /\ ticket'[t] \in TicketRecord
        BY <2>1 DEF TypeOK, StateTypeOK
    <2> QED BY <2>1, <2>2, CountersGrow, WidthsNat DEF TicketRecord
<1>2. ASSUME NEW l \in ListingKey, l[1] = t, listing'[l] # None
      PROVE  ticket'[t] # None /\ l[2] < ticket'[t].next_listing_id
    <2>1. l[2] \in Nat
        BY WidthsNat DEF ListingKey
    <2> QED BY <1>1, <1>2, <2>1 DEF NumbersTaken
<1>3. ASSUME NEW i \in IntentKey, i[1] = t, intent'[i] # None
      PROVE  /\ ticket'[t] # None /\ i[2] < ticket'[t].next_intent_nonce
             /\ intent'[i].ticket = t /\ intent'[i].holder = ticket'[t].owner
             /\ Details.check_in_start_at <= now'
    <2>1. i[2] \in Nat /\ UNCHANGED now
        BY WidthsNat, PresentOpens, OthersHonour DEF IntentKey
    <2>2. CASE intent[i] # None
        <3>1. /\ ticket[t] # None /\ i[2] < ticket[t].next_intent_nonce
              /\ intent[i].ticket = t /\ intent[i].holder = ticket[t].owner
              /\ Details.check_in_start_at <= now
            BY <1>3, <2>2 DEF NumbersTaken
        <3>2. ticket'[t].owner = ticket[t].owner
            BY <3>1, PresenterStays
        <3>3. intent'[i] = intent[i]
            BY <2>2, PresentOpens, OthersHonour DEF OnlyIntent
        <3> QED BY <1>1, <2>1, <3>1, <3>2, <3>3
    <2>3. CASE intent[i] = None
        <3>1. op.kind = "presentCheckInCore" /\ i = op.intent
            BY <1>3, <2>3, PresentOpens, OthersHonour DEF OnlyIntent
        <3>2. /\ intent'[i].ticket = t /\ intent'[i].holder = op.signer
              /\ ticket[t] # None /\ ticket[t].owner = op.signer
              /\ Details.check_in_start_at <= now
            BY <3>1, PresentOpens
        <3>3. ticket'[t].owner = ticket[t].owner
            BY <3>2, PresenterStays
        <3> QED BY <1>1, <2>1, <3>1, <3>2, <3>3, CountersGrow
    <2> QED BY <2>2, <2>3
<1> QED BY <1>2, <1>3 DEF NumbersTaken

---------------------------------------------------------------------------
(* The steps of the chain *)

(* What was asked, and what succeeded, stays.                              *)
SentGrows ==
    /\ Len(sent) \in Nat /\ Len(sent') \in Nat /\ Len(sent) <= Len(sent')
    /\ \A s \in 1 .. Len(sent) :
          /\ sent'[s].op = sent[s].op /\ sent'[s].view = sent[s].view
          /\ Succeeded(s) => sent'[s] = sent[s]

(* So no transaction on a ticket is forgotten, ...                         *)
LEMMA TouchesStay ==
    ASSUME SentGrows, NEW t, NEW p
    PROVE  (Touched(t, p) => Touched(t, p)') /\ (Traded(t, p) => Traded(t, p)')
<1>1. ASSUME NEW r \in 1 .. Len(sent), Succeeded(r)
      PROVE  r \in 1 .. Len(sent') /\ sent'[r] = sent[r] /\ Succeeded(r)'
    BY <1>1 DEF SentGrows, Succeeded
<1> QED BY <1>1 DEF Touched, Traded

(* ... and a wait once explained stays so.                                 *)
LEMMA ExplainedStays ==
    ASSUME IInv, SentGrows, Extends, NEW s \in 1 .. Len(sent), Explained(s)
    PROVE  Explained(s)'
<1>1. sent'[s].op = sent[s].op /\ sent'[s].view = sent[s].view
    BY DEF SentGrows
<1>2. ReadAt(s)' = ReadAt(s)
    BY <1>1 DEF ReadAt
<1>3. CASE Touched(sent[s].op.ticket, ReadAt(s))
    <2>1. PICK t, p : t = sent[s].op.ticket /\ p = ReadAt(s)
        OBVIOUS
    <2>2. Touched(t, p)'
        BY <1>3, <2>1, TouchesStay
    <2> QED BY <1>1, <1>2, <2>1, <2>2 DEF Explained, Touched
<1>4. CASE AlreadySo(s)
    <2>1. ledger'[sent[s].view.ticket] = ledger[sent[s].view.ticket]
        BY DEF IInv, RequestsMade, Made, Extends
    <2> QED BY <1>1, <1>4, <2>1 DEF Explained, AlreadySo, SeenTicket
<1> QED BY <1>3, <1>4 DEF Explained

TouchedNow(t) == \A p \in 1 .. Latest : Touched(t, p)'
TradedNow(t) == \A p \in 1 .. Latest : Traded(t, p)'

OwnerKept(t) ==
    ticket[t] # None => ticket'[t] # None /\ ticket'[t].owner = ticket[t].owner

(* What pages remember stays true, or the pages' own transactions show     *)
(* why not; and what the new position of the ledger says is so now.        *)
LEMMA HistoryStep ==
    ASSUME IInv, Remembered, TypeOK', CancelledWithoutTickets', SentGrows,
           UNCHANGED ledger \/ Recorded,
           \A t \in TicketKey :
              (Untouched(t) \/ TouchedNow(t)) /\ (OwnerKept(t) \/ TradedNow(t))
    PROVE  Remembered'
<1>1. Extends /\ Latest \in Nat
    BY Extending, LenProperties DEF IInv, PagesTypeOK, Latest
<1>2. ASSUME NEW p \in 1 .. Latest, NEW t \in TicketKey
      PROVE  /\ Touched(t, p)' \/ SameSince(p, t)'
             /\ Traded(t, p)' \/ OwnerSince(p, t)'
             /\ ledger'[p].ticket[t] # None =>
                   t[2] < ledger'[p].event[t[1]].next_ticket_id
    <2>1. ledger'[p] = ledger[p]
        BY <1>1 DEF Extends
    <2>2. (Touched(t, p) => Touched(t, p)') /\ (Traded(t, p) => Traded(t, p)')
        BY TouchesStay
    <2>3. /\ Touched(t, p) \/ SameSince(p, t)
          /\ Traded(t, p) \/ OwnerSince(p, t)
          /\ ledger[p].ticket[t] # None => t[2] < ledger[p].event[t[1]].next_ticket_id
        BY DEF Remembered
    <2>4. Touched(t, p)' \/ SameSince(p, t)'
        <3>1. SUFFICES ASSUME ~Touched(t, p)'
                       PROVE  SameSince(p, t)'
            OBVIOUS
        <3>2. SameSince(p, t) /\ Untouched(t)
            BY <2>2, <2>3, <3>1 DEF TouchedNow
        <3> QED BY <2>1, <3>2 DEF SameSince, Untouched
    <2>5. Traded(t, p)' \/ OwnerSince(p, t)'
        <3>1. SUFFICES ASSUME ~Traded(t, p)'
                       PROVE  OwnerSince(p, t)'
            OBVIOUS
        <3>2. OwnerSince(p, t) /\ OwnerKept(t)
            BY <2>2, <2>3, <3>1 DEF TradedNow
        <3> QED BY <2>1, <3>2 DEF OwnerSince, OwnerKept
    <2> QED BY <2>1, <2>3, <2>4, <2>5
<1>3. ASSUME Recorded, NEW p, p = Latest + 1, NEW t \in TicketKey
      PROVE  /\ SameSince(p, t)' /\ OwnerSince(p, t)'
             /\ ledger'[p].ticket[t] # None =>
                   t[2] < ledger'[p].event[t[1]].next_ticket_id
    <2>1. ledger'[p] = Snapshot'
        BY <1>3, Recording DEF IInv
    <2>2. ledger'[p].ticket[t] = ticket'[t] /\ ledger'[p].event = event'
        BY <2>1 DEF Snapshot
    <2>3. SameSince(p, t)' /\ OwnerSince(p, t)'
        BY <2>2 DEF SameSince, OwnerSince
    <2>4. ticket'[t] # None => t[2] < event'[t[1]].next_ticket_id
        BY DEF CancelledWithoutTickets, TicketIssued
    <2> QED BY <2>2, <2>3, <2>4
<1>4. CASE UNCHANGED ledger
    BY <1>2, <1>4 DEF Remembered, Latest
<1>5. CASE Recorded
    <2>1. Latest' = Latest + 1
        BY <1>5, Recording DEF IInv
    <2>2. \A p \in 1 .. Latest' : p \in 1 .. Latest \/ p = Latest + 1
        BY <1>1, <2>1
    <2> QED BY <1>2, <1>3, <1>5, <2>2 DEF Remembered
<1> QED BY <1>4, <1>5

(* A request to present is typed as one, and names an intent of its        *)
(* ticket.                                                                 *)
LEMMA PresentTyped ==
    ASSUME IInv, NEW s \in 1 .. Len(sent), sent[s].op.kind = "presentCheckInCore"
    PROVE  /\ Waits(sent[s].op) /\ sent[s].op \in PresentRequest
           /\ sent[s].op.intent[1] = sent[s].op.ticket
           /\ sent[s].op.ticket \in TicketKey /\ sent[s].op.expires_at \in Nat
<1>1. sent[s].op \in Operation /\ Made(sent[s].op, sent[s].view)
    BY RequestTyped DEF IInv, RequestsMade
<1> QED BY <1>1, Kinds, AddressNamed DEF Waits, PresentRequest

(* What is true of a presentation stays so while its intent is honoured.   *)
LEMMA PresentationKept ==
    ASSUME IInv, SentGrows, now' \in Nat, now' >= now,
           NEW s \in 1 .. Len(sent), sent[s].op.kind = "presentCheckInCore",
           PresentationTrue(s),
           sent[s].op.intent \in IntentKey => IntentHonoured(sent[s].op.intent),
           Succeeded(s)' => Succeeded(s), s \in done' => s \in done
    PROVE  PresentationTrue(s)'
<1> DEFINE op == sent[s].op
           i == op.intent
<1>1. sent'[s].op = op /\ op.expires_at \in Nat /\ now \in Nat
    BY PresentTyped DEF SentGrows, IInv, PagesTypeOK, TypeOK, StateTypeOK
<1>2. SUFFICES ASSUME Succeeded(s) \/ s \in done
               PROVE  /\ i \in IntentKey /\ intent'[i] # None
                      /\ Succeeded(s) =>
                            /\ intent'[i].holder = op.signer
                            /\ intent'[i].expires_at = op.expires_at
                            /\ now' < op.expires_at =>
                                  intent'[i].status \in {"Pending", "Consumed"}
    BY <1>1 DEF PresentationTrue
<1>3. i \in IntentKey /\ intent[i] # None /\ IntentHonoured(i)
    BY <1>2 DEF PresentationTrue
<1>4. ASSUME Succeeded(s)
      PROVE  /\ intent'[i].holder = op.signer
             /\ intent'[i].expires_at = op.expires_at
             /\ now' < op.expires_at => intent'[i].status \in {"Pending", "Consumed"}
    <2>1. /\ intent[i].holder = op.signer /\ intent[i].expires_at = op.expires_at
          /\ now < op.expires_at => intent[i].status \in {"Pending", "Consumed"}
        BY <1>4 DEF PresentationTrue
    <2>2. /\ intent'[i].holder = op.signer /\ intent'[i].expires_at = op.expires_at
          /\ intent'[i].status \in {intent[i].status, "Consumed"} \/ now >= op.expires_at
        BY <1>3, <2>1 DEF IntentHonoured
    <2> QED BY <1>1, <2>1, <2>2
<1> QED BY <1>3, <1>4 DEF IntentHonoured

(* Nothing was announced of what was not sent.                             *)
AnnouncedSent == done \subseteq 1 .. Len(sent)

(* The steps in which no page's transaction executes or is announced, and  *)
(* that are about no ticket.                                               *)
LEMMA QuietAgrees ==
    ASSUME IInv, TypeOK', Promised, Promised', ChainAgrees, AnnouncedSent,
           SentGrows, NothingServed, UNCHANGED done, UNCHANGED ledger \/ Recorded,
           now' \in Nat, now' >= now, \A t \in TicketKey : Untouched(t)
    PROVE  ChainAgrees'
<1>1. Extends /\ TypeOK
    BY Extending DEF IInv, PagesTypeOK
<1>2. Remembered'
    <2>1. \A t \in TicketKey : OwnerKept(t)
        BY DEF Untouched, OwnerKept
    <2> QED BY <2>1, HistoryStep DEF ChainAgrees, Promised
<1>3. \A t \in TicketKey : NumbersTaken(t)'
    BY <1>1, UntouchedNumbers DEF ChainAgrees
<1>4. ASSUME NEW s \in done', Waits(sent'[s].op)
      PROVE  Explained(s)'
    <2>1. s \in 1 .. Len(sent) /\ s \in done /\ sent'[s].op = sent[s].op
        BY <1>4 DEF AnnouncedSent, SentGrows
    <2>2. Explained(s)
        BY <1>4, <2>1 DEF ChainAgrees, WaitsExplained
    <2> QED BY <1>1, <2>1, <2>2, ExplainedStays
<1>5. ASSUME NEW s \in 1 .. Len(sent'), sent'[s].op.kind = "presentCheckInCore"
      PROVE  PresentationTrue(s)'
    <2>1. CASE s \in 1 .. Len(sent)
        <3>1. sent[s].op.kind = "presentCheckInCore"
            BY <1>5, <2>1 DEF SentGrows
        <3>2. sent[s].op.intent \in IntentKey => IntentHonoured(sent[s].op.intent)
            BY <2>1, <3>1, PresentTyped DEF Untouched
        <3>3. Succeeded(s)' => Succeeded(s)
            BY <2>1 DEF NothingServed, Succeeded, SentGrows
        <3>4. PresentationTrue(s)
            BY <2>1, <3>1 DEF ChainAgrees, PresentationsTrue
        <3> QED BY <2>1, <3>1, <3>2, <3>3, <3>4, PresentationKept
    <2>2. CASE s \notin 1 .. Len(sent)
        BY <2>2, <1>5 DEF NothingServed, AnnouncedSent, PresentationTrue, Succeeded
    <2> QED BY <2>1, <2>2
<1> QED BY <1>2, <1>3, <1>4, <1>5 DEF ChainAgrees, WaitsExplained, PresentationsTrue

(* A transaction that executes is marked so, and nothing else in `sent`    *)
(* changes.                                                                *)
LEMMA Serving ==
    ASSUME IInv, NEW s \in 1 .. Len(sent), Execute(s)
    PROVE  /\ SentGrows /\ Len(sent') = Len(sent)
           /\ Succeeded(s)' /\ ~Succeeded(s)
           /\ sent'[s].op = sent[s].op
           /\ sent'[s].at = Latest + 1 /\ Latest \in Nat
           /\ \A r \in 1 .. Len(sent) : r # s => sent'[r] = sent[r]
<1> DEFINE served == [sent[s] EXCEPT !.status = "succeeded", !.at = Latest + 1]
<1>1. sent[s] \in Transaction /\ Latest \in Nat /\ Len(sent) \in Nat
    BY RequestTyped, LenProperties DEF IInv, PagesTypeOK, Latest
<1>2. served \in Transaction /\ served.status = "succeeded" /\ served.at = Latest + 1
      /\ served.op = sent[s].op /\ served.view = sent[s].view
    <2>1. sent[s] \in Transaction /\ Latest + 1 \in Nat
        BY <1>1
    <2> QED BY <2>1 DEF Transaction
<1>3. sent' = [sent EXCEPT ![s] = served]
    BY LenProperties DEF Execute, IInv, PagesTypeOK
<1> HIDE DEF served
<1>4. /\ Len(sent') = Len(sent) /\ sent'[s] = served
      /\ \A r \in 1 .. Len(sent) : r # s => sent'[r] = sent[r]
    BY <1>2, <1>3, ExceptSeq DEF IInv, PagesTypeOK
<1> QED BY <1>1, <1>2, <1>4 DEF SentGrows, Succeeded, Execute

(* A transaction of a holder marks its ticket, from whatever was read; one *)
(* that changes the owner marks that too.                                  *)
LEMMA ServedMarks ==
    ASSUME IInv, TypeOK', Promised, [Next]_vars, NEW r \in 1 .. Len(sent), Execute(r),
           NEW t \in TicketKey
    PROVE  /\ Untouched(t) \/ (TouchedNow(t) /\ t = sent[r].op.ticket /\ Waits(sent[r].op))
           /\ OwnerKept(t) \/ TradedNow(t)
<1> DEFINE op == sent[r].op
<1>1. /\ Len(sent') = Len(sent) /\ Succeeded(r)' /\ sent'[r].op = op
      /\ sent'[r].at = Latest + 1 /\ Latest \in Nat
    BY Serving
<1>2. op \in Operation /\ Made(op, sent[r].view) /\ Apply(op) /\ TypeOK
    BY RequestTyped DEF IInv, PagesTypeOK, RequestsMade, Execute
<1>3. Untouched(t) => OwnerKept(t)
    BY DEF Untouched, OwnerKept
<1>4. CASE ~Waits(op)
    <2>1. UNCHANGED <<ticket, listing, intent>>
        BY <1>2, <1>4, OrganizerApply
    <2> QED BY <1>3, <2>1, SameUntouched
<1>5. CASE Waits(op) /\ t # op.ticket
    BY <1>2, <1>3, <1>5, ApplyElsewhere
<1>6. CASE Waits(op) /\ t = op.ticket
    <2>1. \A p \in 1 .. Latest : sent'[r].at > p
        BY <1>1
    <2>2. TouchedNow(t)
        BY <1>1, <1>6, <2>1 DEF TouchedNow, Touched
    <2>3. Trades(op) => TradedNow(t)
        BY <1>1, <1>6, <2>1 DEF TradedNow, Traded
    <2>4. ~Trades(op) => OwnerKept(t)
        BY <1>2, <1>6, CountersGrow, TicketsStay DEF OwnerKept
    <2> QED BY <1>6, <2>2, <2>3, <2>4
<1> QED BY <1>4, <1>5, <1>6

(* When a transaction executes, what pages knew of its ticket is marked as *)
(* past, and a pass for its intent is true.                                *)
LEMMA ExecuteAgrees ==
    ASSUME IInv, TypeOK', Promised, Promised', ChainAgrees, AnnouncedSent, [Next]_vars,
           NEW r \in 1 .. Len(sent), Execute(r)
    PROVE  ChainAgrees'
<1> DEFINE op == sent[r].op
<1>1. /\ SentGrows /\ Len(sent') = Len(sent) /\ Succeeded(r)' /\ ~Succeeded(r)
      /\ sent'[r].op = op
      /\ \A s \in 1 .. Len(sent) : s # r => sent'[s] = sent[s]
    BY Serving
<1>2. /\ op \in Operation /\ Made(op, sent[r].view) /\ Apply(op)
      /\ Recorded /\ UNCHANGED done
    BY RequestTyped DEF IInv, RequestsMade, Execute, pageVars
<1>3. TypeOK /\ FormEvents /\ Extends
    BY <1>2, Extending DEF IInv, PagesTypeOK, ChainOK
<1>4. UNCHANGED now /\ now \in Nat /\ now' \in Nat /\ now' >= now
    <2>1. UNCHANGED now
        BY <1>2, <1>3, PresentOpens, OthersHonour
    <2> QED BY <1>3, <2>1 DEF TypeOK, StateTypeOK
<1>5. Remembered'
    BY <1>1, <1>2, ServedMarks, HistoryStep DEF ChainAgrees, Promised
<1>6. ASSUME NEW t \in TicketKey
      PROVE  NumbersTaken(t)'
    <2>1. NumbersTaken(t)
        BY DEF ChainAgrees
    <2>2. CASE Untouched(t)
        BY <1>3, <1>4, <2>1, <2>2, UntouchedNumbers
    <2>3. CASE Waits(op) /\ t = op.ticket
        BY <1>2, <1>3, <2>1, <2>3, ServedNumbers
    <2> QED BY <2>2, <2>3, ServedMarks
<1>7. ASSUME NEW s \in done', Waits(sent'[s].op)
      PROVE  Explained(s)'
    <2>1. s \in 1 .. Len(sent) /\ s \in done /\ sent'[s].op = sent[s].op
        BY <1>1, <1>2, <1>7 DEF AnnouncedSent, SentGrows
    <2>2. Explained(s)
        BY <1>7, <2>1 DEF ChainAgrees, WaitsExplained
    <2> QED BY <1>1, <1>3, <2>1, <2>2, ExplainedStays
<1>8. ASSUME NEW s \in 1 .. Len(sent'), sent'[s].op.kind = "presentCheckInCore"
      PROVE  PresentationTrue(s)'
    <2>1. s \in 1 .. Len(sent) /\ sent[s].op.kind = "presentCheckInCore"
        BY <1>1, <1>8 DEF SentGrows
    <2>2. PresentationTrue(s)
        BY <2>1 DEF ChainAgrees, PresentationsTrue
    <2>3. CASE s = r
        <3>1. /\ op.intent \in IntentKey /\ intent'[op.intent] # None
              /\ intent'[op.intent].holder = op.signer
              /\ intent'[op.intent].expires_at = op.expires_at
              /\ intent'[op.intent].status = "Pending"
            BY <1>2, <1>3, <2>1, <2>3, PresentOpens
        <3> QED BY <1>1, <2>3, <3>1 DEF PresentationTrue
    <2>4. CASE s # r /\ op.kind = "presentCheckInCore" /\ op.intent = sent[s].op.intent
        <3>1. intent[sent[s].op.intent] = None
            BY <1>2, <1>3, <2>4, PresentOpens
        <3>2. ~Succeeded(s) /\ s \notin done
            BY <2>2, <3>1 DEF PresentationTrue
        <3>3. ~Succeeded(s)' /\ s \notin done'
            BY <1>1, <1>2, <2>1, <2>4, <3>2 DEF Succeeded
        <3> QED BY <3>3 DEF PresentationTrue
    <2>5. CASE s # r /\ ~(op.kind = "presentCheckInCore" /\ op.intent = sent[s].op.intent)
        <3>1. UNCHANGED intent \/ (OnlyIntent(op.intent) /\ op.intent # sent[s].op.intent)
            BY <1>2, <1>3, <2>5, PresentOpens, OthersHonour
        <3>2. sent[s].op.intent \in IntentKey => IntentHonoured(sent[s].op.intent)
            BY <3>1 DEF OnlyIntent, IntentHonoured
        <3>3. Succeeded(s)' => Succeeded(s)
            BY <1>1, <2>1, <2>5 DEF Succeeded
        <3> QED BY <1>1, <1>2, <1>4, <2>1, <2>2, <3>2, <3>3, PresentationKept
    <2> QED BY <2>3, <2>4, <2>5
<1> QED BY <1>5, <1>6, <1>7, <1>8 DEF ChainAgrees, WaitsExplained, PresentationsTrue

(* A click adds one request, after those that were made.                   *)
LEMMA Asking ==
    ASSUME IInv, NEW op \in Operation, NEW view \in View, Asked(op, view)
    PROVE  /\ Len(sent) \in Nat /\ Len(sent') = Len(sent) + 1
           /\ \A s \in 1 .. Len(sent) : sent'[s] = sent[s]
           /\ sent'[Len(sent) + 1].op = op /\ sent'[Len(sent) + 1].status = "flight"
           /\ \A s \in 1 .. Len(sent') : s \in 1 .. Len(sent) \/ s = Len(sent) + 1
           /\ SentGrows /\ NothingServed
<1> DEFINE request == [op |-> op, view |-> view, status |-> "flight", at |-> None]
<1>1. request \in Transaction /\ request.op = op /\ request.status = "flight"
    BY DEF Transaction
<1>2. /\ sent' \in Seq(Transaction) /\ Len(sent') = Len(sent) + 1 /\ Len(sent) \in Nat
      /\ \A s \in 1 .. Len(sent) : sent'[s] = sent[s]
      /\ sent'[Len(sent) + 1] = request
    <2> HIDE DEF request
    <2> QED BY <1>1, AppendProperties, LenProperties DEF Asked, IInv, PagesTypeOK, request
<1> HIDE DEF request
<1>3. \A s \in 1 .. Len(sent') : s \in 1 .. Len(sent) \/ s = Len(sent) + 1
    BY <1>2
<1>4. SentGrows
    BY <1>2 DEF SentGrows
<1>5. NothingServed
    BY <1>1, <1>2, <1>3 DEF NothingServed
<1> QED BY <1>1, <1>2, <1>3, <1>4, <1>5

(* A transaction that is lost is marked so, and nothing succeeds.          *)
LEMMA Losing ==
    ASSUME IInv, NEW s \in 1 .. Len(sent), Lose(s)
    PROVE  SentGrows /\ NothingServed
<1> DEFINE lost == [sent[s] EXCEPT !.status = "lost"]
<1>1. sent[s] \in Transaction /\ Len(sent) \in Nat
    BY RequestTyped, LenProperties DEF IInv, PagesTypeOK
<1>2. lost \in Transaction /\ lost.status = "lost" /\ lost.op = sent[s].op
      /\ lost.view = sent[s].view
    BY <1>1 DEF Transaction
<1>3. sent' = [sent EXCEPT ![s] = lost]
    BY LenProperties DEF Lose, IInv, PagesTypeOK
<1> HIDE DEF lost
<1>4. /\ Len(sent') = Len(sent) /\ sent'[s] = lost
      /\ \A r \in 1 .. Len(sent) : r # s => sent'[r] = sent[r]
    BY <1>2, <1>3, ExceptSeq DEF IInv, PagesTypeOK
<1>5. ~Succeeded(s)
    BY DEF Lose, Succeeded
<1> QED BY <1>1, <1>2, <1>4, <1>5 DEF SentGrows, NothingServed, Succeeded

(* What a page announces has landed, so it has a cause.                    *)
LEMMA AnnounceAgrees ==
    ASSUME IInv, Promised, ChainAgrees, NEW s \in 1 .. Len(sent), Landed(sent[s].op),
           done' = done \cup {s}, UNCHANGED <<vars, ledger, sent>>
    PROVE  ChainAgrees'
<1>1. UNCHANGED <<event, ticket, asset, listing, intent, now>>
    BY DEF vars
<1>2. Remembered'
    BY <1>1 DEF ChainAgrees, Remembered, Touched, Traded, SameSince, OwnerSince, Succeeded,
                Latest
<1>3. \A t \in TicketKey : NumbersTaken(t)'
    BY <1>1 DEF ChainAgrees, NumbersTaken
<1>4. ASSUME NEW r \in done', Waits(sent[r].op)
      PROVE  Explained(r)'
    <2>1. Explained(r)
        BY <1>4, LandedSince DEF ChainAgrees, WaitsExplained
    <2> QED BY <2>1 DEF Explained, Touched, AlreadySo, ReadAt, Succeeded, SeenTicket
<1>5. ASSUME NEW r \in 1 .. Len(sent), sent[r].op.kind = "presentCheckInCore"
      PROVE  PresentationTrue(r)'
    <2>1. PresentationTrue(r)
        BY <1>5 DEF ChainAgrees, PresentationsTrue
    <2>2. r = s => sent[r].op.intent \in IntentKey /\ intent[sent[r].op.intent] # None
        BY <1>5 DEF Landed, Exists, IInv, PagesTypeOK, TypeOK, StateTypeOK
    <2> QED BY <1>1, <2>1, <2>2 DEF PresentationTrue, Succeeded
<1> QED BY <1>2, <1>3, <1>4, <1>5 DEF ChainAgrees, WaitsExplained, PresentationsTrue

---------------------------------------------------------------------------
(* The steps of the tabs *)

Screens == BrowserTypeOK /\ JobsTrue /\ PassesRecorded

(* What a tab shows is judged by the requests that were made.              *)
LEMMA ScreensKept ==
    ASSUME Screens, SentGrows, UNCHANGED pageVars
    PROVE  Screens'
<1>1. UNCHANGED <<tab, drawings, storage, evidence, done>>
    BY DEF pageVars
<1>2. BrowserTypeOK' /\ JobsTrue'
    BY <1>1 DEF Screens, BrowserTypeOK, JobsTrue, JobTrue, SentGrows
<1>3. ASSUME NEW p, PassRecorded(p)
      PROVE  PassRecorded(p)' /\ sent'[p.signature].op = sent[p.signature].op
    BY <1>1, <1>3 DEF PassRecorded, SentGrows, Screens, BrowserTypeOK
<1>4. PassesRecorded'
    BY <1>1, <1>3 DEF Screens, PassesRecorded
<1> QED BY <1>2, <1>4 DEF Screens

(* A click starts one job, for the request it made.                        *)
LEMMA ClickScreens ==
    ASSUME IInv, Screens, Clicked
    PROVE  Screens'
<1>1. PICK op \in Operation, view \in View : Asked(op, view)
    BY DEF Clicked
<1>2. /\ Len(sent) \in Nat /\ Len(sent') = Len(sent) + 1
      /\ \A s \in 1 .. Len(sent) : sent'[s] = sent[s]
      /\ sent'[Len(sent) + 1].op = op
    BY <1>1, Asking
<1> DEFINE job == [op |-> op, step |-> "wait", signature |-> Len(sent) + 1]
<1>3. PICK b \in Tab : tab' = [tab EXCEPT ![b].job = job]
    BY <1>1 DEF Asked
<1>4. UNCHANGED <<drawings, storage, evidence, done>>
    BY <1>1 DEF Asked
<1>5. job \in Job /\ job.op = op /\ job.step = "wait" /\ job.signature = Len(sent) + 1
    BY <1>2 DEF Job
<1> HIDE DEF job
<1>6. /\ tab' \in [Tab -> [job : Job \cup {None}, pass : AccessPass \cup {None}]]
      /\ tab'[b].job = job /\ tab'[b].pass = tab[b].pass
      /\ \A c \in Tab \ {b} : tab'[c] = tab[c]
    BY <1>3, <1>5 DEF Screens, BrowserTypeOK
<1>7. BrowserTypeOK'
    BY <1>2, <1>4, <1>6 DEF Screens, BrowserTypeOK
<1>8. ASSUME NEW c \in Tab, tab'[c].job # None
      PROVE  JobTrue(tab[c].job)'
    <2>1. CASE c = b
        BY <1>2, <1>5, <1>6, <2>1 DEF JobTrue
    <2>2. CASE c # b
        <3>1. tab'[c] = tab[c]
            BY <1>6, <2>2
        <3> QED BY <1>2, <1>4, <1>8, <3>1 DEF Screens, JobsTrue, JobTrue
    <2> QED BY <2>1, <2>2
<1>9. ASSUME NEW p, PassRecorded(p)
      PROVE  PassRecorded(p)' /\ sent'[p.signature].op = sent[p.signature].op
    BY <1>2, <1>4, <1>9 DEF PassRecorded, Screens, BrowserTypeOK
<1>10. \A c \in Tab : tab'[c].pass = tab[c].pass
    BY <1>6
<1>11. PassesRecorded'
    BY <1>4, <1>9, <1>10 DEF Screens, PassesRecorded
<1> QED BY <1>7, <1>8, <1>11 DEF Screens, JobsTrue

(* The tabs wait, announce, finish and draw, and send nothing.             *)
LEMMA TabScreens ==
    ASSUME PagesTypeOK, Screens, NEW b \in Tab,
           \/ TimeOut(b) \/ Announce(b) \/ Finish(b) \/ Draw(b) \/ Drawn(b)
    PROVE  Screens'
<1>1. UNCHANGED sent /\ tab[b] \in [job : Job \cup {None}, pass : AccessPass \cup {None}]
    BY DEF TimeOut, Announce, Finish, Draw, Drawn, Screens, BrowserTypeOK
<1>2. ASSUME NEW p, PassRecorded(p), done \subseteq done'
      PROVE  PassRecorded(p)'
    BY <1>1, <1>2 DEF PassRecorded
<1>3. ASSUME NEW job, JobTrue(job), done \subseteq done'
      PROVE  JobTrue(job)'
    BY <1>1, <1>3 DEF JobTrue
<1>4. CASE TimeOut(b)
    <2>1. UNCHANGED <<drawings, storage, evidence, done>>
          /\ tab' = [tab EXCEPT ![b].job = None]
        BY <1>4 DEF TimeOut
    <2>2. /\ tab' \in [Tab -> [job : Job \cup {None}, pass : AccessPass \cup {None}]]
          /\ \A c \in Tab : tab'[c].pass = tab[c].pass
          /\ \A c \in Tab : tab'[c].job \in {tab[c].job, None}
        BY <2>1 DEF Screens, BrowserTypeOK
    <2> QED BY <1>1, <1>2, <1>3, <2>1, <2>2
            DEF Screens, BrowserTypeOK, JobsTrue, PassesRecorded
<1>5. CASE Announce(b)
    <2>1. /\ UNCHANGED <<drawings, storage, evidence>>
          /\ done' = done \cup {tab[b].job.signature} /\ tab[b].job # None
          /\ tab' = [tab EXCEPT ![b].job.step = "refresh"]
        BY <1>5 DEF Announce, Busy
    <2>2. PICK job \in Job : job = tab[b].job /\ JobTrue(job)
        BY <1>1, <2>1 DEF Screens, JobsTrue
    <2> DEFINE next == [job EXCEPT !.step = "refresh"]
    <2>3. /\ next \in Job /\ next.op = job.op /\ next.signature = job.signature
          /\ tab' = [tab EXCEPT ![b].job = next]
        BY <1>1, <2>1, <2>2 DEF Job, Screens, BrowserTypeOK
    <2> HIDE DEF next
    <2>4. /\ tab' \in [Tab -> [job : Job \cup {None}, pass : AccessPass \cup {None}]]
          /\ \A c \in Tab : tab'[c].pass = tab[c].pass
          /\ tab'[b].job = next
          /\ \A c \in Tab \ {b} : tab'[c] = tab[c]
        BY <1>1, <2>1, <2>2, <2>3 DEF Screens, BrowserTypeOK
    <2>5. BrowserTypeOK'
        BY <1>1, <2>1, <2>2, <2>4 DEF Screens, BrowserTypeOK, JobTrue
    <2>6. ASSUME NEW c \in Tab, tab'[c].job # None
          PROVE  JobTrue(tab[c].job)'
        <3>1. CASE c = b
            BY <1>1, <2>1, <2>2, <2>3, <2>4, <3>1 DEF JobTrue
        <3>2. CASE c # b
            <4>1. PICK other : other = tab[c].job
                OBVIOUS
            <4>2. tab'[c].job = other /\ JobTrue(other)
                BY <2>4, <2>6, <3>2, <4>1 DEF Screens, JobsTrue
            <4>3. JobTrue(other)'
                BY <1>3, <2>1, <4>2
            <4> QED BY <4>2, <4>3 DEF JobTrue
        <3> QED BY <3>1, <3>2
    <2>7. JobsTrue'
        BY <2>6 DEF JobsTrue
    <2>8. PassesRecorded'
        BY <1>1, <1>2, <2>1, <2>4 DEF Screens, PassesRecorded
    <2> QED BY <2>5, <2>7, <2>8 DEF Screens
<1>6. CASE Finish(b)
    <2> DEFINE job == tab[b].job
               presented == job.op.kind = "presentCheckInCore"
               pass == IF presented THEN Pass(job) ELSE tab[b].pass
    <2>1. /\ UNCHANGED <<drawings, done>> /\ job # None /\ job.step = "refresh"
          /\ tab' = [tab EXCEPT ![b] = [job |-> None, pass |-> pass]]
          /\ storage' = IF presented THEN Pass(job) ELSE storage
          /\ evidence' = evidence \cup
                (IF presented THEN {[actor |-> job.op.signer, pass |-> Pass(job)]} ELSE {})
        BY <1>6 DEF Finish, Busy
    <2>2. job \in Job /\ JobTrue(job)
        BY <1>1, <2>1 DEF Screens, JobsTrue
    <2>3. ASSUME presented
          PROVE  /\ Pass(job) \in AccessPass /\ PassRecorded(Pass(job))
                 /\ sent[Pass(job).signature].op.signer = job.op.signer
        <3>1. job.op \in PresentRequest /\ job.signature \in Nat
            BY <2>2, <2>3, Kinds DEF Job
        <3>2. Pass(job) \in AccessPass
            BY <3>1 DEF Pass, AccessPass, PresentRequest
        <3> QED BY <2>1, <2>2, <2>3, <3>2 DEF Pass, PassRecorded, JobTrue
    <2>4. pass \in AccessPass \cup {None} /\ (pass # None => PassRecorded(pass))
        BY <1>1, <2>3 DEF Screens, PassesRecorded
    <2> HIDE DEF pass
    <2>5. /\ tab' \in [Tab -> [job : Job \cup {None}, pass : AccessPass \cup {None}]]
          /\ tab'[b].job = None /\ tab'[b].pass = pass
          /\ \A c \in Tab \ {b} : tab'[c] = tab[c]
        BY <2>1, <2>4 DEF Screens, BrowserTypeOK
    <2>6. storage' \in AccessPass \cup {None} /\ (storage' # None => PassRecorded(storage'))
        BY <2>1, <2>3 DEF Screens, BrowserTypeOK, PassesRecorded
    <2>7. \A x \in evidence' :
            PassRecorded(x.pass) /\ x.actor = sent[x.pass.signature].op.signer
        BY <2>1, <2>3 DEF Screens, PassesRecorded
    <2>8. BrowserTypeOK'
        BY <1>1, <2>1, <2>5, <2>6 DEF Screens, BrowserTypeOK
    <2>9. JobsTrue'
        BY <1>1, <2>1, <2>5 DEF Screens, JobsTrue, JobTrue
    <2>10. PassesRecorded'
        BY <1>1, <2>1, <2>4, <2>5, <2>6, <2>7 DEF Screens, PassesRecorded, PassRecorded
    <2> QED BY <2>8, <2>9, <2>10 DEF Screens
<1>7. CASE Draw(b)
    <2>1. /\ UNCHANGED <<tab, storage, evidence, done>> /\ storage # None
          /\ \E w \in Holder, view \in View :
                drawings' = [drawings EXCEPT ![b] =
                               [pass |-> storage, view |-> view, wallet |-> w]]
        BY <1>7, CataloguePast DEF Draw
    <2>2. /\ drawings' \in
                [Tab -> [pass : AccessPass, view : View, wallet : Holder] \cup {None}]
          /\ drawings'[b].pass = storage
          /\ \A c \in Tab \ {b} : drawings'[c] = drawings[c]
        BY <2>1 DEF Screens, BrowserTypeOK
    <2>3. BrowserTypeOK' /\ JobsTrue'
        BY <1>1, <2>1, <2>2 DEF Screens, BrowserTypeOK, JobsTrue, JobTrue
    <2>4. PassesRecorded'
        BY <1>1, <2>1, <2>2 DEF Screens, PassesRecorded, PassRecorded
    <2> QED BY <2>3, <2>4 DEF Screens
<1>8. CASE Drawn(b)
    <2>1. /\ UNCHANGED <<evidence, done>> /\ drawings[b] # None
          /\ drawings' = [drawings EXCEPT ![b] = None]
          /\ \E p \in {drawings[b].pass, None} : tab' = [tab EXCEPT ![b].pass = p]
          /\ storage' \in {storage, None}
        BY <1>8 DEF Drawn
    <2>2. PICK p \in {drawings[b].pass, None} : tab' = [tab EXCEPT ![b].pass = p]
        BY <2>1
    <2>3. drawings[b].pass \in AccessPass /\ PassRecorded(drawings[b].pass)
        BY <2>1 DEF Screens, BrowserTypeOK, PassesRecorded
    <2>4. /\ tab' \in [Tab -> [job : Job \cup {None}, pass : AccessPass \cup {None}]]
          /\ \A c \in Tab : tab'[c].job = tab[c].job
          /\ tab'[b].pass = p /\ \A c \in Tab \ {b} : tab'[c].pass = tab[c].pass
        BY <1>1, <2>2, <2>3 DEF Screens, BrowserTypeOK
    <2>5. /\ drawings' \in
                [Tab -> [pass : AccessPass, view : View, wallet : Holder] \cup {None}]
          /\ \A c \in Tab : drawings'[c] \in {drawings[c], None}
        BY <2>1 DEF Screens, BrowserTypeOK
    <2>6. BrowserTypeOK' /\ JobsTrue'
        BY <1>1, <2>1, <2>4, <2>5 DEF Screens, BrowserTypeOK, JobsTrue, JobTrue
    <2>7. PassesRecorded'
        BY <1>1, <2>1, <2>2, <2>3, <2>4, <2>5 DEF Screens, PassesRecorded, PassRecorded
    <2> QED BY <2>6, <2>7 DEF Screens
<1> QED BY <1>4, <1>5, <1>6, <1>7, <1>8

---------------------------------------------------------------------------
(* The invariant of the browser *)

BrowserInv == Screens /\ ChainAgrees

(* Steps that execute nothing and leave the accounts alone.                *)
LEMMA RestAgrees ==
    ASSUME IInv, TypeOK', Promised, Promised', ChainAgrees, AnnouncedSent,
           UNCHANGED <<done, ledger>>, SentGrows, NothingServed, Tick \/ UNCHANGED vars
    PROVE  ChainAgrees'
<1>1. now \in Nat
    BY DEF IInv, PagesTypeOK, TypeOK, StateTypeOK
<1>2. UNCHANGED <<ticket, asset, listing, intent>> /\ now' \in Nat /\ now' >= now
    BY <1>1 DEF Tick, vars, circulationVars
<1>3. \A t \in TicketKey : Untouched(t)
    BY <1>2, SameUntouched
<1> QED BY <1>2, <1>3, QuietAgrees

(* The invariant of the browser is inductive, beside that of the requests  *)
(* and the promises of the program.                                        *)
LEMMA BrowserStep ==
    ASSUME IInv, Promised, BrowserInv, [PagesNext]_<<vars, webVars>>
    PROVE  BrowserInv'
<1>1. [Next]_vars /\ Screens /\ ChainAgrees /\ PagesTypeOK /\ TypeOK /\ now \in Nat
    BY StepDrives DEF BrowserInv, IInv, PagesTypeOK, TypeOK, StateTypeOK
<1>2. TypeOK' /\ Promised' /\ AnnouncedSent
    BY <1>1, TypeStep, PromisedStep DEF Screens, BrowserTypeOK, AnnouncedSent
<1>3. UNCHANGED sent => SentGrows /\ NothingServed
    BY <1>1, LenProperties DEF SentGrows, NothingServed, PagesTypeOK
<1>4. ASSUME NEW s \in 1 .. Len(sent), Execute(s)
      PROVE  BrowserInv'
    <2>1. SentGrows /\ UNCHANGED pageVars
        BY <1>4, Serving DEF Execute
    <2> QED BY <1>1, <1>2, <1>4, <2>1, ScreensKept, ExecuteAgrees DEF BrowserInv
<1>5. ASSUME NEW s \in 1 .. Len(sent), Lose(s)
      PROVE  BrowserInv'
    <2>1. SentGrows /\ NothingServed
        BY <1>5, Losing
    <2>2. UNCHANGED pageVars /\ UNCHANGED <<done, ledger>> /\ UNCHANGED vars
        BY <1>5 DEF Lose, pageVars
    <2> QED BY <1>1, <1>2, <2>1, <2>2, ScreensKept, RestAgrees DEF BrowserInv
<1>6. CASE Elsewhere
    <2>1. (\A t \in TicketKey : Untouched(t)) /\ now' \in Nat /\ now' >= now
        BY <1>1, <1>6, ElsewhereHonest
    <2>2. /\ UNCHANGED pageVars /\ UNCHANGED done /\ Recorded
          /\ SentGrows /\ NothingServed
        BY <1>3, <1>6 DEF Elsewhere, pageVars
    <2> QED BY <1>1, <1>2, <2>1, <2>2, ScreensKept, QuietAgrees DEF BrowserInv
<1>7. CASE TimePasses \/ UNCHANGED <<vars, webVars>>
    <2>1. /\ Tick \/ UNCHANGED vars
          /\ UNCHANGED pageVars /\ UNCHANGED <<done, ledger>>
          /\ SentGrows /\ NothingServed
        BY <1>3, <1>7 DEF TimePasses, webVars, pageVars
    <2> QED BY <1>1, <1>2, <2>1, ScreensKept, RestAgrees DEF BrowserInv
<1>8. ASSUME NEW b \in Tab,
             \/ ManageEvent(b) \/ Purchase(b) \/ BuyResaleOnPage(b)
             \/ Circulate(b) \/ CancelOnPage(b) \/ Present(b)
      PROVE  BrowserInv'
    <2>1. Clicked
        BY <1>1, <1>8, ManageEventClicks, PurchaseClicks, BuyResaleClicks, CirculateClicks,
           CancelClicks, PresentClicks
    <2>2. PICK op \in Operation, view \in View : Asked(op, view)
        BY <2>1 DEF Clicked
    <2>3. SentGrows /\ NothingServed /\ UNCHANGED vars /\ UNCHANGED <<done, ledger>>
        BY <2>2, Asking DEF Asked
    <2> QED BY <1>1, <1>2, <2>1, <2>3, ClickScreens, RestAgrees DEF BrowserInv
<1>9. ASSUME NEW b \in Tab, TimeOut(b) \/ Finish(b) \/ Draw(b) \/ Drawn(b)
      PROVE  BrowserInv'
    <2>1. UNCHANGED vars /\ UNCHANGED <<done, ledger>> /\ SentGrows /\ NothingServed
        BY <1>3, <1>9 DEF TimeOut, Finish, Draw, Drawn
    <2> QED BY <1>1, <1>2, <1>9, <2>1, TabScreens, RestAgrees DEF BrowserInv
<1>10. ASSUME NEW b \in Tab, Announce(b)
       PROVE  BrowserInv'
    <2>1. PICK s \in 1 .. Len(sent) :
            Landed(sent[s].op) /\ done' = done \cup {s} /\ UNCHANGED <<vars, ledger, sent>>
        BY <1>1, <1>10 DEF Announce, Busy, Screens, JobsTrue, JobTrue
    <2> QED BY <1>1, <1>10, <2>1, TabScreens, AnnounceAgrees DEF BrowserInv
<1> QED BY <1>4, <1>5, <1>6, <1>7, <1>8, <1>9, <1>10 DEF PagesNext

(* Nothing has been asked, announced or drawn when the pages are opened,   *)
(* and the ledger has one position, which shows the accounts as they are.  *)
LEMMA StartBrowser == PagesInit => BrowserInv
<1> SUFFICES ASSUME PagesInit
             PROVE  BrowserInv
    OBVIOUS
<1>1. /\ sent = <<>> /\ done = {} /\ storage = None /\ evidence = {}
      /\ tab = [b \in Tab |-> [job |-> None, pass |-> None]]
      /\ drawings = [b \in Tab |-> None]
      /\ ledger = <<Snapshot>>
    BY DEF PagesInit
<1>2. Len(sent) = 0
    BY <1>1
<1>3. Screens
    BY <1>1 DEF Screens, BrowserTypeOK, JobsTrue, PassesRecorded
<1>4. Promised /\ \A i \in IntentKey : intent[i] = None
    BY StartPromised, StartCases
<1>5. Remembered
    <2>1. Latest = 1 /\ ledger[1] = Snapshot
        <3> HIDE DEF Snapshot
        <3> QED BY <1>1 DEF Latest
    <2>2. ASSUME NEW t \in TicketKey
          PROVE  /\ SameSince(1, t) /\ OwnerSince(1, t)
                 /\ ledger[1].ticket[t] # None =>
                       t[2] < ledger[1].event[t[1]].next_ticket_id
        BY <1>4, <2>1 DEF Snapshot, SameSince, OwnerSince, Promised,
                          CancelledWithoutTickets, TicketIssued
    <2> QED BY <2>1, <2>2 DEF Remembered
<1>6. ASSUME NEW t \in TicketKey
      PROVE  NumbersTaken(t)
    <2>1. ASSUME NEW l \in ListingKey, l[1] = t, listing[l] # None
          PROVE  ticket[t] # None /\ l[2] < ticket[t].next_listing_id
        <3>1. PICK sold \in {0, 1}, listed \in BOOLEAN, owner \in Wallet :
                StartedWith(sold, listed, owner)
            BY StartCases
        <3>2. sold = 1 /\ listed /\ t[2] = 0 /\ l[2] = 0 /\ owner \in Holder
            BY <2>1, <3>1 DEF StartedWith
        <3>3. ticket[t] = ListedTicket(FirstTicket(t, owner))
            BY <3>1, <3>2 DEF StartedWith
        <3>4. /\ FirstTicket(t, owner) \in TicketRecord
              /\ ListedTicket(FirstTicket(t, owner)) \in TicketRecord
            BY <3>2, FirstTyped
        <3>5. ListedTicket(FirstTicket(t, owner)).next_listing_id = 1
            BY <3>4 DEF ListedTicket, FirstTicket
        <3> QED BY <3>2, <3>3, <3>4, <3>5, NoneAssumption
    <2> QED BY <1>4, <2>1 DEF NumbersTaken
<1>7. ChainAgrees
    BY <1>1, <1>2, <1>5, <1>6 DEF ChainAgrees, WaitsExplained, PresentationsTrue
<1> QED BY <1>3, <1>7 DEF BrowserInv

(* The browser agrees with the chain in every state of the pages.          *)
LEMMA BrowserInvariant == PagesSpec => [](IInv /\ BrowserInv)
<1>1. PagesSpec => [](IInv /\ Promised)
    BY StartPromised, PromisedStep, PagesInvariant, PagesDriveProgram, PTL DEF PagesSpec
<1> QED BY <1>1, StartBrowser, BrowserStep, PTL DEF PagesSpec

(* What the notices of the pages say happened: something announced did     *)
(* happen after the page read its lists, by that transaction or by another *)
(* of the pages on the same ticket, or was so already on those lists.      *)
(* Whether the wallet simulated anything plays no part.                    *)
THEOREM AnnouncementsTrue == PagesSpec => []AnnouncedHappened
<1>1. BrowserInv => AnnouncedHappened
    BY DEF BrowserInv, ChainAgrees, WaitsExplained, Explained, AnnouncedHappened
<1> QED BY <1>1, BrowserInvariant, PTL

(* Every pass that is shown, stored or kept as evidence names an intent on *)
(* chain of that ticket and of the wallet that presented, unless that      *)
(* wallet parted with the ticket after the page had read it; and it is     *)
(* good until the time printed on it unless consumed.                      *)
THEOREM PassesAlwaysGenuine == PagesSpec => []PassesGenuine
<1>1. IInv /\ BrowserInv => PassesGenuine
    <2> SUFFICES ASSUME IInv, BrowserInv
                 PROVE  PassesGenuine
        OBVIOUS
    <2>1. ASSUME NEW p, PassRecorded(p)
          PROVE  PassGenuine(p)
        <3> DEFINE s == p.signature
                   op == sent[s].op
                   view == sent[s].view
        <3>1. /\ s \in 1 .. Len(sent) /\ s \in done /\ PresentationTrue(s)
              /\ op.kind = "presentCheckInCore" /\ p.ticket = op.ticket
              /\ p.intent = op.intent /\ p.expires_at = op.expires_at
            BY <2>1 DEF BrowserInv, Screens, BrowserTypeOK, ChainAgrees,
                        PresentationsTrue, PassRecorded
        <3>2. op.intent \in IntentKey /\ op.intent[1] = op.ticket /\ op.ticket \in TicketKey
              /\ intent[op.intent] # None
            BY <3>1, PresentTyped DEF PresentationTrue
        <3>3. /\ ticket[op.ticket] # None /\ intent[op.intent].ticket = op.ticket
              /\ intent[op.intent].holder = ticket[op.ticket].owner
            BY <3>2 DEF BrowserInv, ChainAgrees, NumbersTaken
        <3>4. /\ view.ticket \in 1 .. Latest /\ ledger[view.ticket].ticket[op.ticket] # None
              /\ op.signer = ledger[view.ticket].ticket[op.ticket].owner
            BY <3>1 DEF IInv, RequestsMade, Made, OfTicket, SeenTicket
        <3>5. Traded(op.ticket, view.ticket) \/ ticket[op.ticket].owner = op.signer
            BY <3>2, <3>4 DEF BrowserInv, ChainAgrees, Remembered, OwnerSince
        <3> QED BY <3>1, <3>2, <3>3, <3>5 DEF PassGenuine, PresentationTrue
    <2> QED BY <2>1 DEF BrowserInv, Screens, PassesRecorded, PassesGenuine
<1> QED BY <1>1, BrowserInvariant, PTL
====
