---- MODULE LifecycleProofs ----
(***************************************************************************)
(* From sale to admission, for every instance: the tickets of an event,    *)
(* the fees it may charge and the single use of a ticket; then what a      *)
(* holder bought: the terms of the sale, the supply of the tier, the asset *)
(* behind the ticket and the lamports that change hands for it.            *)
(***************************************************************************)
EXTENDS TicketingProofs, FiniteSetTheorems

---------------------------------------------------------------------------
(* Tickets issued by the counter of their event *)

SetupStep ==
    \/ Tick \/ PlatformStep \/ StandardStep \/ EventStep
    \/ TierStep \/ StaffStep \/ UNCHANGED vars

(* Steps other than a purchase keep the set of tickets and the events. *)
LEMMA CirculationKeeps ==
    ASSUME TypeOK,
           \/ GiftStep \/ ListStep \/ CancelListingStep \/ ResaleStep
           \/ PresentStep \/ CloseIntentStep \/ ConsumeStep
    PROVE  /\ \A t \in TicketKey : (ticket'[t] = None) <=> (ticket[t] = None)
           /\ UNCHANGED event
<1> DEFINE Rewrites(t) ==
              /\ ticket[t] \in TicketRecord /\ ticket'[t] \in TicketRecord
              /\ OnlyTicket(t) /\ UNCHANGED event
<1>1. ASSUME NEW t \in TicketKey, Rewrites(t)
      PROVE  /\ \A u \in TicketKey : (ticket'[u] = None) <=> (ticket[u] = None)
             /\ UNCHANGED event
    BY <1>1, NoneAssumption DEF OnlyTicket
<1>2. CASE GiftStep
    <2>1. PICK t \in TicketKey, recipient \in Wallet : Gives(t, recipient)
        BY <1>2, GiftEffect
    <2> QED BY <1>1, <2>1 DEF Gives
<1>3. CASE ListStep
    <2>1. PICK t \in TicketKey, id \in 0 .. MaxListingId - 1 : Offers(t, id)
        BY <1>3, ListEffect
    <2> QED BY <1>1, <2>1 DEF Offers
<1>4. CASE CancelListingStep
    <2>1. PICK t \in TicketKey, l \in ListingKey : Withdraws(t, l)
        BY <1>4, CancelListingEffect
    <2> QED BY <1>1, <2>1 DEF Withdraws
<1>5. CASE ResaleStep
    <2>1. PICK t \in TicketKey, l \in ListingKey, buyer \in Wallet : Resells(t, l, buyer)
        BY <1>5, ResaleEffect
    <2> QED BY <1>1, <2>1 DEF Resells
<1>6. CASE PresentStep
    <2>1. PICK t \in TicketKey, nonce \in 0 .. MaxNonce - 1 : Presents(t, nonce)
        BY <1>6, PresentEffect
    <2> QED BY <1>1, <2>1 DEF Presents
<1>7. CASE CloseIntentStep
    <2>1. PICK t \in TicketKey, i \in IntentKey, status \in {"Cancelled", "Expired"} :
            Retracts(t, i, status)
        BY <1>7, CloseIntentEffect
    <2> QED BY <1>1, <2>1 DEF Retracts
<1>8. CASE ConsumeStep
    <2>1. PICK signer \in Wallet, t \in TicketKey, i \in IntentKey : Admits(signer, t, i)
        BY <1>8, ConsumeEffect
    <2> QED BY <1>1, <2>1 DEF Admits
<1> QED BY <1>2, <1>3, <1>4, <1>5, <1>6, <1>7, <1>8

(* Every step keeps the tickets below the counter of their event, and *)
(* cancels none that sold.                                            *)
LEMMA CancelledWithoutTicketsStep ==
    TypeOK /\ CancelledWithoutTickets /\ [Next]_vars => CancelledWithoutTickets'
<1> SUFFICES ASSUME TypeOK, CancelledWithoutTickets, [Next]_vars, NEW t \in TicketKey
             PROVE  TicketIssued(t)'
    BY DEF CancelledWithoutTickets
<1> DEFINE e == t[1]
<1>1. e \in EventKey /\ t[2] \in 0 .. MaxTicketId - 1 /\ t = <<e, t[2]>> /\ TicketIssued(t)
    BY DEF TicketKey, CancelledWithoutTickets
<1>2. CASE SetupStep
    <2>1. EventKept(e) /\ ticket'[t] = ticket[t]
        BY <1>1, <1>2, SetupKeeps, SetupEffect DEF SetupStep
    <2>2. CASE event[e] = None
        BY <1>1, <2>1, <2>2 DEF TicketIssued, EventKept
    <2>3. CASE event[e] # None
        <3>1. event'[e] # None /\ event'[e].next_ticket_id = event[e].next_ticket_id
            BY <2>1, <2>3, NoneAssumption DEF EventKept
        <3>2. ticket[t] # None => event'[e].status \in {"Published", "Closed"}
            BY <1>1, <2>1, <2>3 DEF TicketIssued, EventKept, EventRecord, TypeOK, StateTypeOK
        <3> QED BY <1>1, <2>1, <2>3, <3>1, <3>2 DEF TicketIssued
    <2> QED BY <2>2, <2>3
<1>3. CASE PurchaseStep
    <2>1. PICK k \in EventKey, tr \in TierKey, id \in 0 .. MaxTicketId - 1 : Issues(k, tr, id)
        BY <1>3, PurchaseEffect
    <2>2. CASE e # k
        BY <1>1, <2>1, <2>2 DEF Issues, OnlyTicket, TicketIssued, TypeOK, StateTypeOK
    <2>3. CASE e = k
        <3>1. /\ event[e] \in EventRecord /\ event[e] # None
              /\ event'[e] = [event[e] EXCEPT !.next_ticket_id = id + 1]
              /\ id = event[e].next_ticket_id
            BY <1>1, <2>1, <2>3, NoneAssumption DEF Issues, TypeOK, StateTypeOK
        <3>2. /\ event'[e].next_ticket_id = id + 1
              /\ event'[e].status = "Published" /\ event'[e] # None
            <4>1. event'[e].next_ticket_id = id + 1 /\ event'[e].status = "Published"
                BY <2>1, <2>3, <3>1 DEF Issues, EventRecord
            <4>2. event'[e] \in EventRecord
                <5>1. id + 1 \in 0 .. MaxTicketId
                    BY <2>1, WidthsNat
                <5> QED BY <3>1, <5>1 DEF EventRecord
            <4> QED BY <4>1, <4>2, NoneAssumption
        <3>3. CASE t[2] = id
            BY <1>1, <2>1, <2>3, <3>2, <3>3, NoneAssumption DEF Issues, TicketIssued
        <3>4. CASE t[2] # id
            <4>1. ticket'[t] = ticket[t]
                BY <1>1, <2>1, <3>4 DEF Issues, OnlyTicket
            <4> QED BY <1>1, <3>1, <3>2, <3>4, <4>1 DEF TicketIssued
        <3> QED BY <3>3, <3>4
    <2> QED BY <2>2, <2>3
<1>4. CASE GiftStep \/ ListStep \/ CancelListingStep \/ ResaleStep
           \/ PresentStep \/ CloseIntentStep \/ ConsumeStep
    BY <1>1, <1>4, CirculationKeeps DEF TicketIssued
<1> QED BY <1>2, <1>3, <1>4 DEF Next, SetupStep

(* Whatever organizers publish, cancel or close, the tickets of an event   *)
(* are the ones its counter issued, and a cancelled event has none.        *)
THEOREM AlwaysCancelledWithoutTickets == Spec => []CancelledWithoutTickets
<1>1. Init => CancelledWithoutTickets
    BY DEF Init, CancelledWithoutTickets, TicketIssued, TicketKey
<1> QED BY <1>1, CancelledWithoutTicketsStep, TypeCorrect, PTL DEF Spec

---------------------------------------------------------------------------
(* Fees *)

(* Every step keeps the fees of published events payable. *)
LEMMA FeesPayableStep == TypeOK /\ FeesPayable /\ [Next]_vars => FeesPayable'
<1> SUFFICES ASSUME TypeOK, FeesPayable, [Next]_vars, NEW e \in EventKey,
                    event'[e] # None, event'[e].status \in {"Published", "Closed"}
             PROVE  event'[e].platform_fee_bps + event'[e].details.organizer_royalty_bps
                       <= BpsDenominator
    BY DEF FeesPayable
<1> DEFINE Kept == /\ event[e] # None
                   /\ event[e].status \in {"Published", "Closed"}
                   /\ event'[e].platform_fee_bps = event[e].platform_fee_bps
                   /\ event'[e].details = event[e].details
<1>1. CASE Kept
    BY <1>1 DEF FeesPayable
<1>2. CASE EventStep
    <2> USE DEF EventRecord, TypeOK, StateTypeOK
    <2>2. ASSUME NEW signer \in Organizer, NEW id \in EventId, NEW d \in DetailsInputs,
                 CreateEvent(signer, id, d)
          PROVE  Kept
        BY <2>2 DEF CreateEvent
    <2>3. ASSUME NEW signer \in Wallet, NEW k \in EventKey, NEW d \in DetailsInputs,
                 UpdateEvent(signer, k, d)
          PROVE  Kept
        BY <2>3 DEF UpdateEvent, ManageEventAccounts
    <2>4. ASSUME NEW signer \in Wallet, NEW k \in EventKey, PublishEvent(signer, k)
          PROVE  \/ Kept
                 \/ event'[e].platform_fee_bps + event'[e].details.organizer_royalty_bps
                       <= BpsDenominator
        <3>1. CASE k # e
            BY <2>4, <3>1 DEF PublishEvent, PublishEffect
        <3>2. CASE k = e
            <4>1. /\ event'[e].platform_fee_bps = config.platform_fee_bps
                  /\ event'[e].details = event[e].details
                BY <2>4, <3>2 DEF PublishEvent, PublishEffect, PublishGuard,
                                  ManageEventAccounts
            <4>2. config.platform_fee_bps + event[e].details.organizer_royalty_bps
                     <= BpsDenominator
                BY <2>4, <3>2 DEF PublishEvent, ValidFeeConfiguration
            <4> QED BY <4>1, <4>2
        <3> QED BY <3>1, <3>2
    <2>5. ASSUME NEW signer \in Wallet, NEW k \in EventKey,
                 CancelEvent(signer, k) \/ CloseEvent(signer, k)
          PROVE  Kept
        BY <2>5 DEF CancelEvent, CloseEvent, ManageEventAccounts
    <2> QED BY <1>1, <1>2, <2>2, <2>3, <2>4, <2>5 DEF EventStep
<1>3. CASE TierStep
    <2>1. ASSUME NEW signer \in Wallet, NEW k \in EventKey, NEW id \in 0 .. MaxTierId - 1,
                 NEW price \in PriceInputs, NEW supply \in SupplyInputs,
                 AddTier(signer, k, id, price, supply)
          PROVE  Kept
        <3> DEFINE next == event[k].next_tier_id + 1
        <3>1. event[k] \in EventRecord /\ next \in 0 .. MaxTierId
            BY <2>1, WidthsNat
               DEF AddTier, AddTierGuard, ManageEventAccounts, EventRecord, TypeOK,
                   StateTypeOK
        <3>2. event' = [event EXCEPT ![k].next_tier_id = next]
            BY <2>1 DEF AddTier
        <3> HIDE DEF next
        <3> QED BY <3>1, <3>2, NoneAssumption DEF EventRecord, TypeOK, StateTypeOK
    <2>2. ASSUME NEW signer \in Wallet, NEW k \in EventKey, NEW tr \in TierKey,
                 NEW price \in PriceInputs, NEW supply \in SupplyInputs,
                 NEW active \in BOOLEAN, UpdateTier(signer, k, tr, price, supply, active)
          PROVE  Kept
        BY <2>2 DEF UpdateTier
    <2> QED BY <1>1, <1>3, <2>1, <2>2 DEF TierStep
<1>4. CASE Tick \/ PlatformStep \/ StandardStep \/ StaffStep \/ UNCHANGED vars
    <2>1. UNCHANGED event
        BY <1>4 DEF Tick, PlatformStep, InitializePlatform, UpdatePlatform, StandardStep,
           SetAssetStandard, StaffStep, AuthorizeStaff, RevokeStaff, setupVars, vars
    <2> QED BY <1>1, <2>1
<1>5. CASE PurchaseStep
    <2>1. PICK k \in EventKey, tr \in TierKey, id \in 0 .. MaxTicketId - 1 : Issues(k, tr, id)
        BY <1>5, PurchaseEffect
    <2>2. Kept
        BY <2>1, NoneAssumption DEF Issues, EventRecord, TypeOK, StateTypeOK
    <2> QED BY <1>1, <2>2
<1>6. CASE GiftStep \/ ListStep \/ CancelListingStep \/ ResaleStep
           \/ PresentStep \/ CloseIntentStep \/ ConsumeStep
    BY <1>1, <1>6, CirculationKeeps
<1> QED BY <1>2, <1>3, <1>4, <1>5, <1>6 DEF Next

(* No published event ever charges more than a sale yields, even if the    *)
(* admin changed the fee of the platform between creation and publication. *)
THEOREM FeesAlwaysPayable == Spec => []FeesPayable
<1>1. Init => FeesPayable
    BY DEF Init, FeesPayable
<1> QED BY <1>1, FeesPayableStep, TypeCorrect, PTL DEF Spec

(* Every price of the safe range settles under rates that are payable.     *)
LEMMA RatesSettle ==
    ASSUME NEW price \in 0 .. MaxU64 \div BpsDenominator, NEW fee_bps \in Nat,
           NEW royalty_bps \in Nat, fee_bps + royalty_bps <= BpsDenominator
    PROVE  /\ PrimarySplitOk(price, fee_bps)
           /\ ResaleSplitOk(price, fee_bps, royalty_bps)
           /\ SharesExact(price, fee_bps, royalty_bps)
<1>1. price \in Nat /\ BpsDenominator \in Nat /\ MaxU64 \div BpsDenominator \in Int
    BY DomainAssumption
<1>2. fee_bps <= BpsDenominator /\ royalty_bps <= BpsDenominator
    BY <1>1
<1>3. FeeAmountOk(price, fee_bps) /\ FeeAmountOk(price, royalty_bps)
    BY <1>1, <1>2, RangeNeverOverflows
<1>4. /\ FeeAmount(price, fee_bps) \in Nat
      /\ FeeAmount(price, royalty_bps) \in Nat
      /\ FeeAmount(price, fee_bps) + FeeAmount(price, royalty_bps) <= price
    BY <1>1, FeeAmountFloor, RatesLeaveRemainder
<1>5. PrimarySplitOk(price, fee_bps) /\ ResaleSplitOk(price, fee_bps, royalty_bps)
    BY <1>1, <1>2, <1>3, <1>4
       DEF PrimarySplitOk, PrimarySplit, ResaleSplitOk, ResaleSplit, ValidBps,
           ValidFeeConfiguration
<1>6. LET split == ResaleSplit(price, fee_bps, royalty_bps) IN
        split.platform + split.organizer + split.seller = price
    BY <1>1, <1>4 DEF ResaleSplit
<1> QED BY <1>1, <1>5, <1>6, FeeAmountFloor DEF SharesExact, ResaleSplit

(* Whatever the admin and the organizer did before publication, the terms  *)
(* an event is published with settle every price of the safe range.        *)
THEOREM TermsAlwaysSettle == Spec => []SettlementRange
<1>1. TypeOK /\ FeesPayable => SettlementRange
    <2> SUFFICES ASSUME TypeOK, FeesPayable, NEW e \in EventKey, event[e] # None,
                        event[e].status \in {"Published", "Closed"},
                        NEW price \in 0 .. MaxU64 \div BpsDenominator
                 PROVE  LET fee_bps     == event[e].platform_fee_bps
                            royalty_bps == event[e].details.organizer_royalty_bps
                        IN
                        /\ PrimarySplitOk(price, fee_bps)
                        /\ ResaleSplitOk(price, fee_bps, royalty_bps)
                        /\ SharesExact(price, fee_bps, royalty_bps)
        BY DEF SettlementRange
    <2>1. /\ event[e].platform_fee_bps \in Nat
          /\ event[e].details.organizer_royalty_bps \in Nat
        BY DEF TypeOK, StateTypeOK, EventRecord, EventDetails
    <2> QED BY <2>1, RatesSettle DEF FeesPayable
<1> QED BY <1>1, TypeCorrect, FeesAlwaysPayable, PTL

---------------------------------------------------------------------------
(* Admission *)

(* A ticket with a pending intent is active. *)
LEMMA PendingHolderActive ==
    ASSUME TypeOK, IntentExclusive, NEW t \in TicketKey, NEW i \in IntentKey,
           PendingIntent(t, i)
    PROVE  ActiveTicket(t) /\ Pending(i)
<1>1. Pending(i) /\ intent[i].ticket = t
    BY DEF PendingIntent, Pending
<1> QED BY <1>1 DEF IntentExclusive, PendingIntentCurrent

(* The step is on one ticket, which is not used, and leaves the others and *)
(* their assets alone; only the clock or the intents may move besides.     *)
LEMMA UsedUntouched ==
    ASSUME TypeOK, IntentExclusive, [Next]_vars,
           NEW t \in TicketKey, ticket[t] # None, ticket[t].status = "Used"
    PROVE  ticket'[t] = ticket[t] /\ asset'[t] = asset[t]
<1> DEFINE Others(u) == u # t /\ OnlyTicket(u) /\ (OnlyAsset(u) \/ UNCHANGED asset)
<1>1. ASSUME NEW u \in TicketKey, Others(u)
      PROVE  ticket'[t] = ticket[t] /\ asset'[t] = asset[t]
    BY <1>1 DEF OnlyTicket, OnlyAsset
<1>2. CASE SetupStep
    BY <1>2, SetupEffect DEF SetupStep
<1>3. CASE PurchaseStep
    <2>1. PICK e \in EventKey, tr \in TierKey, id \in 0 .. MaxTicketId - 1 : Issues(e, tr, id)
        BY <1>3, PurchaseEffect
    <2> QED BY <1>1, <2>1 DEF Issues
<1>4. CASE GiftStep
    <2>1. PICK u \in TicketKey, recipient \in Wallet : Gives(u, recipient)
        BY <1>4, GiftEffect
    <2> QED BY <1>1, <2>1 DEF Gives, TransferableTicket, ActiveTicket
<1>5. CASE ListStep
    <2>1. PICK u \in TicketKey, id \in 0 .. MaxListingId - 1 : Offers(u, id)
        BY <1>5, ListEffect
    <2> QED BY <1>1, <2>1 DEF Offers, TransferableTicket, ActiveTicket
<1>6. CASE CancelListingStep
    <2>1. PICK u \in TicketKey, l \in ListingKey : Withdraws(u, l)
        BY <1>6, CancelListingEffect
    <2> QED BY <1>1, <2>1 DEF Withdraws
<1>7. CASE ResaleStep
    <2>1. PICK u \in TicketKey, l \in ListingKey, buyer \in Wallet : Resells(u, l, buyer)
        BY <1>7, ResaleEffect
    <2> QED BY <1>1, <2>1 DEF Resells
<1>8. CASE PresentStep
    <2>1. PICK u \in TicketKey, nonce \in 0 .. MaxNonce - 1 : Presents(u, nonce)
        BY <1>8, PresentEffect
    <2> QED BY <1>1, <2>1 DEF Presents, PresentableTicket, ActiveTicket
<1>9. CASE CloseIntentStep
    <2>1. PICK u \in TicketKey, i \in IntentKey, status \in {"Cancelled", "Expired"} :
            Retracts(u, i, status)
        BY <1>9, CloseIntentEffect
    <2>2. ActiveTicket(u)
        BY <2>1, PendingHolderActive DEF Retracts
    <2> QED BY <1>1, <2>1, <2>2 DEF Retracts, ActiveTicket
<1>10. CASE ConsumeStep
    <2>1. PICK signer \in Wallet, u \in TicketKey, i \in IntentKey : Admits(signer, u, i)
        BY <1>10, ConsumeEffect
    <2>2. ActiveTicket(u)
        BY <2>1, PendingHolderActive DEF Admits
    <2> QED BY <1>1, <2>1, <2>2 DEF Admits, ActiveTicket
<1> QED BY <1>2, <1>3, <1>4, <1>5, <1>6, <1>7, <1>8, <1>9, <1>10 DEF Next, SetupStep

(* No sequence of instructions changes the record or the asset of a used   *)
(* ticket.  It needs IntentExclusive: the Core consumption handler does    *)
(* not look at the status of the ticket.                                   *)
THEOREM UsedStaysFinal == Spec => UsedIsFinal
<1>1. TypeOK /\ IntentExclusive /\ [Next]_vars =>
        [\A t \in TicketKey :
            (ticket[t] # None /\ ticket[t].status = "Used") =>
               ticket'[t] = ticket[t] /\ asset'[t] = asset[t]]_vars
    BY UsedUntouched
<1> QED BY <1>1, TypeCorrect, IntentAlwaysExclusive, PTL DEF Spec, UsedIsFinal

(* A consumed intent is never rewritten. *)
LEMMA ConsumedKept ==
    ASSUME TypeOK, [Next]_vars, NEW j \in IntentKey, Consumed(j)
    PROVE  intent'[j] = intent[j]
<1>1. CASE UNCHANGED intent
    BY <1>1
<1>2. CASE PresentStep
    <2>1. PICK t \in TicketKey, nonce \in 0 .. MaxNonce - 1 : Presents(t, nonce)
        BY <1>2, PresentEffect
    <2> QED BY <2>1 DEF Presents, Consumed, OnlyIntent
<1>3. CASE CloseIntentStep
    <2>1. PICK t \in TicketKey, i \in IntentKey, status \in {"Cancelled", "Expired"} :
            Retracts(t, i, status)
        BY <1>3, CloseIntentEffect
    <2> QED BY <2>1 DEF Retracts, PendingIntent, Consumed, OnlyIntent
<1>4. CASE ConsumeStep
    <2>1. PICK signer \in Wallet, t \in TicketKey, i \in IntentKey : Admits(signer, t, i)
        BY <1>4, ConsumeEffect
    <2> QED BY <2>1 DEF Admits, PendingIntent, Consumed, OnlyIntent
<1>5. CASE SetupStep
    BY <1>5, <1>1, SetupEffect DEF SetupStep
<1>6. CASE PurchaseStep
    <2>1. PICK e \in EventKey, tr \in TierKey, id \in 0 .. MaxTicketId - 1 : Issues(e, tr, id)
        BY <1>6, PurchaseEffect
    <2> QED BY <1>1, <2>1 DEF Issues
<1>7. CASE GiftStep
    BY <1>7, <1>1, GiftEffect DEF Gives
<1>8. CASE ListStep
    BY <1>8, <1>1, ListEffect DEF Offers
<1>9. CASE CancelListingStep
    BY <1>9, <1>1, CancelListingEffect DEF Withdraws
<1>10. CASE ResaleStep
    BY <1>10, <1>1, ResaleEffect DEF Resells
<1> QED BY <1>2, <1>3, <1>4, <1>5, <1>6, <1>7, <1>8, <1>9, <1>10 DEF Next, SetupStep

(* A step that admits nobody neither uses a ticket nor consumes an intent. *)
NobodyAdmitted ==
    /\ \A t \in TicketKey : UsedTicket(t)' => UsedTicket(t)
    /\ \A j \in IntentKey : Consumed(j)' => Consumed(j)

Admission ==
    \E signer \in Wallet, t \in TicketKey, i \in IntentKey : Admits(signer, t, i)

(* A step that uses no ticket and consumes no intent admits nobody. *)
LEMMA RewriteAdmitsNobody ==
    ASSUME TypeOK, NEW t \in TicketKey, UsedTicket(t)' => UsedTicket(t), OnlyTicket(t),
           \A j \in IntentKey : Consumed(j)' => Consumed(j)
    PROVE  NobodyAdmitted
BY DEF NobodyAdmitted, OnlyTicket, UsedTicket

(* Only an admission uses a ticket. *)
LEMMA UseOnlyByAdmission ==
    ASSUME TypeOK, [Next]_vars
    PROVE  Admission \/ NobodyAdmitted
<1>1. ASSUME UNCHANGED intent
      PROVE  \A j \in IntentKey : Consumed(j)' => Consumed(j)
    BY <1>1 DEF Consumed
<1>2. CASE SetupStep
    BY <1>2, SetupEffect DEF SetupStep, NobodyAdmitted, UsedTicket, Consumed
<1>3. CASE PurchaseStep
    <2>1. PICK e \in EventKey, tr \in TierKey, id \in 0 .. MaxTicketId - 1 : Issues(e, tr, id)
        BY <1>3, PurchaseEffect
    <2>2. ~UsedTicket(<<e, id>>)'
        BY <2>1 DEF Issues, UsedTicket
    <2> QED BY <1>1, <2>1, <2>2, RewriteAdmitsNobody DEF Issues
<1>4. CASE GiftStep
    <2>1. PICK t \in TicketKey, recipient \in Wallet : Gives(t, recipient)
        BY <1>4, GiftEffect
    <2>2. ~UsedTicket(t)'
        BY <2>1 DEF Gives, UsedTicket, TransferTicketOwner, TransferableTicket,
                    ActiveTicket, TicketRecord
    <2> QED BY <1>1, <2>1, <2>2, RewriteAdmitsNobody DEF Gives
<1>5. CASE ListStep
    <2>1. PICK t \in TicketKey, id \in 0 .. MaxListingId - 1 : Offers(t, id)
        BY <1>5, ListEffect
    <2>2. ~UsedTicket(t)'
        BY <2>1 DEF Offers, UsedTicket, ListedTicket, TransferableTicket,
                    ActiveTicket, TicketRecord
    <2> QED BY <1>1, <2>1, <2>2, RewriteAdmitsNobody DEF Offers
<1>6. CASE CancelListingStep
    <2>1. PICK t \in TicketKey, l \in ListingKey : Withdraws(t, l)
        BY <1>6, CancelListingEffect
    <2>2. UsedTicket(t)' => UsedTicket(t)
        BY <2>1, NoneAssumption DEF Withdraws, UsedTicket, UnlistedTicket, TicketRecord
    <2> QED BY <1>1, <2>1, <2>2, RewriteAdmitsNobody DEF Withdraws
<1>7. CASE ResaleStep
    <2>1. PICK t \in TicketKey, l \in ListingKey, buyer \in Wallet : Resells(t, l, buyer)
        BY <1>7, ResaleEffect
    <2>2. UsedTicket(t)' => UsedTicket(t)
        BY <2>1, NoneAssumption
           DEF Resells, UsedTicket, UnlistedTicket, TransferTicketOwner, TicketRecord
    <2> QED BY <1>1, <2>1, <2>2, RewriteAdmitsNobody DEF Resells
<1>8. CASE PresentStep
    <2>1. PICK t \in TicketKey, nonce \in 0 .. MaxNonce - 1 : Presents(t, nonce)
        BY <1>8, PresentEffect
    <2>2. ~UsedTicket(t)'
        BY <2>1 DEF Presents, UsedTicket, PresentedTicket, PresentableTicket,
                    ActiveTicket, TicketRecord
    <2>3. \A j \in IntentKey : Consumed(j)' => Consumed(j)
        BY <2>1 DEF Presents, Consumed, OnlyIntent
    <2> QED BY <2>1, <2>2, <2>3, RewriteAdmitsNobody DEF Presents
<1>9. CASE CloseIntentStep
    <2>1. PICK t \in TicketKey, i \in IntentKey, status \in {"Cancelled", "Expired"} :
            Retracts(t, i, status)
        BY <1>9, CloseIntentEffect
    <2>2. UsedTicket(t)' => UsedTicket(t)
        BY <2>1, NoneAssumption DEF Retracts, UsedTicket, RetractedTicket, TicketRecord
    <2>3. \A j \in IntentKey : Consumed(j)' => Consumed(j)
        BY <2>1 DEF Retracts, Consumed, OnlyIntent, CheckInIntent
    <2> QED BY <2>1, <2>2, <2>3, RewriteAdmitsNobody DEF Retracts
<1>10. CASE ConsumeStep
    BY <1>10, ConsumeEffect DEF Admission
<1> QED BY <1>2, <1>3, <1>4, <1>5, <1>6, <1>7, <1>8, <1>9, <1>10 DEF Next, SetupStep

(* The windows and the terms of an event that has tickets are kept. *)
LEMMA TermsKept ==
    ASSUME TypeOK, [Next]_vars, NEW e \in EventKey,
           event[e] # None, event[e].status # "Draft"
    PROVE  event'[e].details = event[e].details
<1>1. CASE SetupStep
    BY <1>1, SetupKeeps DEF SetupStep, EventKept
<1>2. CASE PurchaseStep
    <2>1. PICK k \in EventKey, tr \in TierKey, id \in 0 .. MaxTicketId - 1 : Issues(k, tr, id)
        BY <1>2, PurchaseEffect
    <2> QED BY <2>1 DEF Issues, EventRecord, TypeOK, StateTypeOK
<1>3. CASE GiftStep \/ ListStep \/ CancelListingStep \/ ResaleStep
           \/ PresentStep \/ CloseIntentStep \/ ConsumeStep
    BY <1>3, CirculationKeeps
<1> QED BY <1>1, <1>2, <1>3 DEF Next, SetupStep

(* The parts of ConsumedIntentUsed a step has to keep. *)
LEMMA UsedRecordKept ==
    ASSUME TypeOK, IntentExclusive, CancelledWithoutTickets, EventsIsolated, [Next]_vars,
           NEW j \in IntentKey, Consumed(j), ConsumedIntentUsed(j)
    PROVE  ConsumedIntentUsed(j)'
<1> DEFINE t == intent[j].ticket
           e == ticket[t].event
<1>1. t \in TicketKey /\ intent'[j] = intent[j]
    BY ConsumedKept DEF Consumed, CheckInIntent, TypeOK, StateTypeOK
<1>2. ticket[t] # None /\ ticket[t].status = "Used"
    BY DEF ConsumedIntentUsed
<1>3. ticket'[t] = ticket[t]
    BY <1>1, <1>2, UsedUntouched
<1>4. e \in EventKey /\ e = t[1]
    BY <1>1, <1>2 DEF EventsIsolated, TicketIsolated, TicketKey
<1>5. event[e] # None /\ event[e].status # "Draft"
    BY <1>1, <1>2, <1>4 DEF CancelledWithoutTickets, TicketIssued
<1>6. event'[e].details = event[e].details
    BY <1>4, <1>5, TermsKept
<1> QED BY <1>1, <1>3, <1>6 DEF ConsumedIntentUsed, Consumed

(* An admission consumes one intent, uses its ticket in time, and *)
(* touches no other.                                              *)
LEMMA AdmittedIntentUsed ==
    ASSUME TypeOK, NEW signer \in Wallet, NEW t \in TicketKey, NEW i \in IntentKey,
           Admits(signer, t, i)
    PROVE  /\ ConsumedIntentUsed(i)' /\ Consumed(i)' /\ intent'[i].ticket = t
           /\ \A j \in IntentKey \ {i} : intent'[j] = intent[j]
           /\ \A u \in TicketKey \ {t} : ticket'[u] = ticket[u]
<1>1. /\ intent[i] \in CheckInIntent /\ ticket[t] \in TicketRecord
      /\ ticket'[t] = AdmittedTicket(ticket[t], signer, now)
      /\ intent'[i] = [intent[i] EXCEPT !.status = "Consumed",
                                        !.consumed_at = now, !.staff = signer]
      /\ intent[i].ticket = t /\ UNCHANGED <<event, now>>
      /\ now < intent[i].expires_at /\ intent[i].holder = ticket[t].owner
      /\ CheckInOpen(ticket[t].event)
    BY DEF Admits, PendingIntent
<1>2. /\ intent'[i].status = "Consumed" /\ intent'[i].consumed_at = now
      /\ intent'[i].staff = signer /\ intent'[i].ticket = t
      /\ intent'[i].holder = ticket[t].owner /\ intent'[i].expires_at = intent[i].expires_at
      /\ intent'[i] \in CheckInIntent
    BY <1>1 DEF CheckInIntent, TypeOK, StateTypeOK
<1>3. /\ ticket'[t].status = "Used" /\ ticket'[t].active_intent = None
      /\ ticket'[t].used_at = now /\ ticket'[t].used_by = signer
      /\ ticket'[t].owner = ticket[t].owner /\ ticket'[t].event = ticket[t].event
      /\ ticket'[t] \in TicketRecord
    BY <1>1 DEF Admits, AdmittedTicket, TicketRecord
<1>4. Consumed(i)' /\ ticket'[t] # None
    BY <1>2, <1>3, NoneAssumption DEF Consumed
<1>5. ConsumedIntentUsed(i)'
    BY <1>1, <1>2, <1>3, <1>4 DEF ConsumedIntentUsed, CheckInOpen
<1> QED BY <1>2, <1>4, <1>5 DEF Admits, OnlyIntent, OnlyTicket

(* Every step keeps single use. *)
LEMMA SingleUseStep ==
    /\ TypeOK /\ IntentExclusive /\ CancelledWithoutTickets /\ EventsIsolated
    /\ SingleUse /\ [Next]_vars
    => SingleUse'
<1> SUFFICES ASSUME TypeOK, IntentExclusive, CancelledWithoutTickets, EventsIsolated,
                    SingleUse, [Next]_vars
             PROVE  SingleUse'
    OBVIOUS
<1>1. ASSUME NEW j \in IntentKey, Consumed(j)
      PROVE  Consumed(j)' /\ ConsumedIntentUsed(j)' /\ intent'[j] = intent[j]
    BY <1>1, ConsumedKept, UsedRecordKept DEF SingleUse, Consumed
<1>2. ASSUME NEW t \in TicketKey, UsedTicket(t)
      PROVE  \E i \in IntentKey : Consumed(i)' /\ intent'[i].ticket = t
    <2>1. PICK i \in IntentKey : Consumed(i) /\ intent[i].ticket = t
        BY <1>2 DEF SingleUse
    <2> QED BY <1>1, <2>1
<1>3. CASE NobodyAdmitted
    <2>1. \A t \in TicketKey :
            UsedTicket(t)' => \E i \in IntentKey : Consumed(i)' /\ intent'[i].ticket = t
        BY <1>2, <1>3 DEF NobodyAdmitted
    <2>2. \A j \in IntentKey : ConsumedIntentUsed(j)'
        BY <1>1, <1>3 DEF NobodyAdmitted, ConsumedIntentUsed
    <2>3. \A i, j \in IntentKey :
            (Consumed(i)' /\ Consumed(j)' /\ intent'[i].ticket = intent'[j].ticket) => i = j
        BY <1>1, <1>3 DEF NobodyAdmitted, SingleUse
    <2> QED BY <2>1, <2>2, <2>3 DEF SingleUse
<1>4. CASE Admission
    <2>1. PICK signer \in Wallet, t \in TicketKey, i \in IntentKey : Admits(signer, t, i)
        BY <1>4 DEF Admission
    <2>2. /\ ConsumedIntentUsed(i)' /\ Consumed(i)' /\ intent'[i].ticket = t
          /\ \A j \in IntentKey \ {i} : intent'[j] = intent[j]
          /\ \A u \in TicketKey \ {t} : ticket'[u] = ticket[u]
        BY <2>1, AdmittedIntentUsed
    <2>3. \A u \in TicketKey :
            UsedTicket(u)' => \E k \in IntentKey : Consumed(k)' /\ intent'[k].ticket = u
        <3> TAKE u \in TicketKey
        <3>1. CASE u = t
            BY <2>2, <3>1
        <3>2. CASE u # t
            BY <1>2, <2>2, <3>2 DEF UsedTicket
        <3> QED BY <3>1, <3>2
    <2>4. \A j \in IntentKey \ {i} : Consumed(j)' => Consumed(j)
        BY <2>2 DEF Consumed
    <2>5. \A j \in IntentKey : ConsumedIntentUsed(j)'
        BY <1>1, <2>2, <2>4 DEF ConsumedIntentUsed
    <2>6. \A j \in IntentKey : Consumed(j) => intent[j].ticket # t
        <3>1. ActiveTicket(t)
            BY <2>1, PendingHolderActive DEF Admits
        <3> QED BY <3>1 DEF SingleUse, ConsumedIntentUsed, ActiveTicket
    <2>7. \A j, k \in IntentKey :
            (Consumed(j)' /\ Consumed(k)' /\ intent'[j].ticket = intent'[k].ticket) => j = k
        BY <2>2, <2>4, <2>6 DEF SingleUse
    <2> QED BY <2>3, <2>5, <2>7 DEF SingleUse
<1> QED BY <1>3, <1>4, UseOnlyByAdmission

(* A ticket admits once: it is used exactly when one intent of it was      *)
(* consumed, in time, and both records tell the same story for ever.       *)
THEOREM AlwaysSingleUse == Spec => []SingleUse
<1>1. Init => SingleUse
    BY DEF Init, SingleUse, UsedTicket, Consumed, ConsumedIntentUsed
<1> QED BY <1>1, SingleUseStep, TypeCorrect, IntentAlwaysExclusive,
           AlwaysCancelledWithoutTickets, EventsAlwaysIsolated, PTL DEF Spec

---------------------------------------------------------------------------
(* Listings *)

(* A step that is not on the ticket, the event or the listing of an open   *)
(* offer leaves it current.                                                *)
LEMMA OfferFrame ==
    ASSUME TypeOK, CancelledWithoutTickets, EventsIsolated, [Next]_vars,
           NEW l \in ListingKey, OpenOffer(l), OpenOfferCurrent(l),
           listing'[l] = listing[l], ticket'[listing[l].ticket] = ticket[listing[l].ticket]
    PROVE  OpenOfferCurrent(l)'
<1> DEFINE t == listing[l].ticket
           e == ticket[t].event
<1>1. t \in TicketKey /\ ticket[t] # None
    BY DEF OpenOffer, OpenOfferCurrent, ListingRecord, TypeOK, StateTypeOK
<1>2. e \in EventKey /\ e = t[1]
    BY <1>1 DEF EventsIsolated, TicketIsolated, TicketKey
<1>3. event[e] # None /\ event[e].status # "Draft"
    BY <1>1, <1>2 DEF CancelledWithoutTickets, TicketIssued
<1>4. event'[e].details = event[e].details
    BY <1>2, <1>3, TermsKept
<1> QED BY <1>1, <1>4 DEF OpenOfferCurrent, OpenOffer

(* A step on a ticket without an open offer, which opens none, keeps the   *)
(* offers of the others.                                                   *)
LEMMA UnlistedFrame ==
    ASSUME TypeOK, CancelledWithoutTickets, EventsIsolated, ListingExclusive, [Next]_vars,
           NEW t \in TicketKey, OnlyTicket(t), UNCHANGED listing,
           ticket[t] = None \/ ticket[t].status # "Listed",
           ticket'[t] = None \/ ticket'[t].status # "Listed"
    PROVE  ListingExclusive'
<1>1. \A u \in TicketKey : ListedTicketOffered(u)'
    <2> TAKE u \in TicketKey
    <2>1. CASE u = t
        BY <2>1 DEF ListedTicketOffered
    <2>2. CASE u # t
        BY <2>2 DEF ListingExclusive, ListedTicketOffered, OnlyTicket, OpenOffer
    <2> QED BY <2>1, <2>2
<1>2. ASSUME NEW l \in ListingKey, OpenOffer(l)'
      PROVE  OpenOfferCurrent(l)'
    <2>1. OpenOffer(l) /\ OpenOfferCurrent(l) /\ listing[l].ticket \in TicketKey
        BY <1>2 DEF ListingExclusive, OpenOffer, ListingRecord, TypeOK, StateTypeOK
    <2>2. listing[l].ticket # t
        BY <2>1 DEF OpenOfferCurrent
    <2> QED BY <2>1, <2>2, OfferFrame DEF OnlyTicket
<1> QED BY <1>1, <1>2 DEF ListingExclusive, OpenOfferCurrent

(* A listed ticket whose offer is closed and which goes back to active.    *)
LEMMA ClosedOfferFrame ==
    ASSUME TypeOK, CancelledWithoutTickets, EventsIsolated, ListingExclusive, [Next]_vars,
           NEW t \in TicketKey, NEW l \in ListingKey, OnlyTicket(t), OnlyListing(l),
           ticket'[t].status = "Active",
           OpenOffer(l), listing[l].ticket = t, ~OpenOffer(l)'
    PROVE  ListingExclusive'
<1>1. ticket[t] # None /\ l = <<t, ticket[t].next_listing_id - 1>>
    BY DEF ListingExclusive, OpenOfferCurrent
<1>2. \A u \in TicketKey : ListedTicketOffered(u)'
    <2> TAKE u \in TicketKey
    <2>1. CASE u = t
        BY <2>1 DEF ListedTicketOffered
    <2>2. CASE u # t
        <3> SUFFICES ASSUME ticket[u] # None, ticket[u].status = "Listed"
                     PROVE  ListedTicketOffered(u)'
            BY <2>2 DEF ListedTicketOffered, OnlyTicket
        <3>1. PICK k \in ListingKey : OpenOffer(k) /\ listing[k].ticket = u
            BY DEF ListingExclusive, ListedTicketOffered
        <3>2. listing'[k] = listing[k]
            BY <2>2, <3>1 DEF OnlyListing
        <3> QED BY <3>1, <3>2 DEF ListedTicketOffered, OpenOffer
    <2> QED BY <2>1, <2>2
<1>3. ASSUME NEW k \in ListingKey, OpenOffer(k)'
      PROVE  OpenOfferCurrent(k)'
    <2>1. k # l /\ listing'[k] = listing[k]
        BY <1>3 DEF OnlyListing
    <2>2. OpenOffer(k) /\ OpenOfferCurrent(k) /\ listing[k].ticket \in TicketKey
        BY <1>3, <2>1 DEF ListingExclusive, OpenOffer, ListingRecord, TypeOK, StateTypeOK
    <2>3. listing[k].ticket # t
        BY <1>1, <2>1, <2>2 DEF OpenOfferCurrent
    <2> QED BY <2>1, <2>2, <2>3, OfferFrame DEF OnlyTicket
<1> QED BY <1>2, <1>3 DEF ListingExclusive, OpenOfferCurrent

(* Listing an active ticket opens its only offer.                          *)
LEMMA OpenedOfferFrame ==
    ASSUME TypeOK, CancelledWithoutTickets, EventsIsolated, ListingExclusive, [Next]_vars,
           NEW t \in TicketKey, NEW id \in 0 .. MaxListingId - 1, Offers(t, id)
    PROVE  ListingExclusive'
<1> DEFINE l == <<t, id>>
<1>1. /\ l \in ListingKey /\ ticket[t] \in TicketRecord /\ ticket[t].status = "Active"
      /\ OnlyTicket(t) /\ OnlyListing(l) /\ UNCHANGED event
      /\ id = ticket[t].next_listing_id
      /\ listing'[l] \in ListingRecord
    BY DEF Offers, TransferableTicket, ActiveTicket
<1>2. /\ ticket'[t].status = "Listed" /\ ticket'[t].next_listing_id = id + 1
      /\ ticket'[t].event = ticket[t].event /\ ticket'[t].owner = ticket[t].owner
      /\ ticket'[t].original_price_lamports = ticket[t].original_price_lamports
      /\ ticket'[t] # None
    <2>1. ticket'[t] = ListedTicket(ticket[t]) /\ ticket'[t] \in TicketRecord
        BY DEF Offers
    <2>2. ticket'[t] = [ticket[t] EXCEPT !.status = "Listed", !.next_listing_id = id + 1]
        BY <1>1, <2>1 DEF ListedTicket
    <2> QED BY <1>1, <2>1, <2>2, NoneAssumption DEF TicketRecord
<1>3. /\ OpenOffer(l)' /\ listing'[l].ticket = t
      /\ l = <<t, ticket'[t].next_listing_id - 1>>
    BY <1>1, <1>2, NoneAssumption DEF Offers, OpenOffer
<1>4. WithinMarkup(listing'[l].price_lamports, ticket[t].original_price_lamports,
                   event[ticket[t].event].details.max_resale_markup_bps)
    <2>1. event[ticket[t].event] \in EventRecord
        BY <1>1, NoneAssumption
           DEF CancelledWithoutTickets, TicketIssued, EventsIsolated, TicketIsolated,
               TicketKey, TypeOK, StateTypeOK
    <2>2. /\ listing'[l].price_lamports \in Nat
          /\ ticket[t].original_price_lamports \in Nat
          /\ event[ticket[t].event].details.max_resale_markup_bps \in Nat
        BY <1>1, <2>1 DEF ListingRecord, TicketRecord, EventRecord, EventDetails
    <2> QED BY <2>2, CapExact DEF Offers, WithinMarkup
<1>5. OpenOfferCurrent(l)'
    BY <1>1, <1>2, <1>3, <1>4 DEF OpenOfferCurrent, Offers
<1>6. \A u \in TicketKey : ListedTicketOffered(u)'
    <2> TAKE u \in TicketKey
    <2>1. CASE u = t
        BY <1>1, <1>3, <2>1 DEF ListedTicketOffered
    <2>2. CASE u # t
        <3> SUFFICES ASSUME ticket[u] # None, ticket[u].status = "Listed"
                     PROVE  ListedTicketOffered(u)'
            BY <1>1, <2>2 DEF ListedTicketOffered, OnlyTicket
        <3>1. PICK k \in ListingKey : OpenOffer(k) /\ listing[k].ticket = u
            BY DEF ListingExclusive, ListedTicketOffered
        <3>2. listing'[k] = listing[k]
            BY <1>1, <3>1 DEF OnlyListing, Offers, OpenOffer
        <3> QED BY <3>1, <3>2 DEF ListedTicketOffered, OpenOffer
    <2> QED BY <2>1, <2>2
<1>7. ASSUME NEW k \in ListingKey, k # l, OpenOffer(k)'
      PROVE  OpenOfferCurrent(k)'
    <2>1. listing'[k] = listing[k]
        BY <1>1, <1>7 DEF OnlyListing
    <2>2. OpenOffer(k) /\ OpenOfferCurrent(k) /\ listing[k].ticket \in TicketKey
        BY <1>7, <2>1 DEF ListingExclusive, OpenOffer, ListingRecord, TypeOK, StateTypeOK
    <2>3. listing[k].ticket # t
        BY <1>1, <2>2 DEF OpenOfferCurrent
    <2> QED BY <1>1, <2>1, <2>2, <2>3, OfferFrame DEF OnlyTicket
<1> QED BY <1>5, <1>6, <1>7 DEF ListingExclusive, OpenOfferCurrent

(* Every step keeps the listings exclusive. *)
LEMMA ListingExclusiveStep ==
    /\ TypeOK /\ IntentExclusive /\ CancelledWithoutTickets /\ EventsIsolated
    /\ ListingExclusive /\ [Next]_vars
    => ListingExclusive'
<1> SUFFICES ASSUME TypeOK, IntentExclusive, CancelledWithoutTickets, EventsIsolated,
                    ListingExclusive, [Next]_vars
             PROVE  ListingExclusive'
    OBVIOUS
<1>1. CASE SetupStep
    <2>1. UNCHANGED <<ticket, listing>>
        BY <1>1, SetupEffect DEF SetupStep
    <2>2. \A u \in TicketKey : ListedTicketOffered(u)'
        BY <2>1 DEF ListingExclusive, ListedTicketOffered, OpenOffer
    <2>3. ASSUME NEW l \in ListingKey, OpenOffer(l)
          PROVE  OpenOfferCurrent(l)'
        BY <2>1, <2>3, OfferFrame DEF ListingExclusive
    <2> QED BY <2>1, <2>2, <2>3 DEF ListingExclusive, OpenOfferCurrent, OpenOffer
<1>2. CASE PurchaseStep
    <2>1. PICK e \in EventKey, tr \in TierKey, id \in 0 .. MaxTicketId - 1 : Issues(e, tr, id)
        BY <1>2, PurchaseEffect
    <2> QED BY <2>1, UnlistedFrame DEF Issues
<1>3. CASE GiftStep
    <2>1. PICK t \in TicketKey, recipient \in Wallet : Gives(t, recipient)
        BY <1>3, GiftEffect
    <2>2. ticket[t].status # "Listed" /\ ticket'[t].status # "Listed"
        BY <2>1 DEF Gives, TransferableTicket, ActiveTicket, TransferTicketOwner, TicketRecord
    <2> QED BY <2>1, <2>2, UnlistedFrame DEF Gives
<1>4. CASE ListStep
    BY <1>4, ListEffect, OpenedOfferFrame
<1>5. CASE CancelListingStep
    <2>1. PICK t \in TicketKey, l \in ListingKey : Withdraws(t, l)
        BY <1>5, CancelListingEffect
    <2>2. ticket'[t].status = "Active" /\ ~OpenOffer(l)'
        BY <2>1 DEF Withdraws, UnlistedTicket, OpenOffer, TicketRecord, ListingRecord
    <2> QED BY <2>1, <2>2, ClosedOfferFrame DEF Withdraws
<1>6. CASE ResaleStep
    <2>1. PICK t \in TicketKey, l \in ListingKey, buyer \in Wallet : Resells(t, l, buyer)
        BY <1>6, ResaleEffect
    <2>2. ticket'[t].status = "Active" /\ ~OpenOffer(l)'
        BY <2>1 DEF Resells, UnlistedTicket, TransferTicketOwner, OpenOffer, TicketRecord,
                    ListingRecord
    <2> QED BY <2>1, <2>2, ClosedOfferFrame DEF Resells
<1>7. CASE PresentStep
    <2>1. PICK t \in TicketKey, nonce \in 0 .. MaxNonce - 1 : Presents(t, nonce)
        BY <1>7, PresentEffect
    <2>2. ticket[t].status # "Listed" /\ ticket'[t].status # "Listed"
        BY <2>1 DEF Presents, PresentableTicket, ActiveTicket, PresentedTicket, TicketRecord
    <2> QED BY <2>1, <2>2, UnlistedFrame DEF Presents
<1>8. CASE CloseIntentStep
    <2>1. PICK t \in TicketKey, i \in IntentKey, status \in {"Cancelled", "Expired"} :
            Retracts(t, i, status)
        BY <1>8, CloseIntentEffect
    <2>2. ActiveTicket(t)
        BY <2>1, PendingHolderActive DEF Retracts
    <2>3. ticket[t].status # "Listed" /\ ticket'[t].status # "Listed"
        BY <2>1, <2>2 DEF Retracts, ActiveTicket, RetractedTicket, TicketRecord
    <2> QED BY <2>1, <2>3, UnlistedFrame DEF Retracts
<1>9. CASE ConsumeStep
    <2>1. PICK signer \in Wallet, t \in TicketKey, i \in IntentKey : Admits(signer, t, i)
        BY <1>9, ConsumeEffect
    <2>2. ActiveTicket(t)
        BY <2>1, PendingHolderActive DEF Admits
    <2>3. ticket[t].status # "Listed" /\ ticket'[t].status # "Listed"
        BY <2>1, <2>2 DEF Admits, ActiveTicket, AdmittedTicket, TicketRecord
    <2> QED BY <2>1, <2>3, UnlistedFrame DEF Admits
<1> QED BY <1>1, <1>2, <1>3, <1>4, <1>5, <1>6, <1>7, <1>8, <1>9 DEF Next, SetupStep

(* A ticket is offered at most once, by its owner, before check-in opens   *)
(* and within the cap, for as long as the offer is open.                   *)
THEOREM ListingAlwaysExclusive == Spec => []ListingExclusive
<1>1. Init => ListingExclusive
    BY DEF Init, ListingExclusive, ListedTicketOffered, OpenOfferCurrent, OpenOffer
<1> QED BY <1>1, ListingExclusiveStep, TypeCorrect, IntentAlwaysExclusive,
           AlwaysCancelledWithoutTickets, EventsAlwaysIsolated, PTL DEF Spec

(* Steps other than a gift and a resale leave every owner where it is. *)
LEMMA OwnersMoveByTransfer ==
    ASSUME TypeOK, [Next]_vars, NEW t \in TicketKey, ticket[t] # None,
           ticket'[t].owner # ticket[t].owner
    PROVE  \/ \E recipient \in Wallet : Gives(t, recipient)
           \/ ResaleStep /\ \E l \in ListingKey, buyer \in Wallet : Resells(t, l, buyer)
<1>1. CASE SetupStep
    BY <1>1, SetupEffect DEF SetupStep
<1>2. CASE PurchaseStep
    <2>1. PICK e \in EventKey, tr \in TierKey, id \in 0 .. MaxTicketId - 1 : Issues(e, tr, id)
        BY <1>2, PurchaseEffect
    <2> QED BY <2>1 DEF Issues, OnlyTicket
<1>3. CASE GiftStep
    <2>1. PICK u \in TicketKey, recipient \in Wallet : Gives(u, recipient)
        BY <1>3, GiftEffect
    <2>2. u = t
        BY <2>1 DEF Gives, OnlyTicket
    <2> QED BY <2>1, <2>2
<1>4. CASE ResaleStep
    <2>1. PICK u \in TicketKey, l \in ListingKey, buyer \in Wallet : Resells(u, l, buyer)
        BY <1>4, ResaleEffect
    <2>2. u = t
        BY <2>1 DEF Resells, OnlyTicket
    <2> QED BY <1>4, <2>1, <2>2
<1>5. CASE ListStep
    <2>1. PICK u \in TicketKey, id \in 0 .. MaxListingId - 1 : Offers(u, id)
        BY <1>5, ListEffect
    <2>2. ticket'[u].owner = ticket[u].owner
        BY <2>1 DEF Offers, ListedTicket, TicketRecord
    <2> QED BY <2>1, <2>2 DEF Offers, OnlyTicket
<1>6. CASE CancelListingStep
    <2>1. PICK u \in TicketKey, l \in ListingKey : Withdraws(u, l)
        BY <1>6, CancelListingEffect
    <2>2. ticket'[u].owner = ticket[u].owner
        BY <2>1 DEF Withdraws, UnlistedTicket, TicketRecord
    <2> QED BY <2>1, <2>2 DEF Withdraws, OnlyTicket
<1>7. CASE PresentStep
    <2>1. PICK u \in TicketKey, nonce \in 0 .. MaxNonce - 1 : Presents(u, nonce)
        BY <1>7, PresentEffect
    <2>2. ticket'[u].owner = ticket[u].owner
        BY <2>1 DEF Presents, PresentedTicket, TicketRecord
    <2> QED BY <2>1, <2>2 DEF Presents, OnlyTicket
<1>8. CASE CloseIntentStep
    <2>1. PICK u \in TicketKey, i \in IntentKey, status \in {"Cancelled", "Expired"} :
            Retracts(u, i, status)
        BY <1>8, CloseIntentEffect
    <2>2. ticket'[u].owner = ticket[u].owner
        BY <2>1 DEF Retracts, RetractedTicket, TicketRecord
    <2> QED BY <2>1, <2>2 DEF Retracts, OnlyTicket
<1>9. CASE ConsumeStep
    <2>1. PICK signer \in Wallet, u \in TicketKey, i \in IntentKey : Admits(signer, u, i)
        BY <1>9, ConsumeEffect
    <2>2. ticket'[u].owner = ticket[u].owner
        BY <2>1 DEF Admits, AdmittedTicket, TicketRecord
    <2> QED BY <2>1, <2>2 DEF Admits, OnlyTicket
<1> QED BY <1>1, <1>2, <1>3, <1>4, <1>5, <1>6, <1>7, <1>8, <1>9 DEF Next, SetupStep

(* What TransfersOnlyWhileOpen asks of one ticket. *)
OpenTransfer(t) ==
    /\ event[ticket[t].event].status = "Published"
    /\ now < event[ticket[t].event].details.check_in_start_at
    /\ \A i \in IntentKey : Pending(i) => intent[i].ticket # t
    /\ \A l \in ListingKey : OpenOffer(l)' => listing'[l].ticket # t
    /\ ticket'[t].transfer_count = ticket[t].transfer_count + 1

(* A step that changes an owner is a transfer that was open. *)
LEMMA TransferStep ==
    ASSUME TypeOK, IntentExclusive, ListingExclusive, [Next]_vars,
           NEW t \in TicketKey, ticket[t] # None, ticket'[t].owner # ticket[t].owner
    PROVE  OpenTransfer(t)
<1>1. ASSUME NEW recipient \in Wallet, Gives(t, recipient)
      PROVE  OpenTransfer(t)
    <2>1. /\ ticket[t] \in TicketRecord /\ ticket[t].status # "Listed"
          /\ ticket[t].active_intent = None
          /\ TransferOpen(ticket[t].event) /\ UNCHANGED listing
        BY <1>1 DEF Gives, TransferableTicket, ActiveTicket
    <2>2. ticket'[t].transfer_count = ticket[t].transfer_count + 1
        BY <1>1, <2>1 DEF Gives, TransferTicketOwner, TicketRecord
    <2>3. Unpresented(t)
        BY <2>1, NotPresented
    <2>4. \A l \in ListingKey : OpenOffer(l)' => listing'[l].ticket # t
        BY <2>1 DEF ListingExclusive, OpenOfferCurrent, OpenOffer
    <2> QED BY <2>1, <2>2, <2>3, <2>4 DEF OpenTransfer, TransferOpen, Unpresented
<1>2. ASSUME NEW l \in ListingKey, NEW buyer \in Wallet, Resells(t, l, buyer)
      PROVE  OpenTransfer(t)
    <2>1. /\ ticket[t] \in TicketRecord /\ ticket[t].status = "Listed"
          /\ TransferOpen(ticket[t].event)
          /\ OpenOffer(l) /\ listing[l].ticket = t /\ OnlyListing(l)
        BY <1>2 DEF Resells
    <2>2. ticket'[t].transfer_count = ticket[t].transfer_count + 1
        BY <1>2, <2>1 DEF Resells, UnlistedTicket, TransferTicketOwner, TicketRecord
    <2>3. Unpresented(t)
        BY <2>1, NotPresented
    <2>4. ~OpenOffer(l)'
        BY <1>2 DEF Resells, OpenOffer, ListingRecord
    <2>5. \A k \in ListingKey : (OpenOffer(k) /\ listing[k].ticket = t) => k = l
        BY <2>1 DEF ListingExclusive, OpenOfferCurrent
    <2>6. \A k \in ListingKey : OpenOffer(k)' => listing'[k].ticket # t
        BY <2>1, <2>4, <2>5 DEF OnlyListing, OpenOffer
    <2> QED BY <2>1, <2>2, <2>3, <2>6 DEF OpenTransfer, TransferOpen, Unpresented
<1> QED BY <1>1, <1>2, OwnersMoveByTransfer

(* A ticket changes hands only while its event circulates tickets, never   *)
(* with a presentation pending, and no offer of the old owner survives.    *)
THEOREM TransfersAlwaysOpen == Spec => TransfersOnlyWhileOpen
<1>1. TypeOK /\ IntentExclusive /\ ListingExclusive /\ [Next]_vars =>
        [\A t \in TicketKey :
            (ticket[t] # None /\ ticket'[t].owner # ticket[t].owner) => OpenTransfer(t)]_vars
    BY TransferStep
<1> QED BY <1>1, TypeCorrect, IntentAlwaysExclusive, ListingAlwaysExclusive, PTL
        DEF Spec, TransfersOnlyWhileOpen, OpenTransfer

---------------------------------------------------------------------------
(***************************************************************************)
(* The program implements TicketRegistry, for every instance: each step of *)
(* the program is one step of the registry on one ticket, or none.         *)
(***************************************************************************)

phases  == [t \in TicketKey |-> PhaseOf(t)]
holders == [t \in TicketKey |-> HolderOf(t)]

(* The phase of a ticket by its record, ... *)
LEMMA Phases ==
    ASSUME NEW t \in TicketKey
    PROVE  /\ ticket[t] = None => PhaseOf(t) = "unissued" /\ HolderOf(t) = None
           /\ ticket[t] # None => HolderOf(t) = ticket[t].owner
           /\ (ticket[t] # None /\ ticket[t].status = "Used") => PhaseOf(t) = "used"
           /\ (ticket[t] # None /\ ticket[t].status = "Listed") => PhaseOf(t) = "offered"
           /\ (ticket[t] # None /\ ticket[t].status = "Active"
                 /\ ticket[t].active_intent = None) => PhaseOf(t) = "held"
           /\ (ticket[t] # None /\ ticket[t].status = "Active"
                 /\ ticket[t].active_intent # None) => PhaseOf(t) = "presented"
BY DEF PhaseOf, HolderOf

(* ... and the same after a step. *)
LEMMA PhasesAfter ==
    ASSUME NEW t \in TicketKey
    PROVE  /\ ticket'[t] = None => PhaseOf(t)' = "unissued" /\ HolderOf(t)' = None
           /\ ticket'[t] # None => HolderOf(t)' = ticket'[t].owner
           /\ (ticket'[t] # None /\ ticket'[t].status = "Used") => PhaseOf(t)' = "used"
           /\ (ticket'[t] # None /\ ticket'[t].status = "Listed") => PhaseOf(t)' = "offered"
           /\ (ticket'[t] # None /\ ticket'[t].status = "Active"
                 /\ ticket'[t].active_intent = None) => PhaseOf(t)' = "held"
           /\ (ticket'[t] # None /\ ticket'[t].status = "Active"
                 /\ ticket'[t].active_intent # None) => PhaseOf(t)' = "presented"
BY DEF PhaseOf, HolderOf

(* The image of a step that rewrites one ticket.                           *)
LEMMA OneTicketImage ==
    ASSUME NEW t \in TicketKey, OnlyTicket(t)
    PROVE  /\ phases' = [phases EXCEPT ![t] = PhaseOf(t)']
           /\ holders' = [holders EXCEPT ![t] = HolderOf(t)']
           /\ phases[t] = PhaseOf(t) /\ holders[t] = HolderOf(t)
<1>1. \A u \in TicketKey \ {t} : PhaseOf(u)' = PhaseOf(u) /\ HolderOf(u)' = HolderOf(u)
    BY DEF OnlyTicket, PhaseOf, HolderOf
<1> QED BY <1>1 DEF phases, holders

(* From one phase to another, in the same hands.                           *)
LEMMA MoveImage ==
    ASSUME NEW t \in TicketKey, OnlyTicket(t), HolderOf(t)' = HolderOf(t),
           \/ PhaseOf(t) = "held" /\ PhaseOf(t)' \in {"offered", "presented"}
           \/ PhaseOf(t) = "offered" /\ PhaseOf(t)' = "held"
           \/ PhaseOf(t) = "presented" /\ PhaseOf(t)' \in {"held", "used"}
    PROVE  Registry!RegistryNext
<1>1. holders' = holders
    BY OneTicketImage DEF holders
<1> QED BY <1>1, OneTicketImage
        DEF phases, holders, Registry!RegistryNext, Registry!Move, Registry!Offer,
            Registry!Withdraw, Registry!Present, Registry!Retract, Registry!Admit

(* Into other hands, held afterwards.                                      *)
LEMMA HandImage ==
    ASSUME NEW t \in TicketKey, OnlyTicket(t), HolderOf(t)' \in Wallet,
           HolderOf(t)' # HolderOf(t), PhaseOf(t)' = "held",
           PhaseOf(t) \in {"unissued", "held", "offered"}
    PROVE  Registry!RegistryNext
<1>1. CASE PhaseOf(t) = "held"
    <2>1. phases' = phases
        BY <1>1, OneTicketImage DEF phases
    <2> QED BY <1>1, <2>1, OneTicketImage
            DEF phases, holders, Registry!RegistryNext, Registry!Hand, Registry!Give
<1>2. CASE PhaseOf(t) \in {"unissued", "offered"}
    BY <1>2, OneTicketImage
       DEF phases, holders, Registry!RegistryNext, Registry!Move, Registry!Hand,
           Registry!Issue, Registry!Sell
<1> QED BY <1>1, <1>2

(* Every step is one of the registry, or invisible in it. *)
LEMMA RegistryStep ==
    ASSUME TypeOK, IntentExclusive, [Next]_vars
    PROVE  Registry!RegistryNext \/ UNCHANGED <<phases, holders>>
<1> USE NoneAssumption
<1>1. CASE SetupStep
    <2>1. UNCHANGED ticket
        BY <1>1, SetupEffect DEF SetupStep
    <2>2. \A t \in TicketKey : PhaseOf(t)' = PhaseOf(t) /\ HolderOf(t)' = HolderOf(t)
        BY <2>1 DEF PhaseOf, HolderOf
    <2> QED BY <2>2 DEF phases, holders
<1>2. CASE PurchaseStep
    <2>1. PICK e \in EventKey, tr \in TierKey, id \in 0 .. MaxTicketId - 1 : Issues(e, tr, id)
        BY <1>2, PurchaseEffect
    <2> DEFINE t == <<e, id>>
    <2>2. /\ t \in TicketKey /\ OnlyTicket(t) /\ ticket[t] = None
          /\ ticket'[t] \in TicketRecord /\ ticket'[t].status = "Active"
          /\ ticket'[t].active_intent = None
        BY <2>1 DEF Issues
    <2> HIDE DEF t
    <2>3. ticket'[t] # None /\ ticket'[t].owner \in Wallet
        BY <2>2 DEF TicketRecord
    <2> QED BY <2>2, <2>3, Phases, PhasesAfter, HandImage
<1>3. CASE GiftStep
    <2>1. PICK t \in TicketKey, recipient \in Wallet : Gives(t, recipient)
        BY <1>3, GiftEffect
    <2>2. /\ ticket[t] \in TicketRecord /\ OnlyTicket(t)
          /\ ticket[t].status = "Active" /\ ticket[t].active_intent = None
          /\ ticket'[t] \in TicketRecord
          /\ ticket'[t].status = "Active" /\ ticket'[t].active_intent = None
          /\ ticket'[t].owner = recipient /\ recipient # ticket[t].owner
        BY <2>1 DEF Gives, TransferableTicket, ActiveTicket, TransferTicketOwner, TicketRecord
    <2> QED BY <2>2, Phases, PhasesAfter, HandImage
<1>4. CASE ListStep
    <2>1. PICK t \in TicketKey, id \in 0 .. MaxListingId - 1 : Offers(t, id)
        BY <1>4, ListEffect
    <2>2. /\ ticket[t] \in TicketRecord /\ OnlyTicket(t)
          /\ ticket[t].status = "Active" /\ ticket[t].active_intent = None
          /\ ticket'[t] \in TicketRecord
          /\ ticket'[t].status = "Listed" /\ ticket'[t].owner = ticket[t].owner
        BY <2>1 DEF Offers, TransferableTicket, ActiveTicket, ListedTicket, TicketRecord
    <2> QED BY <2>2, Phases, PhasesAfter, MoveImage
<1>5. CASE CancelListingStep
    <2>1. PICK t \in TicketKey, l \in ListingKey : Withdraws(t, l)
        BY <1>5, CancelListingEffect
    <2>2. ticket[t] \in TicketRecord /\ ticket[t].active_intent = None
        BY <2>1, NotPresented, ActiveIntentUnpresented DEF Withdraws
    <2>3. /\ ticket[t].status = "Listed" /\ OnlyTicket(t)
          /\ ticket'[t] \in TicketRecord
          /\ ticket'[t].status = "Active" /\ ticket'[t].active_intent = None
          /\ ticket'[t].owner = ticket[t].owner
        BY <2>1, <2>2 DEF Withdraws, UnlistedTicket, TicketRecord
    <2> QED BY <2>2, <2>3, Phases, PhasesAfter, MoveImage
<1>6. CASE ResaleStep
    <2>1. PICK t \in TicketKey, l \in ListingKey, buyer \in Wallet : Resells(t, l, buyer)
        BY <1>6, ResaleEffect
    <2>2. ticket[t] \in TicketRecord /\ ticket[t].active_intent = None
        BY <2>1, NotPresented, ActiveIntentUnpresented DEF Resells
    <2>3. /\ ticket[t].status = "Listed" /\ OnlyTicket(t)
          /\ ticket'[t] \in TicketRecord
          /\ ticket'[t].status = "Active" /\ ticket'[t].active_intent = None
          /\ ticket'[t].owner = buyer /\ buyer # ticket[t].owner
        BY <2>1, <2>2 DEF Resells, UnlistedTicket, TransferTicketOwner, TicketRecord
    <2> QED BY <2>2, <2>3, Phases, PhasesAfter, HandImage
<1>7. CASE PresentStep
    <2>1. PICK t \in TicketKey, nonce \in 0 .. MaxNonce - 1 : Presents(t, nonce)
        BY <1>7, PresentEffect
    <2>2. /\ ticket[t] \in TicketRecord /\ OnlyTicket(t)
          /\ ticket[t].status = "Active" /\ ticket[t].active_intent = None
          /\ ticket'[t] \in TicketRecord
          /\ ticket'[t].status = "Active" /\ ticket'[t].active_intent # None
          /\ ticket'[t].owner = ticket[t].owner
        BY <2>1 DEF Presents, PresentableTicket, ActiveTicket, PresentedTicket, TicketRecord
    <2> QED BY <2>2, Phases, PhasesAfter, MoveImage
<1>8. CASE CloseIntentStep
    <2>1. PICK t \in TicketKey, i \in IntentKey, status \in {"Cancelled", "Expired"} :
            Retracts(t, i, status)
        BY <1>8, CloseIntentEffect
    <2>2. ActiveTicket(t)
        BY <2>1, PendingHolderActive DEF Retracts
    <2>3. /\ ticket[t] \in TicketRecord /\ OnlyTicket(t)
          /\ ticket[t].status = "Active" /\ ticket[t].active_intent # None
          /\ ticket'[t] \in TicketRecord
          /\ ticket'[t].status = "Active" /\ ticket'[t].active_intent = None
          /\ ticket'[t].owner = ticket[t].owner
        BY <2>1, <2>2
           DEF Retracts, PendingIntent, ActiveTicket, RetractedTicket, TicketRecord
    <2> QED BY <2>3, Phases, PhasesAfter, MoveImage
<1>9. CASE ConsumeStep
    <2>1. PICK signer \in Wallet, t \in TicketKey, i \in IntentKey : Admits(signer, t, i)
        BY <1>9, ConsumeEffect
    <2>2. ActiveTicket(t)
        BY <2>1, PendingHolderActive DEF Admits
    <2>3. /\ ticket[t] \in TicketRecord /\ OnlyTicket(t)
          /\ ticket[t].status = "Active" /\ ticket[t].active_intent # None
          /\ ticket'[t] \in TicketRecord
          /\ ticket'[t].status = "Used" /\ ticket'[t].owner = ticket[t].owner
        BY <2>1, <2>2
           DEF Admits, PendingIntent, ActiveTicket, AdmittedTicket, TicketRecord
    <2> QED BY <2>3, Phases, PhasesAfter, MoveImage
<1> QED BY <1>1, <1>2, <1>3, <1>4, <1>5, <1>6, <1>7, <1>8, <1>9 DEF Next, SetupStep

(* To somebody who sees only tickets the program is the registry: issued   *)
(* once, circulating in one pair of hands, admitted once and for good.     *)
THEOREM ProgramImplementsRegistry == Spec => ImplementsRegistry
<1>1. Init => Registry!RegistryInit
    BY DEF Init, Registry!RegistryInit, PhaseOf, HolderOf
<1>2. TypeOK /\ IntentExclusive /\ [Next]_vars
        => [Registry!RegistryNext]_<<phases, holders>>
    BY RegistryStep
<1> QED BY <1>1, <1>2, TypeCorrect, IntentAlwaysExclusive, PTL
        DEF Spec, ImplementsRegistry, Registry!RegistrySpec, phases, holders

---------------------------------------------------------------------------
(* Steps that circulate a ticket *)

Circulation ==
    \/ GiftStep \/ ListStep \/ CancelListingStep \/ ResaleStep
    \/ PresentStep \/ CloseIntentStep \/ ConsumeStep

(* A step sets up events, sells a ticket, or circulates one. *)
LEMMA NextCases ==
    ASSUME [Next]_vars
    PROVE  SetupStep \/ PurchaseStep \/ Circulation
BY DEF Next, SetupStep, Circulation

(* The setup accounts are read, never written, once a ticket circulates,   *)
(* and only a resale moves lamports.                                       *)
LEMMA CirculationKeepsSetup ==
    ASSUME Circulation
    PROVE  /\ UNCHANGED <<event, tier, staff>>
           /\ ResaleStep \/ UNCHANGED balance
<1>1. CASE GiftStep
    BY <1>1 DEF GiftStep, GiftTicket, GiftTicketCore, setupVars
<1>2. CASE ListStep
    BY <1>2 DEF ListStep, ListTicket, ListTicketCore, OpenListing, setupVars
<1>3. CASE CancelListingStep
    BY <1>3 DEF CancelListingStep, CancelListing, CancelListingCore, WithdrawListing,
                setupVars
<1>4. CASE ResaleStep
    BY <1>4 DEF ResaleStep, BuyResale, BuyResaleCore, setupVars
<1>5. CASE PresentStep
    BY <1>5 DEF PresentStep, PresentCheckIn, PresentCheckInCore, OpenIntent, setupVars
<1>6. CASE CloseIntentStep
    BY <1>6 DEF CloseIntentStep, CancelCheckIn, ExpireCheckIn, CloseIntent, setupVars
<1>7. CASE ConsumeStep
    BY <1>7 DEF ConsumeStep, ConsumeCheckIn, ConsumeCheckInCore, UseTicket, setupVars
<1> QED BY <1>1, <1>2, <1>3, <1>4, <1>5, <1>6, <1>7 DEF Circulation

---------------------------------------------------------------------------
(* The terms of a published event *)

EventTermsKept(e) ==
    (event[e] # None /\ event[e].status # "Draft") =>
        /\ event'[e].details = event[e].details
        /\ event'[e].platform_fee_bps = event[e].platform_fee_bps
        /\ event'[e].platform_treasury = event[e].platform_treasury
        /\ event'[e].status # "Draft"

TierTermsKept(tr) ==
    LET e == tr[1] IN
    (event[e] # None /\ event[e].status # "Draft") =>
        IF tier[tr] = None THEN tier'[tr] = None
        ELSE tier'[tr] = [tier[tr] EXCEPT !.sold = tier'[tr].sold]

(* An account that does not change keeps its terms. *)
LEMMA SameTierKept ==
    ASSUME TypeOK, NEW tr \in TierKey, tier'[tr] = tier[tr]
    PROVE  TierTermsKept(tr)
BY DEF TierTermsKept, TierRecord, TypeOK, StateTypeOK

(* No step changes the terms of a published event. *)
LEMMA EventTermsStep ==
    ASSUME TypeOK, [Next]_vars, NEW e \in EventKey
    PROVE  EventTermsKept(e)
<1>1. CASE SetupStep
    BY <1>1, SetupKeeps DEF SetupStep, EventKept, EventTermsKept
<1>2. CASE PurchaseStep
    <2>1. PICK k \in EventKey, tr \in TierKey, id \in 0 .. MaxTicketId - 1 : Issues(k, tr, id)
        BY <1>2, PurchaseEffect
    <2> QED BY <2>1 DEF Issues, EventTermsKept, EventRecord, TypeOK, StateTypeOK
<1>3. CASE Circulation
    BY <1>3, CirculationKeepsSetup DEF EventTermsKept
<1> QED BY <1>1, <1>2, <1>3, NextCases

(* Only the instructions on tiers set a tier up. *)
LEMMA TiersUntouched ==
    ASSUME SetupStep, ~TierStep
    PROVE  UNCHANGED tier
BY DEF SetupStep, Tick, PlatformStep, InitializePlatform, UpdatePlatform, StandardStep,
       SetAssetStandard, EventStep, CreateEvent, UpdateEvent, PublishEvent, PublishEffect,
       CancelEvent, CloseEvent, StaffStep, AuthorizeStaff, RevokeStaff, setupVars, vars

(* Tiers are written in a draft of their own event, or counted by a sale. *)
LEMMA TierTermsStep ==
    ASSUME TypeOK, EventsIsolated, [Next]_vars, NEW k \in TierKey
    PROVE  TierTermsKept(k)
<1>1. CASE SetupStep /\ ~TierStep
    BY <1>1, TiersUntouched, SameTierKept
<1>2. CASE TierStep
    <2>1. PICK signer \in Wallet, e \in EventKey, price \in PriceInputs,
               supply \in SupplyInputs :
            \/ \E id \in 0 .. MaxTierId - 1 : AddTier(signer, e, id, price, supply)
            \/ \E tr \in TierKey, active \in BOOLEAN :
                  UpdateTier(signer, e, tr, price, supply, active)
        BY <1>2 DEF TierStep
    <2>2. ASSUME NEW id \in 0 .. MaxTierId - 1, AddTier(signer, e, id, price, supply)
          PROVE  TierTermsKept(k)
        <3>1. CASE k = <<e, id>>
            BY <2>2, <3>1 DEF AddTier, AddTierGuard, TierTermsKept
        <3>2. CASE k # <<e, id>>
            BY <2>2, <3>2, SameTierKept DEF AddTier, TypeOK, StateTypeOK
        <3> QED BY <3>1, <3>2
    <2>3. ASSUME NEW tr \in TierKey, NEW active \in BOOLEAN,
                 UpdateTier(signer, e, tr, price, supply, active)
          PROVE  TierTermsKept(k)
        <3>1. CASE k = tr
            <4>1. k[1] = e /\ event[e].status = "Draft"
                BY <2>3, <3>1 DEF UpdateTier, EventsIsolated
            <4> QED BY <4>1 DEF TierTermsKept
        <3>2. CASE k # tr
            BY <2>3, <3>2, SameTierKept DEF UpdateTier, TypeOK, StateTypeOK
        <3> QED BY <3>1, <3>2
    <2> QED BY <2>1, <2>2, <2>3
<1>3. CASE PurchaseStep
    <2>1. PICK e \in EventKey, tr \in TierKey, id \in 0 .. MaxTicketId - 1 : Issues(e, tr, id)
        BY <1>3, PurchaseEffect
    <2>2. CASE k = tr
        <3>1. tier'[k] = [tier[k] EXCEPT !.sold = tier[k].sold + 1]
            BY <2>1, <2>2 DEF Issues, TypeOK, StateTypeOK
        <3>2. tier[k] \in TierRecord
            BY <2>1, <2>2 DEF Issues
        <3> QED BY <3>1, <3>2, NoneAssumption DEF TierTermsKept, TierRecord
    <2>3. CASE k # tr
        BY <2>1, <2>3, SameTierKept DEF Issues, TypeOK, StateTypeOK
    <2> QED BY <2>2, <2>3
<1>4. CASE Circulation
    BY <1>4, CirculationKeepsSetup, SameTierKept
<1> QED BY <1>1, <1>2, <1>3, <1>4, NextCases

(* Nobody rewrites a sale: not the admin, not the organizer, not the clock. *)
THEOREM TermsStayFrozen == Spec => TermsFrozen
<1>1. TypeOK /\ EventsIsolated /\ [Next]_vars =>
        [/\ \A e \in EventKey : EventTermsKept(e)
         /\ \A tr \in TierKey : TierTermsKept(tr)]_vars
    BY EventTermsStep, TierTermsStep
<1> QED BY <1>1, TypeCorrect, EventsAlwaysIsolated, PTL
        DEF Spec, TermsFrozen, EventTermsKept, TierTermsKept

---------------------------------------------------------------------------
(* The asset behind a ticket *)

(* A frozen asset that is thawed, moved and frozen again is the new *)
(* owner's and frozen.                                              *)
LEMMA RefrozenAsset ==
    ASSUME NEW a \in AssetRecord, NEW w \in Wallet, NEW b,
           b = SetFrozen(CoreTransfer(SetFrozen(a, FALSE), w), TRUE)
    PROVE  /\ b \in AssetRecord /\ b.owner = w
           /\ b.standard = a.standard /\ b.frozen
BY DEF SetFrozen, CoreTransfer, AssetRecord

(* A step on one ticket keeps custody if it leaves that ticket backed.     *)
LEMMA BackedTicket ==
    ASSUME CustodyConsistent, NEW t \in TicketKey, OnlyTicket(t), OnlyAsset(t),
           ticket'[t] \in TicketRecord, asset'[t] \in AssetRecord,
           asset'[t].standard = ticket'[t].asset_standard,
           asset'[t].owner = ticket'[t].owner,
           ticket'[t].asset_standard = "MplCore" =>
              asset'[t].frozen /\ (ticket'[t].status = "Listed" => asset'[t].delegated)
    PROVE  CustodyConsistent'
<1>1. AssetFollows(t)'
    BY NoneAssumption DEF AssetFollows
<1>2. ASSUME NEW u \in TicketKey, u # t
      PROVE  AssetFollows(u)'
    BY <1>2 DEF CustodyConsistent, AssetFollows, OnlyTicket, OnlyAsset
<1> QED BY <1>1, <1>2 DEF CustodyConsistent

(* A step that leaves the asset alone may not list the ticket.             *)
LEMMA SameAssetTicket ==
    ASSUME TypeOK, CustodyConsistent, NEW t \in TicketKey, OnlyTicket(t), UNCHANGED asset,
           ticket[t] \in TicketRecord, ticket'[t] \in TicketRecord,
           ticket'[t].owner = ticket[t].owner,
           ticket'[t].asset_standard = ticket[t].asset_standard,
           ticket'[t].status # "Listed"
    PROVE  CustodyConsistent'
<1>1. AssetFollows(t) /\ ticket[t] # None
    BY NoneAssumption DEF CustodyConsistent
<1>2. asset[t] \in AssetRecord
    BY <1>1 DEF AssetFollows, TypeOK, StateTypeOK
<1> QED BY <1>1, <1>2, BackedTicket DEF AssetFollows, OnlyAsset

(* A new ticket comes with an asset of the platform's standard.            *)
LEMMA PurchaseCustody ==
    ASSUME TypeOK, CustodyConsistent, PurchaseStep
    PROVE  CustodyConsistent'
<1>1. PICK buyer \in Holder, e \in EventKey, tr \in TierKey, id \in 0 .. MaxTicketId - 1 :
        PrimaryPurchase(buyer, e, tr, id) \/ PrimaryPurchaseCore(buyer, e, tr, id)
    BY DEF PurchaseStep
<1> DEFINE t == <<e, id>>
<1>2. t \in TicketKey /\ buyer \in Wallet
    BY StateAssumption DEF TicketKey
<1>3. PICK standard \in {"Managed", "MplCore"}, a \in {ManagedAsset(buyer), CoreAsset(buyer)} :
        /\ SellTicket(buyer, e, tr, id, standard)
        /\ asset' = [asset EXCEPT ![t] = a]
        /\ a \in AssetRecord /\ a.standard = standard /\ a.owner = buyer
        /\ standard = "MplCore" => a.frozen
    BY <1>1, <1>2 DEF PrimaryPurchase, PrimaryPurchaseCore, ManagedAsset, CoreAsset,
       AssetRecord, AssetStandard
<1>4. /\ ticket'[t] = IssuedTicket(e, tr, standard, buyer, tier[tr].price_lamports)
      /\ OnlyTicket(t)
    BY <1>2, <1>3 DEF SellTicket, OnlyTicket, TypeOK, StateTypeOK
<1>5. /\ ticket'[t] \in TicketRecord /\ ticket'[t].asset_standard = standard
      /\ ticket'[t].owner = buyer /\ ticket'[t].status = "Active"
    <2>1. standard \in AssetStandard /\ tier[tr].price_lamports \in Nat
        BY <1>3 DEF SellTicket, SaleGuard, AssetStandard, TierRecord, TypeOK, StateTypeOK
    <2> QED BY <1>2, <1>4, <2>1, IssuedTicketType DEF IssuedTicket
<1>6. asset'[t] = a /\ OnlyAsset(t)
    BY <1>2, <1>3 DEF OnlyAsset, TypeOK, StateTypeOK
<1> QED BY <1>2, <1>3, <1>4, <1>5, <1>6, BackedTicket

(* Custody is kept by a gift, ... *)
LEMMA GiftCustody ==
    ASSUME TypeOK, CustodyConsistent, GiftStep
    PROVE  CustodyConsistent'
<1>1. PICK signer \in Holder, recipient \in Holder, e \in EventKey, t \in TicketKey :
        GiftTicket(signer, recipient, e, t) \/ GiftTicketCore(signer, recipient, e, t)
    BY DEF GiftStep
<1>2. /\ recipient \in Wallet /\ GiftGuard(signer, recipient, e, t)
      /\ ticket[t] \in TicketRecord /\ ticket[t].status = "Active"
      /\ asset[t] \in AssetRecord /\ asset[t].standard = ticket[t].asset_standard
    BY <1>1, StateAssumption
       DEF GiftTicket, GiftTicketCore, GiftGuard, TicketOfEvent, TransferableTicket,
           ActiveTicket, VerifyManagedAsset, VerifyCoreAsset, TypeOK, StateTypeOK
<1>3. /\ ticket'[t] = TransferTicketOwner(ticket[t], recipient)
      /\ OnlyTicket(t) /\ OnlyAsset(t)
    BY <1>1 DEF GiftTicket, GiftTicketCore, OnlyTicket, OnlyAsset, TypeOK, StateTypeOK
<1>4. /\ ticket'[t] \in TicketRecord
      /\ ticket'[t].asset_standard = ticket[t].asset_standard
      /\ ticket'[t].owner = recipient /\ ticket'[t].status = "Active"
    <2>1. ticket'[t] \in TicketRecord
        BY <1>2, <1>3, TransferTicketOwnerType DEF GiftGuard
    <2> QED BY <1>2, <1>3, <2>1 DEF TransferTicketOwner, TicketRecord
<1>5. CASE GiftTicket(signer, recipient, e, t)
    <2>1. /\ asset'[t] = [asset[t] EXCEPT !.owner = recipient]
          /\ ticket[t].asset_standard = "Managed"
        BY <1>5 DEF GiftTicket, VerifyManagedAsset, TypeOK, StateTypeOK
    <2>2. /\ asset'[t] \in AssetRecord /\ asset'[t].owner = recipient
          /\ asset'[t].standard = asset[t].standard
        BY <1>2, <2>1 DEF AssetRecord
    <2> QED BY <1>2, <1>3, <1>4, <2>1, <2>2, BackedTicket
<1>6. CASE GiftTicketCore(signer, recipient, e, t)
    <2>1. asset'[t] = SetFrozen(CoreTransfer(SetFrozen(asset[t], FALSE), recipient), TRUE)
        BY <1>6 DEF GiftTicketCore, TypeOK, StateTypeOK
    <2>2. /\ asset'[t] \in AssetRecord /\ asset'[t].owner = recipient
          /\ asset'[t].standard = asset[t].standard /\ asset'[t].frozen
        BY <1>2, <2>1, RefrozenAsset
    <2> QED BY <1>2, <1>3, <1>4, <2>2, BackedTicket
<1> QED BY <1>1, <1>5, <1>6

(* ... by a listing, which delegates a Core asset, ... *)
LEMMA ListCustody ==
    ASSUME TypeOK, CustodyConsistent, ListStep
    PROVE  CustodyConsistent'
<1>1. PICK seller \in Holder, e \in EventKey, t \in TicketKey,
           id \in 0 .. MaxListingId - 1, price \in ResalePriceInputs,
           expires_at \in 0 .. MaxTime :
        \/ ListTicket(seller, e, t, id, price, expires_at)
        \/ ListTicketCore(seller, e, t, id, price, expires_at)
    BY DEF ListStep
<1>2. /\ OpenListing(seller, e, t, id, price, expires_at)
      /\ ticket[t] \in TicketRecord
      /\ asset[t] \in AssetRecord /\ asset[t].standard = ticket[t].asset_standard
      /\ asset[t].owner = ticket[t].owner
    BY <1>1 DEF ListTicket, ListTicketCore, OpenListing, ListingGuard, TicketOfEvent,
       VerifyManagedAsset, VerifyCoreAsset, TypeOK, StateTypeOK
<1>3. /\ ticket'[t] = ListedTicket(ticket[t]) /\ OnlyTicket(t) /\ OnlyAsset(t)
    BY <1>1, <1>2 DEF ListTicket, ListTicketCore, OpenListing, OnlyTicket, OnlyAsset,
                      TypeOK, StateTypeOK
<1>4. /\ ticket'[t] \in TicketRecord
      /\ ticket'[t].asset_standard = ticket[t].asset_standard
      /\ ticket'[t].owner = ticket[t].owner
    <2>1. ticket'[t] \in TicketRecord
        BY <1>2, <1>3, ListedTicketType DEF OpenListing, ListingGuard
    <2> QED BY <1>2, <1>3, <2>1 DEF ListedTicket, TicketRecord
<1>5. CASE ListTicket(seller, e, t, id, price, expires_at)
    <2>1. asset'[t] = asset[t] /\ ticket[t].asset_standard = "Managed"
        BY <1>5 DEF ListTicket, VerifyManagedAsset
    <2> QED BY <1>2, <1>3, <1>4, <2>1, BackedTicket
<1>6. CASE ListTicketCore(seller, e, t, id, price, expires_at)
    <2>1. /\ asset'[t] = AddTransferDelegate(asset[t])
          /\ ticket[t].asset_standard = "MplCore"
        BY <1>6 DEF ListTicketCore, VerifyCoreAsset, TypeOK, StateTypeOK
    <2>2. asset[t].frozen
        BY <1>2, <2>1, NoneAssumption DEF CustodyConsistent, AssetFollows
    <2>3. /\ asset'[t] \in AssetRecord /\ asset'[t].owner = asset[t].owner
          /\ asset'[t].standard = asset[t].standard
          /\ asset'[t].frozen /\ asset'[t].delegated
        BY <1>2, <2>1, <2>2 DEF AddTransferDelegate, AssetRecord
    <2> QED BY <1>2, <1>3, <1>4, <2>3, BackedTicket
<1> QED BY <1>1, <1>5, <1>6

(* ... by a listing withdrawn, which leaves the delegate, ... *)
LEMMA CancelListingCustody ==
    ASSUME TypeOK, CustodyConsistent, CancelListingStep
    PROVE  CustodyConsistent'
<1>1. PICK signer \in Holder, t \in TicketKey, l \in ListingKey :
        CancelListing(signer, t, l) \/ CancelListingCore(signer, t, l)
    BY DEF CancelListingStep
<1>2. /\ ticket[t] \in TicketRecord
      /\ ticket'[t] = UnlistedTicket(ticket[t]) /\ OnlyTicket(t)
    BY <1>1 DEF CancelListing, CancelListingCore, WithdrawListing, WithdrawGuard,
       CancelListingAccounts, OnlyTicket, TypeOK, StateTypeOK
<1>3. /\ ticket'[t] \in TicketRecord /\ ticket'[t].status # "Listed"
      /\ ticket'[t].asset_standard = ticket[t].asset_standard
      /\ ticket'[t].owner = ticket[t].owner
    BY <1>2 DEF UnlistedTicket, TicketRecord
<1>4. CASE CancelListing(signer, t, l)
    BY <1>2, <1>3, <1>4, SameAssetTicket DEF CancelListing
<1>5. CASE CancelListingCore(signer, t, l)
    <2>1. /\ asset[t] \in AssetRecord /\ asset[t].standard = ticket[t].asset_standard
          /\ asset[t].owner = ticket[t].owner
          /\ asset'[t] = SetFrozen(RemoveTransferDelegate(SetFrozen(asset[t], FALSE)), TRUE)
          /\ OnlyAsset(t)
        BY <1>5 DEF CancelListingCore, VerifyCoreAsset, WithdrawListing, WithdrawGuard,
           OnlyAsset, TypeOK, StateTypeOK
    <2>2. /\ asset'[t] \in AssetRecord /\ asset'[t].owner = asset[t].owner
          /\ asset'[t].standard = asset[t].standard /\ asset'[t].frozen
        BY <2>1 DEF SetFrozen, RemoveTransferDelegate, AssetRecord
    <2> QED BY <1>2, <1>3, <2>1, <2>2, BackedTicket
<1> QED BY <1>1, <1>4, <1>5

(* ... and by a resale, which moves the asset and drops it. *)
LEMMA ResaleCustody ==
    ASSUME TypeOK, CustodyConsistent, ResaleStep
    PROVE  CustodyConsistent'
<1>1. PICK buyer \in Holder, e \in EventKey, t \in TicketKey, l \in ListingKey :
        BuyResale(buyer, e, t, l) \/ BuyResaleCore(buyer, e, t, l)
    BY DEF ResaleStep
<1>2. /\ buyer \in Wallet /\ FillListing(buyer, t, l) /\ ticket[t] \in TicketRecord
      /\ asset[t] \in AssetRecord /\ asset[t].standard = ticket[t].asset_standard
    BY <1>1, StateAssumption
       DEF BuyResale, BuyResaleCore, ResaleGuard, BuyResaleAccounts, TicketOfEvent,
           VerifyManagedAsset, VerifyCoreAsset, TypeOK, StateTypeOK
<1>3. /\ ticket'[t] = UnlistedTicket(TransferTicketOwner(ticket[t], buyer))
      /\ OnlyTicket(t)
    BY <1>2 DEF FillListing, OnlyTicket, TypeOK, StateTypeOK
<1>4. /\ ticket'[t] \in TicketRecord
      /\ ticket'[t].asset_standard = ticket[t].asset_standard
      /\ ticket'[t].owner = buyer /\ ticket'[t].status # "Listed"
    <2>1. TransferTicketOwner(ticket[t], buyer) \in TicketRecord
        BY <1>2, TransferTicketOwnerType DEF FillListing
    <2> QED BY <1>2, <1>3, <2>1 DEF UnlistedTicket, TransferTicketOwner, TicketRecord
<1>5. CASE BuyResale(buyer, e, t, l)
    <2>1. /\ asset'[t] = [asset[t] EXCEPT !.owner = buyer] /\ OnlyAsset(t)
          /\ ticket[t].asset_standard = "Managed"
        BY <1>5 DEF BuyResale, VerifyManagedAsset, OnlyAsset, TypeOK, StateTypeOK
    <2>2. /\ asset'[t] \in AssetRecord /\ asset'[t].owner = buyer
          /\ asset'[t].standard = asset[t].standard
        BY <1>2, <2>1 DEF AssetRecord
    <2> QED BY <1>2, <1>3, <1>4, <2>1, <2>2, BackedTicket
<1>6. CASE BuyResaleCore(buyer, e, t, l)
    <2>1. /\ asset'[t] = SetFrozen(CoreTransfer(SetFrozen(asset[t], FALSE), buyer), TRUE)
          /\ OnlyAsset(t)
        BY <1>6 DEF BuyResaleCore, OnlyAsset, TypeOK, StateTypeOK
    <2>2. /\ asset'[t] \in AssetRecord /\ asset'[t].owner = buyer
          /\ asset'[t].standard = asset[t].standard /\ asset'[t].frozen
        BY <1>2, <2>1, RefrozenAsset
    <2> QED BY <1>2, <1>3, <1>4, <2>1, <2>2, BackedTicket
<1> QED BY <1>1, <1>5, <1>6

(* Every step keeps the custody of every asset. *)
LEMMA CustodyStep ==
    TypeOK /\ IntentExclusive /\ CustodyConsistent /\ [Next]_vars => CustodyConsistent'
<1> SUFFICES ASSUME TypeOK, IntentExclusive, CustodyConsistent, [Next]_vars
             PROVE  CustodyConsistent'
    OBVIOUS
<1>1. CASE SetupStep
    BY <1>1, SetupEffect DEF SetupStep, CustodyConsistent, AssetFollows
<1>2. CASE PurchaseStep
    BY <1>2, PurchaseCustody
<1>3. CASE GiftStep \/ ListStep \/ CancelListingStep \/ ResaleStep
    BY <1>3, GiftCustody, ListCustody, CancelListingCustody, ResaleCustody
<1>4. CASE PresentStep
    <2>1. PICK t \in TicketKey, nonce \in 0 .. MaxNonce - 1 : Presents(t, nonce)
        BY <1>4, PresentEffect
    <2>2. /\ ticket'[t].status = "Active" /\ ticket'[t].owner = ticket[t].owner
          /\ ticket'[t].asset_standard = ticket[t].asset_standard
        BY <2>1 DEF Presents, PresentableTicket, ActiveTicket, PresentedTicket, TicketRecord
    <2> QED BY <2>1, <2>2, SameAssetTicket DEF Presents
<1>5. CASE CloseIntentStep
    <2>1. PICK t \in TicketKey, i \in IntentKey, status \in {"Cancelled", "Expired"} :
            Retracts(t, i, status)
        BY <1>5, CloseIntentEffect
    <2>2. ActiveTicket(t)
        BY <2>1, PendingHolderActive DEF Retracts
    <2>3. /\ ticket'[t].status = "Active" /\ ticket'[t].owner = ticket[t].owner
          /\ ticket'[t].asset_standard = ticket[t].asset_standard
        BY <2>1, <2>2 DEF Retracts, ActiveTicket, RetractedTicket, TicketRecord
    <2> QED BY <2>1, <2>3, SameAssetTicket DEF Retracts
<1>6. CASE ConsumeStep
    <2>1. PICK signer \in Wallet, t \in TicketKey, i \in IntentKey : Admits(signer, t, i)
        BY <1>6, ConsumeEffect
    <2>2. /\ ticket'[t].status = "Used" /\ ticket'[t].owner = ticket[t].owner
          /\ ticket'[t].asset_standard = ticket[t].asset_standard
        BY <2>1 DEF Admits, AdmittedTicket, TicketRecord
    <2> QED BY <2>1, <2>2, SameAssetTicket DEF Admits
<1> QED BY <1>1, <1>2, <1>3, <1>4, <1>5, <1>6, NextCases DEF Circulation

(* The asset a wallet shows is the ticket the program will admit: no gift, *)
(* listing, resale or presentation ever parts the two.                     *)
THEOREM CustodyAlwaysConsistent == Spec => []CustodyConsistent
<1>1. Init => CustodyConsistent
    BY DEF Init, CustodyConsistent, AssetFollows
<1> QED BY <1>1, CustodyStep, TypeCorrect, IntentAlwaysExclusive, PTL DEF Spec

---------------------------------------------------------------------------
(* The supply of a tier *)

(* Tickets of a tier are finitely many, and a tier that does not exist has *)
(* none: what a sale needs to count one more.                              *)
SupplyCounted ==
    \A tr \in TierKey :
        /\ IsFiniteSet(TicketsOf(tr))
        /\ tier[tr] = None => TicketsOf(tr) = {}

(* A tier has the same tickets while none is issued and none changes its *)
(* tier.                                                                 *)
LEMMA SameTickets ==
    ASSUME NEW tr \in TierKey,
           \A t \in TicketKey : (ticket'[t] # None) <=> (ticket[t] # None),
           \A t \in TicketKey : ticket[t] # None => ticket'[t].tier = ticket[t].tier
    PROVE  TicketsOf(tr)' = TicketsOf(tr)
BY DEF TicketsOf

(* Circulation issues no ticket and changes no ticket's tier. *)
LEMMA CirculationKeepsTickets ==
    ASSUME TypeOK, Circulation
    PROVE  \A tr \in TierKey : TicketsOf(tr)' = TicketsOf(tr)
<1> SUFFICES ASSUME NEW t \in TicketKey, ticket[t] # None
             PROVE  ticket'[t].tier = ticket[t].tier
    BY CirculationKeeps, SameTickets DEF Circulation
<1>1. CASE GiftStep
    <2>1. PICK u \in TicketKey, recipient \in Wallet : Gives(u, recipient)
        BY <1>1, GiftEffect
    <2>2. ticket'[u].tier = ticket[u].tier
        BY <2>1 DEF Gives, TransferTicketOwner, TicketRecord
    <2> QED BY <2>1, <2>2 DEF Gives, OnlyTicket
<1>2. CASE ListStep
    <2>1. PICK u \in TicketKey, id \in 0 .. MaxListingId - 1 : Offers(u, id)
        BY <1>2, ListEffect
    <2>2. ticket'[u].tier = ticket[u].tier
        BY <2>1 DEF Offers, ListedTicket, TicketRecord
    <2> QED BY <2>1, <2>2 DEF Offers, OnlyTicket
<1>3. CASE CancelListingStep
    <2>1. PICK u \in TicketKey, l \in ListingKey : Withdraws(u, l)
        BY <1>3, CancelListingEffect
    <2>2. ticket'[u].tier = ticket[u].tier
        BY <2>1 DEF Withdraws, UnlistedTicket, TicketRecord
    <2> QED BY <2>1, <2>2 DEF Withdraws, OnlyTicket
<1>4. CASE ResaleStep
    <2>1. PICK u \in TicketKey, l \in ListingKey, buyer \in Wallet : Resells(u, l, buyer)
        BY <1>4, ResaleEffect
    <2>2. ticket'[u].tier = ticket[u].tier
        BY <2>1 DEF Resells, UnlistedTicket, TransferTicketOwner, TicketRecord
    <2> QED BY <2>1, <2>2 DEF Resells, OnlyTicket
<1>5. CASE PresentStep
    <2>1. PICK u \in TicketKey, nonce \in 0 .. MaxNonce - 1 : Presents(u, nonce)
        BY <1>5, PresentEffect
    <2>2. ticket'[u].tier = ticket[u].tier
        BY <2>1 DEF Presents, PresentedTicket, TicketRecord
    <2> QED BY <2>1, <2>2 DEF Presents, OnlyTicket
<1>6. CASE CloseIntentStep
    <2>1. PICK u \in TicketKey, i \in IntentKey, status \in {"Cancelled", "Expired"} :
            Retracts(u, i, status)
        BY <1>6, CloseIntentEffect
    <2>2. ticket'[u].tier = ticket[u].tier
        BY <2>1 DEF Retracts, RetractedTicket, TicketRecord
    <2> QED BY <2>1, <2>2 DEF Retracts, OnlyTicket
<1>7. CASE ConsumeStep
    <2>1. PICK signer \in Wallet, u \in TicketKey, i \in IntentKey : Admits(signer, u, i)
        BY <1>7, ConsumeEffect
    <2>2. ticket'[u].tier = ticket[u].tier
        BY <2>1 DEF Admits, AdmittedTicket, TicketRecord
    <2> QED BY <2>1, <2>2 DEF Admits, OnlyTicket
<1> QED BY <1>1, <1>2, <1>3, <1>4, <1>5, <1>6, <1>7 DEF Circulation

SupplyInv == SupplyCounted /\ SupplyConsistent

(* A purchase adds one ticket to one tier, which still had a place. *)
LEMMA PurchaseSupply ==
    ASSUME TypeOK, SupplyInv, PurchaseStep
    PROVE  SupplyInv'
<1>1. PICK buyer \in Holder, e \in EventKey, tr \in TierKey,
           id \in 0 .. MaxTicketId - 1, standard \in AssetStandard :
        SellTicket(buyer, e, tr, id, standard)
    BY DEF PurchaseStep, PrimaryPurchase, PrimaryPurchaseCore, AssetStandard
<1> DEFINE t == <<e, id>>
<1>2. t \in TicketKey /\ tier[tr] \in TierRecord /\ buyer \in Wallet
    BY <1>1, StateAssumption DEF TicketKey, SellTicket, SaleGuard, TypeOK, StateTypeOK
<1>3. /\ ticket[t] = None /\ OnlyTicket(t)
      /\ ticket'[t] = IssuedTicket(e, tr, standard, buyer, tier[tr].price_lamports)
    BY <1>1, <1>2 DEF SellTicket, SaleGuard, OnlyTicket, TypeOK, StateTypeOK
<1>4. ticket'[t] # None /\ ticket'[t].tier = tr
    <2>1. ticket'[t] \in TicketRecord
        BY <1>2, <1>3, IssuedTicketType DEF TierRecord
    <2> QED BY <1>3, <2>1, NoneAssumption DEF IssuedTicket
<1>5. /\ tier'[tr] = [tier[tr] EXCEPT !.sold = tier[tr].sold + 1]
      /\ \A k \in TierKey \ {tr} : tier'[k] = tier[k]
      /\ tier[tr].sold < tier[tr].supply
    BY <1>1 DEF SellTicket, SaleGuard, TierHasStock, TypeOK, StateTypeOK
<1>6. TicketsOf(tr)' = TicketsOf(tr) \cup {t} /\ t \notin TicketsOf(tr)
    BY <1>2, <1>3, <1>4 DEF TicketsOf, OnlyTicket
<1>7. \A k \in TierKey \ {tr} : TicketsOf(k)' = TicketsOf(k)
    BY <1>2, <1>3, <1>4 DEF TicketsOf, OnlyTicket
<1>8. /\ IsFiniteSet(TicketsOf(tr)')
      /\ Cardinality(TicketsOf(tr)') = Cardinality(TicketsOf(tr)) + 1
    <2>1. IsFiniteSet(TicketsOf(tr))
        BY DEF SupplyInv, SupplyCounted
    <2> QED BY <1>6, <2>1, FS_AddElement
<1>9. tier'[tr] \in TierRecord /\ tier'[tr].sold = tier[tr].sold + 1
      /\ tier'[tr].supply = tier[tr].supply
    BY <1>2, <1>5 DEF TierRecord
<1>10. tier[tr] # None /\ tier'[tr] # None
    BY <1>2, <1>9, NoneAssumption
<1>11. SupplyCounted'
    BY <1>5, <1>7, <1>8, <1>10 DEF SupplyInv, SupplyCounted
<1>12. /\ tier'[tr].sold <= tier'[tr].supply
       /\ tier'[tr].sold = Cardinality(TicketsOf(tr)')
    BY <1>2, <1>5, <1>8, <1>9, <1>10 DEF SupplyInv, SupplyConsistent, TierRecord
<1>13. SupplyConsistent'
    BY <1>5, <1>7, <1>12 DEF SupplyInv, SupplyConsistent
<1> QED BY <1>11, <1>13 DEF SupplyInv

(* A draft may add an empty tier or resize one above what it sold.         *)
LEMMA TierStepSupply ==
    ASSUME TypeOK, SupplyInv, TierStep
    PROVE  SupplyInv'
<1>1. PICK signer \in Wallet, e \in EventKey, price \in PriceInputs,
           supply \in SupplyInputs :
        \/ \E id \in 0 .. MaxTierId - 1 : AddTier(signer, e, id, price, supply)
        \/ \E tr \in TierKey, active \in BOOLEAN :
              UpdateTier(signer, e, tr, price, supply, active)
    BY DEF TierStep
<1>2. \A k \in TierKey : TicketsOf(k)' = TicketsOf(k)
    BY SetupEffect DEF TicketsOf
<1>3. ASSUME NEW tr \in TierKey, tier'[tr] # None,
             tier'[tr].sold <= tier'[tr].supply,
             tier'[tr].sold = Cardinality(TicketsOf(tr)),
             \A k \in TierKey \ {tr} : tier'[k] = tier[k]
      PROVE  SupplyInv'
    BY <1>2, <1>3 DEF SupplyInv, SupplyCounted, SupplyConsistent
<1>4. ASSUME NEW id \in 0 .. MaxTierId - 1, AddTier(signer, e, id, price, supply)
      PROVE  SupplyInv'
    <2> DEFINE tr == <<e, id>>
               opened == [event |-> e, price_lamports |-> price, supply |-> supply,
                          sold |-> 0, active |-> TRUE]
    <2>1. /\ tr \in TierKey /\ tier[tr] = None
          /\ tier'[tr] = opened /\ \A k \in TierKey \ {tr} : tier'[k] = tier[k]
        BY <1>4 DEF AddTier, AddTierGuard, TierKey, TypeOK, StateTypeOK
    <2>2. opened \in TierRecord
        BY InputAssumption DEF TierRecord
    <2>3. opened.sold = 0 /\ opened.sold <= opened.supply /\ opened # None
        <3>1. supply \in Nat
            BY InputAssumption
        <3>2. opened # None
            BY <2>2, NoneAssumption
        <3> QED BY <3>1, <3>2
    <2>4. Cardinality(TicketsOf(tr)) = 0
        BY <2>1, FS_EmptySet DEF SupplyInv, SupplyCounted
    <2> QED BY <1>3, <2>1, <2>3, <2>4
<1>5. ASSUME NEW tr \in TierKey, NEW active \in BOOLEAN,
             UpdateTier(signer, e, tr, price, supply, active)
      PROVE  SupplyInv'
    <2>1. /\ tier[tr] # None /\ tier[tr] \in TierRecord /\ supply >= tier[tr].sold
          /\ tier'[tr] = [tier[tr] EXCEPT !.price_lamports = price, !.supply = supply,
                                          !.active = active]
          /\ \A k \in TierKey \ {tr} : tier'[k] = tier[k]
        BY <1>5 DEF UpdateTier, TypeOK, StateTypeOK
    <2>2. /\ tier'[tr] \in TierRecord
          /\ tier'[tr].sold = tier[tr].sold /\ tier'[tr].supply = supply
        BY <2>1, InputAssumption DEF TierRecord
    <2>3. tier'[tr] # None /\ tier'[tr].sold <= tier'[tr].supply
        BY <2>1, <2>2, NoneAssumption DEF TierRecord
    <2>4. tier'[tr].sold = Cardinality(TicketsOf(tr))
        BY <2>1, <2>2 DEF SupplyInv, SupplyConsistent
    <2> QED BY <1>3, <2>1, <2>3, <2>4
<1> QED BY <1>1, <1>4, <1>5

(* Every step keeps count and supply of every tier in agreement. *)
LEMMA SupplyStep ==
    TypeOK /\ SupplyInv /\ [Next]_vars => SupplyInv'
<1> SUFFICES ASSUME TypeOK, SupplyInv, [Next]_vars PROVE SupplyInv'
    OBVIOUS
<1>1. CASE SetupStep /\ ~TierStep
    <2>1. UNCHANGED <<ticket, tier>>
        BY <1>1, SetupEffect, TiersUntouched DEF SetupStep
    <2>2. \A tr \in TierKey : TicketsOf(tr)' = TicketsOf(tr)
        BY <2>1 DEF TicketsOf
    <2> QED BY <2>1, <2>2 DEF SupplyInv, SupplyCounted, SupplyConsistent
<1>2. CASE TierStep
    BY <1>2, TierStepSupply
<1>3. CASE PurchaseStep
    BY <1>3, PurchaseSupply
<1>4. CASE Circulation
    BY <1>4, CirculationKeepsSetup, CirculationKeepsTickets
       DEF SupplyInv, SupplyCounted, SupplyConsistent
<1> QED BY <1>1, <1>2, <1>3, <1>4, NextCases

(* No tier is oversold, however the purchases of its last places race, and *)
(* its counter never drifts from the tickets that exist.                   *)
THEOREM SupplyAlwaysConsistent == Spec => []SupplyConsistent
<1>1. Init => SupplyInv
    <2> SUFFICES ASSUME Init PROVE SupplyInv
        OBVIOUS
    <2>1. \A tr \in TierKey : TicketsOf(tr) = {} /\ tier[tr] = None
        BY DEF Init, TicketsOf
    <2> QED BY <2>1, FS_EmptySet DEF SupplyInv, SupplyCounted, SupplyConsistent
<1>2. SupplyInv => SupplyConsistent
    BY DEF SupplyInv
<1> QED BY <1>1, <1>2, SupplyStep, TypeCorrect, PTL DEF Spec

---------------------------------------------------------------------------
(* Lamports *)

(* A transfer takes from its payer what it gives to its recipient, even if *)
(* they are one.                                                           *)
LEMMA TransferMoves ==
    ASSUME NEW wallets \in [Wallet -> Int], NEW payer \in Wallet,
           NEW recipient \in Wallet, NEW amount \in Nat
    PROVE  LET after == TransferLamports(wallets, payer, recipient, amount) IN
           /\ after \in [Wallet -> Int]
           /\ \A w \in Wallet :
                 after[w] = wallets[w] + If(w = recipient, amount) - If(w = payer, amount)
<1>1. CASE amount = 0 \/ payer = recipient
    BY <1>1 DEF TransferLamports, If
<1>2. CASE amount # 0 /\ payer # recipient
    BY <1>2 DEF TransferLamports, If
<1> QED BY <1>1, <1>2

(* A rewritten ticket is the only one that can have been sold.             *)
LEMMA OthersUnsold ==
    ASSUME NEW t \in TicketKey, OnlyTicket(t), SaleSettled(t),
           ticket[t] # ticket'[t], Sold(t)
    PROVE  PaidOnlyForTickets /\ \A u \in TicketKey : SaleSettled(u)
BY DEF OnlyTicket, SaleSettled, PaidOnlyForTickets

(* A purchase moves the price to organizer and treasury, whichever of *)
(* the three wallets are one.                                         *)
LEMMA PurchaseSettled ==
    ASSUME TypeOK, PurchaseStep
    PROVE  PaidOnlyForTickets /\ \A t \in TicketKey : SaleSettled(t)
<1>1. PICK buyer \in Holder, e \in EventKey, tr \in TierKey,
           id \in 0 .. MaxTicketId - 1, standard \in AssetStandard :
        SellTicket(buyer, e, tr, id, standard)
    BY DEF PurchaseStep, PrimaryPurchase, PrimaryPurchaseCore, AssetStandard
<1> DEFINE t        == <<e, id>>
           price    == tier[tr].price_lamports
           fee      == FeeAmount(price, event[e].platform_fee_bps)
           organizer == event[e].organizer
           treasury == event[e].platform_treasury
           toOrg    == TransferLamports(balance, buyer, organizer, price - fee)
           paid     == TransferLamports(toOrg, buyer, treasury, fee)
<1>2. /\ t \in TicketKey /\ buyer \in Wallet
      /\ tier[tr] \in TierRecord /\ event[e] \in EventRecord
    BY <1>1, StateAssumption DEF TicketKey, SellTicket, SaleGuard, TypeOK, StateTypeOK
<1>3. /\ ticket[t] = None /\ OnlyTicket(t)
      /\ ticket'[t] = IssuedTicket(e, tr, standard, buyer, price)
    BY <1>1, <1>2 DEF SellTicket, SaleGuard, OnlyTicket, TypeOK, StateTypeOK
<1>4. /\ ticket'[t] # None /\ ticket'[t].event = e /\ ticket'[t].owner = buyer
      /\ ticket'[t].original_price_lamports = price
    <2>1. ticket'[t] \in TicketRecord
        BY <1>2, <1>3, IssuedTicketType DEF TierRecord
    <2> QED BY <1>3, <2>1, NoneAssumption DEF IssuedTicket
<1>5. /\ price \in Nat /\ fee \in Nat /\ price - fee \in Nat
      /\ organizer \in Wallet /\ treasury \in Wallet
      /\ balance \in [Wallet -> Int]
    BY <1>1, <1>2, FeeAmountFloor
       DEF SellTicket, SaleGuard, PrimarySplit, PrimarySplitOk, TierRecord, EventRecord,
           TypeOK, StateTypeOK
<1>6. balance' = paid
    BY <1>1 DEF SellTicket, SalePaid, SaleGuard, PrimarySplit
<1> HIDE DEF price, fee, organizer, treasury
<1>7. /\ toOrg \in [Wallet -> Int]
      /\ \A w \in Wallet : toOrg[w] = balance[w] + If(w = organizer, price - fee)
                                            - If(w = buyer, price - fee)
    BY <1>2, <1>5, TransferMoves
<1> HIDE DEF toOrg
<1>8. \A w \in Wallet :
         paid[w] = toOrg[w] + If(w = treasury, fee) - If(w = buyer, fee)
    <2>1. buyer \in Wallet /\ treasury \in Wallet /\ fee \in Nat
        BY <1>2, <1>5
    <2> QED BY <1>7, <2>1, TransferMoves
<1> HIDE DEF paid
<1>9. /\ SalePrice(t) = price /\ FeeDue(t) = fee
      /\ OrganizerDue(t) = price - fee
    <2>1. SalePrice(t) = price
        BY <1>3, <1>4 DEF SalePrice
    <2>2. FeeDue(t) = fee
        BY <1>4, <2>1 DEF FeeDue, fee
    <2> QED BY <1>3, <2>1, <2>2 DEF OrganizerDue
<1>10. ASSUME NEW w \in Wallet
       PROVE  balance'[w] - balance[w] = GainDue(t, w)
    <2>1. GainDue(t, w) = If(w = treasury, fee) + If(w = organizer, price - fee)
                             + 0 - If(w = buyer, price)
        BY <1>3, <1>4, <1>9 DEF GainDue, If, organizer, treasury
    <2>2. balance[w] \in Int
        BY <1>5
    <2>3. balance'[w] = balance[w] + If(w = organizer, price - fee)
                           - If(w = buyer, price - fee)
                           + If(w = treasury, fee) - If(w = buyer, fee)
        BY <1>6, <1>7, <1>8
    <2>4. If(w = buyer, price - fee) + If(w = buyer, fee) = If(w = buyer, price)
        BY <1>5 DEF If
    <2>5. /\ If(w = organizer, price - fee) \in Int /\ If(w = treasury, fee) \in Int
          /\ If(w = buyer, price - fee) \in Int /\ If(w = buyer, fee) \in Int
          /\ If(w = buyer, price) \in Int
        BY <1>5 DEF If
    <2> QED BY <2>1, <2>2, <2>3, <2>4, <2>5
<1>11. SaleSettled(t)
    BY <1>10 DEF SaleSettled
<1> QED BY <1>2, <1>3, <1>4, <1>11, OthersUnsold DEF Sold

(* A resale moves the price of the listing to seller, organizer and *)
(* treasury, whichever of the four wallets are one.                 *)
LEMMA ResaleSettled ==
    ASSUME TypeOK, ListingExclusive, ResaleStep
    PROVE  PaidOnlyForTickets /\ \A t \in TicketKey : SaleSettled(t)
<1>1. PICK buyer \in Holder, e \in EventKey, t \in TicketKey, l \in ListingKey :
        /\ ResaleGuard(buyer, e, t, l)
        /\ ResalePayment(buyer, e, l)
        /\ FillListing(buyer, t, l)
    <2>1. PICK buyer \in Holder, e \in EventKey, t \in TicketKey, l \in ListingKey :
            BuyResale(buyer, e, t, l) \/ BuyResaleCore(buyer, e, t, l)
        BY DEF ResaleStep
    <2> QED BY <2>1 DEF BuyResale, BuyResaleCore
<1> DEFINE price     == listing[l].price_lamports
           fee       == FeeAmount(price, event[e].platform_fee_bps)
           royalty   == FeeAmount(price, event[e].details.organizer_royalty_bps)
           seller    == listing[l].seller
           organizer == event[e].organizer
           treasury  == event[e].platform_treasury
           share     == price - fee - royalty
           toSeller  == TransferLamports(balance, buyer, seller, share)
           toOrg     == TransferLamports(toSeller, buyer, organizer, royalty)
           paid      == TransferLamports(toOrg, buyer, treasury, fee)
<1>2. /\ buyer \in Wallet /\ ticket[t] \in TicketRecord /\ ticket[t] # None
      /\ listing[l] \in ListingRecord /\ event[e] \in EventRecord
    BY <1>1, StateAssumption
       DEF ResaleGuard, BuyResaleAccounts, TicketOfEvent, TypeOK, StateTypeOK
<1>3. /\ ticket[t].status = "Listed" /\ ticket[t].event = e
      /\ ticket[t].owner = seller /\ seller # buyer
      /\ ticket'[t] = UnlistedTicket(TransferTicketOwner(ticket[t], buyer))
      /\ OnlyTicket(t)
    BY <1>1, <1>2 DEF ResaleGuard, BuyResaleAccounts, TicketOfEvent, FillListing,
                      OnlyTicket, TypeOK, StateTypeOK
<1>4. /\ ticket'[t] # None /\ ticket'[t].event = e /\ ticket'[t].owner = buyer
    <2>1. TransferTicketOwner(ticket[t], buyer) \in TicketRecord
        BY <1>1, <1>2, TransferTicketOwnerType DEF FillListing
    <2>2. ticket'[t] \in TicketRecord
        BY <1>3, <2>1, UnlistedTicketType
    <2>3. ticket'[t].event = e /\ ticket'[t].owner = buyer
        BY <1>2, <1>3 DEF UnlistedTicket, TransferTicketOwner, TicketRecord
    <2> QED BY <2>2, <2>3, NoneAssumption
<1>5. l = <<t, ticket[t].next_listing_id - 1>>
    BY <1>1, <1>2, NoneAssumption
       DEF ResaleGuard, BuyResaleAccounts, ListingExclusive, OpenOfferCurrent, OpenOffer
<1>6. /\ price \in Nat /\ fee \in Nat /\ royalty \in Nat
      /\ share \in Nat
      /\ seller \in Wallet /\ organizer \in Wallet /\ treasury \in Wallet
      /\ balance \in [Wallet -> Int]
    <2>1. /\ price \in Nat /\ event[e].platform_fee_bps \in Nat
          /\ event[e].details.organizer_royalty_bps \in Nat
          /\ seller \in Wallet /\ organizer \in Wallet /\ treasury \in Wallet
        BY <1>2 DEF ListingRecord, EventRecord, EventDetails
    <2>2. price - fee - royalty >= 0
        BY <1>1 DEF ResalePayment, ResalePayable, ResaleSplitOk, ResaleSplit
    <2>3. fee \in Nat /\ royalty \in Nat
        BY <2>1, FeeAmountFloor
    <2>4. balance \in [Wallet -> Int]
        BY DEF TypeOK, StateTypeOK
    <2> HIDE DEF price, fee, royalty, seller, organizer, treasury
    <2> QED BY <2>1, <2>2, <2>3, <2>4 DEF share
<1>7. balance' = paid
    BY <1>1 DEF ResalePayment, ResalePaid, ResalePayable, ResaleSplit
<1>8. /\ SalePrice(t) = price /\ FeeDue(t) = fee /\ OrganizerDue(t) = royalty
      /\ SellerDue(t) = share
    BY <1>2, <1>3, <1>4, <1>5
       DEF SalePrice, SoldListing, FeeDue, OrganizerDue, SellerDue
<1>9. \A w \in Wallet :
        GainDue(t, w) = If(w = treasury, fee) + If(w = organizer, royalty)
                           + If(w = seller, share) - If(w = buyer, price)
    BY <1>2, <1>3, <1>4, <1>8 DEF GainDue, If
<1> HIDE DEF fee, royalty, seller, organizer, treasury, price
<1>10. price = share + royalty + fee
    BY <1>6 DEF share
<1> HIDE DEF share
<1>11. /\ toSeller \in [Wallet -> Int]
       /\ \A w \in Wallet : toSeller[w] = balance[w] + If(w = seller, share)
                                                 - If(w = buyer, share)
    BY <1>2, <1>6, TransferMoves
<1> HIDE DEF toSeller
<1>12. /\ toOrg \in [Wallet -> Int]
       /\ \A w \in Wallet : toOrg[w] = toSeller[w] + If(w = organizer, royalty)
                                              - If(w = buyer, royalty)
    <2>1. buyer \in Wallet /\ organizer \in Wallet /\ royalty \in Nat
        BY <1>2, <1>6
    <2> QED BY <1>11, <2>1, TransferMoves
<1> HIDE DEF toOrg
<1>13. \A w \in Wallet :
         paid[w] = toOrg[w] + If(w = treasury, fee) - If(w = buyer, fee)
    <2>1. buyer \in Wallet /\ treasury \in Wallet /\ fee \in Nat
        BY <1>2, <1>6
    <2> QED BY <1>12, <2>1, TransferMoves
<1> HIDE DEF paid
<1>14. ASSUME NEW w \in Wallet
       PROVE  balance'[w] - balance[w] = GainDue(t, w)
    <2>1. balance[w] \in Int /\ toSeller[w] \in Int /\ toOrg[w] \in Int
        BY <1>6, <1>11, <1>12
    <2>2. balance'[w] = balance[w] + If(w = seller, share) - If(w = buyer, share)
                           + If(w = organizer, royalty) - If(w = buyer, royalty)
                           + If(w = treasury, fee) - If(w = buyer, fee)
        BY <1>7, <1>11, <1>12, <1>13
    <2>3. If(w = buyer, share) + If(w = buyer, royalty) + If(w = buyer, fee)
             = If(w = buyer, price)
        BY <1>6, <1>10 DEF If
    <2>4. /\ If(w = seller, share) \in Int /\ If(w = buyer, share) \in Int
          /\ If(w = organizer, royalty) \in Int /\ If(w = buyer, royalty) \in Int
          /\ If(w = treasury, fee) \in Int /\ If(w = buyer, fee) \in Int
        BY <1>6 DEF If
    <2> QED BY <1>9, <2>1, <2>2, <2>3, <2>4
<1>15. SaleSettled(t)
    BY <1>14 DEF SaleSettled
<1>16. ticket[t] # ticket'[t] /\ Sold(t)
    BY <1>2, <1>3, <1>4 DEF Sold
<1> QED BY <1>3, <1>15, <1>16, OthersUnsold

(* Setting up moves no money. *)
LEMMA SetupKeepsBalance ==
    ASSUME SetupStep
    PROVE  UNCHANGED balance
<1>1. CASE TierStep
    <2>1. PICK signer \in Wallet, e \in EventKey, price \in PriceInputs,
               supply \in SupplyInputs :
            \/ \E id \in 0 .. MaxTierId - 1 : AddTier(signer, e, id, price, supply)
            \/ \E tr \in TierKey, active \in BOOLEAN :
                  UpdateTier(signer, e, tr, price, supply, active)
        BY <1>1 DEF TierStep
    <2> QED BY <2>1 DEF AddTier, UpdateTier, circulationVars
<1>2. CASE EventStep
    BY <1>2 DEF EventStep, CreateEvent, UpdateEvent, PublishEvent, PublishEffect,
                CancelEvent, CloseEvent, circulationVars
<1>3. CASE SetupStep /\ ~TierStep /\ ~EventStep
    BY <1>3 DEF SetupStep, Tick, PlatformStep, InitializePlatform, UpdatePlatform,
                StandardStep, SetAssetStandard, StaffStep, AuthorizeStaff, RevokeStaff,
                circulationVars, vars
<1> QED BY <1>1, <1>2, <1>3

(* Every other step leaves the lamports alone and sells nothing.           *)
LEMMA OtherStepsUnpaid ==
    ASSUME TypeOK, [Next]_vars, ~PurchaseStep, ~ResaleStep
    PROVE  PaidOnlyForTickets /\ \A t \in TicketKey : SaleSettled(t)
<1>1. CASE SetupStep
    <2>1. UNCHANGED <<ticket, balance>>
        BY <1>1, SetupEffect, SetupKeepsBalance DEF SetupStep
    <2> QED BY <2>1 DEF PaidOnlyForTickets, SaleSettled
<1>2. CASE Circulation
    <2>1. UNCHANGED balance
        BY <1>2, CirculationKeepsSetup
    <2>2. ASSUME NEW t \in TicketKey
          PROVE  ~Sold(t) \/ ticket[t] = ticket'[t]
        <3>1. CASE ticket[t] = None
            BY <1>2, <3>1, CirculationKeeps DEF Circulation
        <3>2. CASE ticket[t] # None /\ ticket'[t].owner # ticket[t].owner
            <4>1. PICK recipient \in Wallet : Gives(t, recipient)
                BY <3>2, OwnersMoveByTransfer
            <4> QED BY <3>2, <4>1 DEF Gives, TransferableTicket, ActiveTicket, Sold
        <3>3. CASE ticket[t] # None /\ ticket'[t].owner = ticket[t].owner
            BY <3>3 DEF Sold
        <3> QED BY <3>1, <3>2, <3>3
    <2> QED BY <2>1, <2>2 DEF PaidOnlyForTickets, SaleSettled
<1> QED BY <1>1, <1>2, NextCases

(* Money and tickets move together: a wallet pays for a ticket it gets,    *)
(* exactly its price, and every lamport lands where the terms say.         *)
THEOREM MoneyAlwaysFollows == Spec => MoneyFollowsTickets
<1>1. TypeOK /\ ListingExclusive /\ [Next]_vars =>
        [PaidOnlyForTickets /\ \A t \in TicketKey : SaleSettled(t)]_vars
    BY PurchaseSettled, ResaleSettled, OtherStepsUnpaid
<1> QED BY <1>1, TypeCorrect, ListingAlwaysExclusive, PTL DEF Spec, MoneyFollowsTickets
====
