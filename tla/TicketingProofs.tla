---- MODULE TicketingProofs ----
(***************************************************************************)
(* Theorems about every instance of Ticketing: any sets of wallets,        *)
(* events and tickets, any widths of the counters, any inputs.  First the  *)
(* types, then what each step does to tickets, listings and intents, then  *)
(* the invariants about intents and about events that the later modules    *)
(* rest on.                                                                *)
(***************************************************************************)
EXTENDS Ticketing, PricingProofs

(* A transfer changes the payer and the recipient only, and leaves nobody  *)
(* but the payer with less.                                                *)
LEMMA TransferLamportsType ==
    ASSUME NEW wallets \in [Wallet -> Int], NEW payer \in Wallet,
           NEW recipient \in Wallet, NEW amount \in Nat,
           \A w \in Wallet \ {payer} : wallets[w] >= 0
    PROVE  LET paid == TransferLamports(wallets, payer, recipient, amount) IN
           /\ paid \in [Wallet -> Int]
           /\ \A w \in Wallet \ {payer} : paid[w] >= 0
BY DEF TransferLamports

(* The widths of the counters are natural numbers. *)
LEMMA WidthsNat ==
    /\ MaxTierId \in Nat /\ MaxTicketId \in Nat /\ MaxListingId \in Nat
    /\ MaxNonce \in Nat /\ MaxTransfers \in Nat
BY StateAssumption

---------------------------------------------------------------------------
(* What the handlers write in a ticket record is a ticket record. *)

(* A ticket record rewritten by the program is a ticket record: handed *)
(* over, ...                                                           *)
LEMMA TransferTicketOwnerType ==
    ASSUME NEW r \in TicketRecord, NEW new_owner \in Wallet,
           TransferTicketOwnerOk(r, new_owner)
    PROVE  TransferTicketOwner(r, new_owner) \in TicketRecord
<1> DEFINE count == r.transfer_count + 1
<1>1. count \in 0 .. MaxTransfers
    BY WidthsNat DEF TransferTicketOwnerOk, TicketRecord
<1>2. TransferTicketOwner(r, new_owner)
        = [r EXCEPT !.owner = new_owner, !.transfer_count = count]
    BY DEF TransferTicketOwner
<1> HIDE DEF count
<1> QED BY <1>1, <1>2 DEF TicketRecord

(* ... issued, ... *)
LEMMA IssuedTicketType ==
    ASSUME NEW e \in EventKey, NEW tr \in TierKey, NEW standard \in AssetStandard,
           NEW buyer \in Wallet, NEW price \in Nat
    PROVE  IssuedTicket(e, tr, standard, buyer, price) \in TicketRecord
BY WidthsNat DEF IssuedTicket, TicketRecord

(* ... listed, within the counter's width, ... *)
LEMMA ListedTicketType ==
    ASSUME NEW r \in TicketRecord, r.next_listing_id + 1 <= MaxListingId
    PROVE  ListedTicket(r) \in TicketRecord
<1> DEFINE next == r.next_listing_id + 1
<1>1. next \in 0 .. MaxListingId
    BY WidthsNat DEF TicketRecord
<1>2. ListedTicket(r) = [r EXCEPT !.status = "Listed", !.next_listing_id = next]
    BY DEF ListedTicket
<1> HIDE DEF next
<1> QED BY <1>1, <1>2 DEF TicketRecord

(* ... withdrawn, ... *)
LEMMA UnlistedTicketType ==
    ASSUME NEW r \in TicketRecord
    PROVE  UnlistedTicket(r) \in TicketRecord
BY DEF UnlistedTicket, TicketRecord

(* ... presented, within the counter's width, ... *)
LEMMA PresentedTicketType ==
    ASSUME NEW r \in TicketRecord, NEW i \in IntentKey, r.next_intent_nonce + 1 <= MaxNonce
    PROVE  PresentedTicket(r, i) \in TicketRecord
<1> DEFINE next == r.next_intent_nonce + 1
<1>1. next \in 0 .. MaxNonce
    BY WidthsNat DEF TicketRecord
<1>2. PresentedTicket(r, i) = [r EXCEPT !.next_intent_nonce = next, !.active_intent = i]
    BY DEF PresentedTicket
<1> HIDE DEF next
<1> QED BY <1>1, <1>2 DEF TicketRecord

(* ... retracted, ... *)
LEMMA RetractedTicketType ==
    ASSUME NEW r \in TicketRecord
    PROVE  RetractedTicket(r) \in TicketRecord
BY DEF RetractedTicket, TicketRecord

(* ... and admitted. *)
LEMMA AdmittedTicketType ==
    ASSUME NEW r \in TicketRecord, NEW signer \in Wallet, NEW time \in Nat
    PROVE  AdmittedTicket(r, signer, time) \in TicketRecord
BY DEF AdmittedTicket, TicketRecord

(* The asset's CPIs return an asset. *)
LEMMA CoreAssetType ==
    ASSUME NEW a \in AssetRecord
    PROVE  /\ AddTransferDelegate(a) \in AssetRecord
           /\ RemoveTransferDelegate(a) \in AssetRecord
           /\ \A frozen \in BOOLEAN : SetFrozen(a, frozen) \in AssetRecord
           /\ \A w \in Wallet : CoreTransfer(a, w) \in AssetRecord
BY DEF AddTransferDelegate, RemoveTransferDelegate, SetFrozen, CoreTransfer, AssetRecord

---------------------------------------------------------------------------
(* Type correctness *)


(* The platform's instructions keep the types; the lemmas below say it *)
(* of the other groups.                                                *)
LEMMA PlatformStepType == TypeOK /\ (PlatformStep \/ StandardStep) => TypeOK'
<1> SUFFICES ASSUME TypeOK, PlatformStep \/ StandardStep PROVE TypeOK'
    OBVIOUS
<1> USE InputAssumption
<1>1. ASSUME NEW signer \in Wallet, NEW treasury \in TreasuryInputs,
             NEW fee_bps \in FeeInputs, NEW standard \in StandardInputs,
             InitializePlatform(signer, treasury, fee_bps, standard)
      PROVE  TypeOK'
    BY <1>1 DEF InitializePlatform, PlatformConfig, setupVars, circulationVars,
                TypeOK, StateTypeOK
<1>2. ASSUME NEW signer \in Wallet, NEW treasury \in TreasuryInputs,
             NEW fee_bps \in FeeInputs, NEW paused \in PauseInputs,
             UpdatePlatform(signer, treasury, fee_bps, paused)
      PROVE  TypeOK'
    BY <1>2 DEF UpdatePlatform, UpdatePlatformAccounts, PlatformConfig, setupVars,
                circulationVars, TypeOK, StateTypeOK
<1>3. ASSUME NEW signer \in Wallet, NEW standard \in StandardInputs,
             SetAssetStandard(signer, standard)
      PROVE  TypeOK'
    BY <1>3 DEF SetAssetStandard, UpdatePlatformAccounts, PlatformConfig, setupVars,
                circulationVars, TypeOK, StateTypeOK
<1> QED BY <1>1, <1>2, <1>3 DEF PlatformStep, StandardStep

(* An instruction that only rewrites one event account. *)
LEMMA EventEditType ==
    ASSUME TypeOK, NEW e \in EventKey, NEW r \in EventRecord,
           event' = [event EXCEPT ![e] = r],
           UNCHANGED <<config, tier, staff, circulationVars, intent, now>>
    PROVE  TypeOK'
BY DEF circulationVars, TypeOK, StateTypeOK

LEMMA EventStepType == TypeOK /\ EventStep => TypeOK'
<1> SUFFICES ASSUME TypeOK, EventStep PROVE TypeOK'
    OBVIOUS
<1> USE InputAssumption
<1>1. ASSUME NEW signer \in Organizer, NEW id \in EventId, NEW d \in DetailsInputs,
             CreateEvent(signer, id, d)
      PROVE  TypeOK'
    BY <1>1, StateAssumption DEF CreateEvent, PlatformActive, PlatformConfig,
       EventRecord, EventKey, circulationVars, TypeOK, StateTypeOK
<1>2. ASSUME NEW signer \in Wallet, NEW e \in EventKey, NEW d \in DetailsInputs,
             UpdateEvent(signer, e, d)
      PROVE  TypeOK'
    BY <1>2 DEF UpdateEvent, ManageEventAccounts, EventRecord, circulationVars,
                TypeOK, StateTypeOK
<1>3. ASSUME NEW signer \in Wallet, NEW e \in EventKey, PublishEvent(signer, e)
      PROVE  TypeOK'
    <2> DEFINE published == [event[e] EXCEPT !.platform_treasury = config.treasury,
                                             !.platform_fee_bps = config.platform_fee_bps,
                                             !.status = "Published"]
    <2>1. /\ event[e] \in EventRecord /\ config \in PlatformConfig
          /\ event' = [event EXCEPT ![e] = published]
          /\ UNCHANGED <<config, tier, staff, circulationVars, intent, now>>
        BY <1>3 DEF PublishEvent, PublishGuard, PublishEffect, ManageEventAccounts,
                    PlatformActive, TypeOK, StateTypeOK
    <2>2. published \in EventRecord
        BY <2>1 DEF PlatformConfig, EventRecord
    <2> HIDE DEF published
    <2> QED BY <2>1, <2>2, EventEditType
<1>4. ASSUME NEW signer \in Wallet, NEW e \in EventKey,
             CancelEvent(signer, e) \/ CloseEvent(signer, e)
      PROVE  TypeOK'
    <2>1. PICK status \in {"Cancelled", "Closed"} :
             /\ event[e] \in EventRecord
             /\ event' = [event EXCEPT ![e] = [event[e] EXCEPT !.status = status]]
             /\ UNCHANGED <<config, tier, staff, circulationVars, intent, now>>
        BY <1>4 DEF CancelEvent, CloseEvent, ManageEventAccounts,
                    TypeOK, StateTypeOK
    <2>2. [event[e] EXCEPT !.status = status] \in EventRecord
        BY <2>1 DEF EventRecord
    <2> QED BY <2>1, <2>2, EventEditType
<1> QED BY <1>1, <1>2, <1>3, <1>4 DEF EventStep

LEMMA TierStepType == TypeOK /\ TierStep => TypeOK'
<1> SUFFICES ASSUME TypeOK, TierStep PROVE TypeOK'
    OBVIOUS
<1> USE InputAssumption
<1>1. ASSUME NEW signer \in Wallet, NEW e \in EventKey, NEW id \in 0 .. MaxTierId - 1,
             NEW price \in PriceInputs, NEW supply \in SupplyInputs,
             AddTier(signer, e, id, price, supply)
      PROVE  TypeOK'
    BY <1>1, StateAssumption DEF AddTier, AddTierGuard, ManageEventAccounts, EventRecord,
       TierRecord, TierKey, circulationVars, TypeOK, StateTypeOK
<1>2. ASSUME NEW signer \in Wallet, NEW e \in EventKey, NEW tr \in TierKey,
             NEW price \in PriceInputs, NEW supply \in SupplyInputs,
             NEW active \in BOOLEAN, UpdateTier(signer, e, tr, price, supply, active)
      PROVE  TypeOK'
    <2>1. tier[tr] \in TierRecord
        BY <1>2 DEF UpdateTier, TypeOK, StateTypeOK
    <2>2. tier' \in [TierKey -> TierRecord \cup {None}]
        BY <1>2, <2>1 DEF UpdateTier, TierRecord, TypeOK, StateTypeOK
    <2> QED BY <1>2, <2>2 DEF UpdateTier, circulationVars, TypeOK, StateTypeOK
<1> QED BY <1>1, <1>2 DEF TierStep

LEMMA StaffStepType == TypeOK /\ StaffStep => TypeOK'
<1> SUFFICES ASSUME TypeOK, StaffStep PROVE TypeOK'
    OBVIOUS
<1>1. PICK signer \in Wallet, e \in EventKey, w \in Staff :
        AuthorizeStaff(signer, e, w) \/ RevokeStaff(signer, e, w)
    BY DEF StaffStep
<1>2. <<e, w>> \in StaffKey
    BY StateAssumption DEF StaffKey
<1> QED BY <1>1, <1>2 DEF AuthorizeStaff, RevokeStaff, circulationVars, TypeOK, StateTypeOK

(* What a sale leaves in the wallets of the two or three parties. *)
LEMMA PurchaseStepType == TypeOK /\ PurchaseStep => TypeOK'
<1> SUFFICES ASSUME TypeOK, PurchaseStep PROVE TypeOK'
    OBVIOUS
<1>1. PICK buyer \in Holder, e \in EventKey, tr \in TierKey, id \in 0 .. MaxTicketId - 1 :
        PrimaryPurchase(buyer, e, tr, id) \/ PrimaryPurchaseCore(buyer, e, tr, id)
    BY DEF PurchaseStep
<1> DEFINE t == <<e, id>>
<1>2. PICK standard \in AssetStandard : SellTicket(buyer, e, tr, id, standard)
    BY <1>1 DEF PrimaryPurchase, PrimaryPurchaseCore, AssetStandard
<1>3. buyer \in Wallet /\ t \in TicketKey
    BY StateAssumption DEF TicketKey
<1>4. event[e] \in EventRecord /\ tier[tr] \in TierRecord
    BY <1>2 DEF SellTicket, SaleGuard, TypeOK, StateTypeOK
<1>5. balance' \in [Wallet -> Nat]
    <2> DEFINE split == PrimarySplit(tier[tr].price_lamports, event[e].platform_fee_bps)
               toOrg == TransferLamports(balance, buyer, event[e].organizer,
                                         split.organizer)
               paid  == TransferLamports(toOrg, buyer, event[e].platform_treasury,
                                         split.platform)
    <2>1. split.organizer \in Nat /\ split.platform \in Nat
        BY <1>2, <1>4, FeeAmountFloor
           DEF SellTicket, SaleGuard, PrimarySplit, PrimarySplitOk, EventRecord, TierRecord
    <2>2. event[e].organizer \in Wallet /\ event[e].platform_treasury \in Wallet
        BY <1>4 DEF EventRecord
    <2>3. balance \in [Wallet -> Int] /\ \A w \in Wallet \ {buyer} : balance[w] >= 0
        BY DEF TypeOK, StateTypeOK
    <2>4. balance' = paid /\ paid[buyer] >= 0
        BY <1>2 DEF SellTicket, SalePaid, SaleGuard
    <2> HIDE DEF split
    <2>5. toOrg \in [Wallet -> Int] /\ \A w \in Wallet \ {buyer} : toOrg[w] >= 0
        BY <1>3, <2>1, <2>2, <2>3, TransferLamportsType
    <2> HIDE DEF toOrg
    <2>6. paid \in [Wallet -> Int] /\ \A w \in Wallet \ {buyer} : paid[w] >= 0
        BY <1>3, <2>1, <2>2, <2>5, TransferLamportsType
    <2> HIDE DEF paid
    <2> QED BY <2>4, <2>6
<1>6. ticket' \in [TicketKey -> TicketRecord \cup {None}]
    <2> DEFINE issued == IssuedTicket(e, tr, standard, buyer, tier[tr].price_lamports)
    <2>1. issued \in TicketRecord
        BY <1>3, <1>4, IssuedTicketType DEF TierRecord
    <2>2. ticket' = [ticket EXCEPT ![t] = issued]
        BY <1>2 DEF SellTicket
    <2> HIDE DEF issued
    <2> QED BY <2>1, <2>2 DEF TypeOK, StateTypeOK
<1>7. asset' \in [TicketKey -> AssetRecord \cup {None}]
    <2>1. ManagedAsset(buyer) \in AssetRecord /\ CoreAsset(buyer) \in AssetRecord
        BY <1>3 DEF ManagedAsset, CoreAsset, AssetRecord, AssetStandard
    <2> QED BY <1>1, <1>3, <2>1
            DEF PrimaryPurchase, PrimaryPurchaseCore, TypeOK, StateTypeOK
<1>8. tier' \in [TierKey -> TierRecord \cup {None}]
    BY <1>2, <1>4 DEF SellTicket, TierRecord, TypeOK, StateTypeOK
<1>9. event' \in [EventKey -> EventRecord \cup {None}]
    BY <1>2, <1>4, StateAssumption DEF SellTicket, SaleGuard, EventRecord, TypeOK,
       StateTypeOK
<1> QED BY <1>2, <1>5, <1>6, <1>7, <1>8, <1>9 DEF SellTicket, TypeOK, StateTypeOK

LEMMA GiftStepType == TypeOK /\ GiftStep => TypeOK'
<1> SUFFICES ASSUME TypeOK, GiftStep PROVE TypeOK'
    OBVIOUS
<1>1. PICK signer \in Holder, recipient \in Holder, e \in EventKey, t \in TicketKey :
        GiftTicket(signer, recipient, e, t) \/ GiftTicketCore(signer, recipient, e, t)
    BY DEF GiftStep
<1>2. recipient \in Wallet /\ ticket[t] \in TicketRecord /\ asset[t] \in AssetRecord
    BY <1>1, StateAssumption DEF GiftTicket, GiftTicketCore, GiftGuard, TicketOfEvent,
       VerifyManagedAsset, VerifyCoreAsset, TypeOK, StateTypeOK
<1>3. ticket' \in [TicketKey -> TicketRecord \cup {None}]
    <2>1. TransferTicketOwnerOk(ticket[t], recipient)
        BY <1>1 DEF GiftTicket, GiftTicketCore, GiftGuard
    <2>2. ticket' = [ticket EXCEPT ![t] = TransferTicketOwner(ticket[t], recipient)]
        BY <1>1 DEF GiftTicket, GiftTicketCore
    <2> QED BY <1>2, <2>1, <2>2, TransferTicketOwnerType DEF TypeOK, StateTypeOK
<1>4. asset' \in [TicketKey -> AssetRecord \cup {None}]
    <2>1. /\ [asset[t] EXCEPT !.owner = recipient] \in AssetRecord
          /\ SetFrozen(CoreTransfer(SetFrozen(asset[t], FALSE), recipient), TRUE)
                \in AssetRecord
        BY <1>2 DEF SetFrozen, CoreTransfer, AssetRecord
    <2>2. \E a \in AssetRecord : asset' = [asset EXCEPT ![t] = a]
        BY <1>1, <2>1 DEF GiftTicket, GiftTicketCore
    <2> QED BY <2>2 DEF TypeOK, StateTypeOK
<1> QED BY <1>1, <1>3, <1>4 DEF GiftTicket, GiftTicketCore, setupVars, TypeOK, StateTypeOK

LEMMA ListStepType == TypeOK /\ ListStep => TypeOK'
<1> SUFFICES ASSUME TypeOK, ListStep PROVE TypeOK'
    OBVIOUS
<1>1. PICK seller \in Holder, e \in EventKey, t \in TicketKey,
           id \in 0 .. MaxListingId - 1, price \in ResalePriceInputs,
           expires_at \in 0 .. MaxTime :
        \/ ListTicket(seller, e, t, id, price, expires_at)
        \/ ListTicketCore(seller, e, t, id, price, expires_at)
    BY DEF ListStep
<1>2. OpenListing(seller, e, t, id, price, expires_at)
    BY <1>1 DEF ListTicket, ListTicketCore
<1>3. /\ seller \in Wallet /\ <<t, id>> \in ListingKey
      /\ price \in Nat /\ expires_at \in Nat
      /\ ticket[t] \in TicketRecord
    BY <1>2, StateAssumption, InputAssumption
       DEF ListingKey, OpenListing, ListingGuard, TicketOfEvent, TypeOK, StateTypeOK
<1>4. ticket' \in [TicketKey -> TicketRecord \cup {None}]
    BY <1>2, <1>3, ListedTicketType DEF OpenListing, ListingGuard, TypeOK, StateTypeOK
<1>5. listing' \in [ListingKey -> ListingRecord \cup {None}]
    BY <1>2, <1>3 DEF OpenListing, ListingRecord, TypeOK, StateTypeOK
<1>6. asset' \in [TicketKey -> AssetRecord \cup {None}]
    <2>1. CASE ListTicket(seller, e, t, id, price, expires_at)
        BY <2>1 DEF ListTicket, TypeOK, StateTypeOK
    <2>2. CASE ListTicketCore(seller, e, t, id, price, expires_at)
        <3>1. asset[t] \in AssetRecord /\ asset' = [asset EXCEPT ![t] = AddTransferDelegate(@)]
            BY <2>2 DEF ListTicketCore, VerifyCoreAsset, TypeOK, StateTypeOK
        <3> QED BY <3>1, CoreAssetType DEF TypeOK, StateTypeOK
    <2> QED BY <1>1, <2>1, <2>2
<1> QED BY <1>2, <1>4, <1>5, <1>6 DEF OpenListing, setupVars, TypeOK, StateTypeOK

LEMMA CancelListingStepType == TypeOK /\ CancelListingStep => TypeOK'
<1> SUFFICES ASSUME TypeOK, CancelListingStep PROVE TypeOK'
    OBVIOUS
<1>1. PICK signer \in Holder, t \in TicketKey, l \in ListingKey :
        CancelListing(signer, t, l) \/ CancelListingCore(signer, t, l)
    BY DEF CancelListingStep
<1>2. WithdrawListing(signer, t, l) /\ CancelListingAccounts(t, l)
    BY <1>1 DEF CancelListing, CancelListingCore, WithdrawListing, WithdrawGuard
<1>3. ticket' \in [TicketKey -> TicketRecord \cup {None}]
    BY <1>2, UnlistedTicketType
       DEF WithdrawListing, CancelListingAccounts, TypeOK, StateTypeOK
<1>4. listing' \in [ListingKey -> ListingRecord \cup {None}]
    BY <1>2 DEF WithdrawListing, CancelListingAccounts, ListingRecord, TypeOK, StateTypeOK
<1>5. asset' \in [TicketKey -> AssetRecord \cup {None}]
    <2>1. CASE CancelListing(signer, t, l)
        BY <2>1 DEF CancelListing, TypeOK, StateTypeOK
    <2>2. CASE CancelListingCore(signer, t, l)
        <3> DEFINE thawed == SetFrozen(asset[t], FALSE)
                   kept   == SetFrozen(RemoveTransferDelegate(thawed), TRUE)
        <3>1. asset[t] \in AssetRecord /\ asset' = [asset EXCEPT ![t] = kept]
            BY <2>2 DEF CancelListingCore, VerifyCoreAsset, TypeOK, StateTypeOK
        <3>2. kept \in AssetRecord
            BY <3>1, CoreAssetType
        <3> HIDE DEF kept
        <3> QED BY <3>1, <3>2 DEF TypeOK, StateTypeOK
    <2> QED BY <1>1, <2>1, <2>2
<1> QED BY <1>2, <1>3, <1>4, <1>5 DEF WithdrawListing, setupVars, TypeOK, StateTypeOK

LEMMA ResaleStepType == TypeOK /\ ResaleStep => TypeOK'
<1> SUFFICES ASSUME TypeOK, ResaleStep PROVE TypeOK'
    OBVIOUS
<1>1. PICK buyer \in Holder, e \in EventKey, t \in TicketKey, l \in ListingKey :
        BuyResale(buyer, e, t, l) \/ BuyResaleCore(buyer, e, t, l)
    BY DEF ResaleStep
<1>2. /\ BuyResaleAccounts(e, t, l)
      /\ ResalePayment(buyer, e, l)
      /\ FillListing(buyer, t, l)
    BY <1>1 DEF BuyResale, BuyResaleCore, ResaleGuard
<1>3. /\ buyer \in Wallet
      /\ event[e] \in EventRecord /\ ticket[t] \in TicketRecord
      /\ listing[l] \in ListingRecord
    BY <1>2, StateAssumption DEF BuyResaleAccounts, TicketOfEvent, TypeOK, StateTypeOK
<1>4. balance' \in [Wallet -> Nat]
    <2> DEFINE split == ResaleSplit(listing[l].price_lamports, event[e].platform_fee_bps,
                                    event[e].details.organizer_royalty_bps)
               toSeller == TransferLamports(balance, buyer, listing[l].seller,
                                            split.seller)
               toOrganizer == TransferLamports(toSeller, buyer, event[e].organizer,
                                               split.organizer)
               paid == TransferLamports(toOrganizer, buyer, event[e].platform_treasury,
                                        split.platform)
    <2>1. split.seller \in Nat /\ split.organizer \in Nat /\ split.platform \in Nat
        <3>1. /\ listing[l].price_lamports \in Nat /\ event[e].platform_fee_bps \in Nat
              /\ event[e].details.organizer_royalty_bps \in Nat
            BY <1>3 DEF EventRecord, EventDetails, ListingRecord
        <3>2. split.seller >= 0
            BY <1>2 DEF ResalePayment, ResalePayable, ResaleSplitOk
        <3> DEFINE fee == FeeAmount(listing[l].price_lamports,
                                    event[e].platform_fee_bps)
                   royalty == FeeAmount(listing[l].price_lamports,
                                        event[e].details.organizer_royalty_bps)
        <3>3. fee \in Nat /\ royalty \in Nat
            BY <3>1, FeeAmountFloor
        <3>4. /\ split.platform = fee /\ split.organizer = royalty
              /\ split.seller = listing[l].price_lamports - fee - royalty
            BY DEF ResaleSplit
        <3> HIDE DEF split, fee, royalty
        <3> QED BY <3>1, <3>2, <3>3, <3>4
    <2>2. /\ listing[l].seller \in Wallet /\ event[e].organizer \in Wallet
          /\ event[e].platform_treasury \in Wallet
        BY <1>3 DEF EventRecord, ListingRecord
    <2>3. balance \in [Wallet -> Int] /\ \A w \in Wallet \ {buyer} : balance[w] >= 0
        BY DEF TypeOK, StateTypeOK
    <2>4. balance' = paid /\ paid[buyer] >= 0
        BY <1>2 DEF ResalePayment, ResalePaid, ResalePayable
    <2> HIDE DEF split
    <2>5. toSeller \in [Wallet -> Int] /\ \A w \in Wallet \ {buyer} : toSeller[w] >= 0
        BY <1>3, <2>1, <2>2, <2>3, TransferLamportsType
    <2> HIDE DEF toSeller
    <2>6. toOrganizer \in [Wallet -> Int] /\ \A w \in Wallet \ {buyer} : toOrganizer[w] >= 0
        BY <1>3, <2>1, <2>2, <2>5, TransferLamportsType
    <2> HIDE DEF toOrganizer
    <2>7. paid \in [Wallet -> Int] /\ \A w \in Wallet \ {buyer} : paid[w] >= 0
        BY <1>3, <2>1, <2>2, <2>6, TransferLamportsType
    <2> HIDE DEF paid
    <2> QED BY <2>4, <2>7
<1>5. ticket' \in [TicketKey -> TicketRecord \cup {None}]
    BY <1>2, <1>3, TransferTicketOwnerType, UnlistedTicketType
       DEF FillListing, TypeOK, StateTypeOK
<1>6. listing' \in [ListingKey -> ListingRecord \cup {None}]
    BY <1>2, <1>3 DEF FillListing, ListingRecord, TypeOK, StateTypeOK
<1>7. asset' \in [TicketKey -> AssetRecord \cup {None}]
    <2>1. CASE BuyResale(buyer, e, t, l)
        <3>1. asset[t] \in AssetRecord /\ asset' = [asset EXCEPT ![t].owner = buyer]
            BY <2>1 DEF BuyResale, VerifyManagedAsset, TypeOK, StateTypeOK
        <3>2. [asset[t] EXCEPT !.owner = buyer] \in AssetRecord
            BY <1>3, <3>1 DEF AssetRecord
        <3> QED BY <3>1, <3>2 DEF TypeOK, StateTypeOK
    <2>2. CASE BuyResaleCore(buyer, e, t, l)
        <3> DEFINE thawed == SetFrozen(asset[t], FALSE)
                   moved  == SetFrozen(CoreTransfer(thawed, buyer), TRUE)
        <3>1. asset[t] \in AssetRecord /\ asset' = [asset EXCEPT ![t] = moved]
            BY <2>2 DEF BuyResaleCore, VerifyCoreAsset, TypeOK, StateTypeOK
        <3>2. moved \in AssetRecord
            BY <1>3, <3>1, CoreAssetType
        <3> HIDE DEF moved
        <3> QED BY <3>1, <3>2 DEF TypeOK, StateTypeOK
    <2> QED BY <1>1, <2>1, <2>2
<1> QED BY <1>1, <1>4, <1>5, <1>6, <1>7
        DEF BuyResale, BuyResaleCore, setupVars, TypeOK, StateTypeOK

LEMMA PresentStepType == TypeOK /\ PresentStep => TypeOK'
<1> SUFFICES ASSUME TypeOK, PresentStep PROVE TypeOK'
    OBVIOUS
<1>1. PICK holder \in Holder, e \in EventKey, t \in TicketKey,
           nonce \in 0 .. MaxNonce - 1, expires_at \in 0 .. MaxTime :
        OpenIntent(holder, e, t, nonce, expires_at)
    BY DEF PresentStep, PresentCheckIn, PresentCheckInCore
<1>2. /\ holder \in Wallet /\ <<t, nonce>> \in IntentKey /\ expires_at \in Nat
      /\ ticket[t] \in TicketRecord
    BY <1>1, StateAssumption DEF IntentKey, OpenIntent, PresentGuard, TicketOfEvent,
       TypeOK, StateTypeOK
<1>3. ticket' \in [TicketKey -> TicketRecord \cup {None}]
    BY <1>1, <1>2, PresentedTicketType DEF OpenIntent, PresentGuard, TypeOK, StateTypeOK
<1>4. intent' \in [IntentKey -> CheckInIntent \cup {None}]
    BY <1>1, <1>2 DEF OpenIntent, CheckInIntent, TypeOK, StateTypeOK
<1> QED BY <1>1, <1>3, <1>4 DEF OpenIntent, setupVars, TypeOK, StateTypeOK

LEMMA CloseIntentStepType == TypeOK /\ CloseIntentStep => TypeOK'
<1> SUFFICES ASSUME TypeOK, CloseIntentStep PROVE TypeOK'
    OBVIOUS
<1>1. PICK t \in TicketKey, i \in IntentKey, status \in {"Cancelled", "Expired"} :
        PendingIntent(t, i) /\ CloseIntent(t, i, status)
    BY DEF CloseIntentStep, CancelCheckIn, ExpireCheckIn
<1>2. ticket[t] \in TicketRecord /\ intent[i] \in CheckInIntent
    BY <1>1 DEF PendingIntent, TypeOK, StateTypeOK
<1>3. ticket' \in [TicketKey -> TicketRecord \cup {None}]
    BY <1>1, <1>2, RetractedTicketType DEF CloseIntent, TypeOK, StateTypeOK
<1>4. intent' \in [IntentKey -> CheckInIntent \cup {None}]
    BY <1>1, <1>2 DEF CloseIntent, CheckInIntent, TypeOK, StateTypeOK
<1> QED BY <1>1, <1>3, <1>4 DEF CloseIntent, setupVars, TypeOK, StateTypeOK

LEMMA ConsumeStepType == TypeOK /\ ConsumeStep => TypeOK'
<1> SUFFICES ASSUME TypeOK, ConsumeStep PROVE TypeOK'
    OBVIOUS
<1>1. PICK signer \in Staff, e \in EventKey, t \in TicketKey, i \in IntentKey :
        PendingIntent(t, i) /\ UseTicket(signer, t, i)
    BY DEF ConsumeStep, ConsumeCheckIn, ConsumeCheckInCore, ConsumeGuard
<1>2. signer \in Wallet /\ ticket[t] \in TicketRecord /\ intent[i] \in CheckInIntent
    BY <1>1, StateAssumption DEF PendingIntent, TypeOK, StateTypeOK
<1>3. ticket' \in [TicketKey -> TicketRecord \cup {None}]
    BY <1>1, <1>2, AdmittedTicketType DEF UseTicket, TypeOK, StateTypeOK
<1>4. intent' \in [IntentKey -> CheckInIntent \cup {None}]
    BY <1>1, <1>2 DEF UseTicket, CheckInIntent, TypeOK, StateTypeOK
<1> QED BY <1>1, <1>3, <1>4 DEF UseTicket, setupVars, TypeOK, StateTypeOK

(* Every step keeps the types. *)
LEMMA TypeStep == TypeOK /\ [Next]_vars => TypeOK'
<1> SUFFICES ASSUME TypeOK, [Next]_vars PROVE TypeOK'
    OBVIOUS
<1>1. CASE Tick
    BY <1>1 DEF Tick, setupVars, circulationVars, TypeOK, StateTypeOK
<1>2. CASE UNCHANGED vars
    BY <1>2 DEF vars, TypeOK, StateTypeOK
<1> QED BY <1>1, <1>2, PlatformStepType, EventStepType, TierStepType, StaffStepType,
           PurchaseStepType, GiftStepType, ListStepType, CancelListingStepType,
           ResaleStepType, PresentStepType, CloseIntentStepType, ConsumeStepType
        DEF Next

(* In every reachable state each account has the layout of state.rs, no    *)
(* counter has overflowed and no wallet is overdrawn.                      *)
THEOREM TypeCorrect == Spec => []TypeOK
<1>1. Init => TypeOK
    BY StateAssumption DEF Init, TypeOK, StateTypeOK
<1> QED BY <1>1, TypeStep, PTL DEF Spec

---------------------------------------------------------------------------
(***************************************************************************)
(* What each kind of step does to the tickets, the listings and the        *)
(* intents: the facts the safety proofs need of a handler, so that its     *)
(* definition is expanded once, here.                                      *)
(***************************************************************************)

(* Everything but one entry of a map of accounts is left alone. *)
OnlyTicket(t)  == \A u \in TicketKey \ {t} : ticket'[u] = ticket[u]
OnlyAsset(t)   == \A u \in TicketKey \ {t} : asset'[u] = asset[u]
OnlyListing(l) == \A k \in ListingKey \ {l} : listing'[k] = listing[k]
OnlyIntent(i)  == \A j \in IntentKey \ {i} : intent'[j] = intent[j]

(* Steps of the platform, of events, tiers and staff, and of the clock.    *)
LEMMA SetupEffect ==
    ASSUME \/ Tick \/ PlatformStep \/ StandardStep \/ EventStep
           \/ TierStep \/ StaffStep \/ UNCHANGED vars
    PROVE  UNCHANGED <<ticket, listing, intent, asset>>
<1>1. CASE Tick \/ UNCHANGED vars
    BY <1>1 DEF Tick, circulationVars, vars
<1>2. CASE PlatformStep \/ StandardStep
    BY <1>2 DEF PlatformStep, InitializePlatform, UpdatePlatform, StandardStep,
                SetAssetStandard, circulationVars
<1>3. CASE EventStep
    BY <1>3 DEF EventStep, CreateEvent, UpdateEvent, PublishEvent, PublishEffect,
                CancelEvent, CloseEvent, circulationVars
<1>4. CASE TierStep
    <2>1. PICK signer \in Wallet, e \in EventKey, price \in PriceInputs,
               supply \in SupplyInputs :
            \/ \E id \in 0 .. MaxTierId - 1 : AddTier(signer, e, id, price, supply)
            \/ \E tr \in TierKey, active \in BOOLEAN :
                  UpdateTier(signer, e, tr, price, supply, active)
        BY <1>4 DEF TierStep
    <2> QED BY <2>1 DEF AddTier, UpdateTier, circulationVars
<1>5. CASE StaffStep
    BY <1>5 DEF StaffStep, AuthorizeStaff, RevokeStaff, circulationVars
<1> QED BY <1>1, <1>2, <1>3, <1>4, <1>5

(* What a step of the setup may do to an event, a tier, an authorisation.  *)
EventKept(e) ==
    /\ event[e] # None =>
          /\ event'[e] \in EventRecord
          /\ event'[e].next_ticket_id = event[e].next_ticket_id
          /\ event[e].status # "Draft" =>
                /\ event'[e].details = event[e].details
                /\ event'[e].status # "Draft"
                /\ event'[e].platform_fee_bps = event[e].platform_fee_bps
                /\ event'[e].platform_treasury = event[e].platform_treasury
          /\ (event[e].status \in {"Published", "Closed"} /\ event[e].next_ticket_id > 0)
                => event'[e].status \in {"Published", "Closed"}
    /\ (event[e] = None /\ event'[e] # None) => event'[e].next_ticket_id = 0

TierKept(tr) ==
    /\ tier[tr] # None => tier'[tr] # None /\ tier'[tr].event = tier[tr].event
    /\ (tier[tr] = None /\ tier'[tr] # None) => tier'[tr].event = tr[1]

Edited(k, r) == event[k] \in EventRecord /\ event' = [event EXCEPT ![k] = r]

(* An edit of an event keeps what EventKept asks when it keeps the     *)
(* counter, the terms of a published event, and the status of one that *)
(* sold a ticket.                                                      *)
LEMMA EditKeepsEvents ==
    ASSUME TypeOK, NEW k \in EventKey, NEW r \in EventRecord, Edited(k, r),
           r.next_ticket_id = event[k].next_ticket_id,
           event[k].status # "Draft" =>
              /\ r.details = event[k].details
              /\ r.status # "Draft"
              /\ r.platform_fee_bps = event[k].platform_fee_bps
              /\ r.platform_treasury = event[k].platform_treasury,
           (event[k].status \in {"Published", "Closed"} /\ event[k].next_ticket_id > 0)
              => r.status \in {"Published", "Closed"}
    PROVE  \A e \in EventKey : EventKept(e)
<1> TAKE e \in EventKey
<1>1. CASE e = k
    BY <1>1, NoneAssumption DEF EventKept, Edited, TypeOK, StateTypeOK
<1>2. CASE e # k
    BY <1>2 DEF EventKept, Edited, TypeOK, StateTypeOK
<1> QED BY <1>1, <1>2

(* The instructions on events are such edits. *)
LEMMA EventStepKeepsEvents ==
    ASSUME TypeOK, EventStep, NEW e \in EventKey
    PROVE  EventKept(e)
<1> USE InputAssumption DEF EventRecord, Edited, TypeOK, StateTypeOK
<1>1. ASSUME NEW signer \in Organizer, NEW id \in EventId, NEW d \in DetailsInputs,
             CreateEvent(signer, id, d)
      PROVE  EventKept(e)
    BY <1>1 DEF CreateEvent, EventKept
<1>2. ASSUME NEW signer \in Wallet, NEW k \in EventKey, NEW d \in DetailsInputs,
             UpdateEvent(signer, k, d)
      PROVE  EventKept(e)
    <2>1. event[k].status = "Draft" /\ Edited(k, [event[k] EXCEPT !.details = d])
        BY <1>2 DEF UpdateEvent, ManageEventAccounts
    <2>2. [event[k] EXCEPT !.details = d] \in EventRecord
        BY <2>1
    <2> QED BY <2>1, <2>2, EditKeepsEvents
<1>3. ASSUME NEW signer \in Wallet, NEW k \in EventKey, PublishEvent(signer, k)
      PROVE  EventKept(e)
    <2> DEFINE published == [event[k] EXCEPT !.platform_treasury = config.treasury,
                                             !.platform_fee_bps = config.platform_fee_bps,
                                             !.status = "Published"]
    <2>1. event[k].status = "Draft" /\ config \in PlatformConfig /\ Edited(k, published)
        BY <1>3 DEF PublishEvent, PublishGuard, PublishEffect, ManageEventAccounts,
           PlatformActive
    <2>2. published \in EventRecord
        BY <2>1 DEF PlatformConfig
    <2> QED BY <2>1, <2>2, EditKeepsEvents
<1>4. ASSUME NEW signer \in Wallet, NEW k \in EventKey, CancelEvent(signer, k)
      PROVE  EventKept(e)
    <2> DEFINE cancelled == [event[k] EXCEPT !.status = "Cancelled"]
    <2>1. /\ event[k].status = "Draft" \/ event[k].next_ticket_id = 0
          /\ Edited(k, cancelled)
        BY <1>4 DEF CancelEvent, ManageEventAccounts, CancellationAllowed
    <2>2. cancelled \in EventRecord
        BY <2>1
    <2>3. /\ cancelled.next_ticket_id = event[k].next_ticket_id
          /\ cancelled.details = event[k].details
          /\ cancelled.platform_fee_bps = event[k].platform_fee_bps
          /\ cancelled.platform_treasury = event[k].platform_treasury
          /\ cancelled.status = "Cancelled"
        BY <2>1
    <2>4. ~(event[k].status \in {"Published", "Closed"} /\ event[k].next_ticket_id > 0)
        BY <2>1
    <2> HIDE DEF cancelled
    <2> QED BY <2>1, <2>2, <2>3, <2>4, EditKeepsEvents
<1>5. ASSUME NEW signer \in Wallet, NEW k \in EventKey, CloseEvent(signer, k)
      PROVE  EventKept(e)
    <2> DEFINE closed == [event[k] EXCEPT !.status = "Closed"]
    <2>1. event[k].status = "Published" /\ Edited(k, closed)
        BY <1>5 DEF CloseEvent, ManageEventAccounts
    <2>2. closed \in EventRecord
        BY <2>1
    <2> QED BY <2>1, <2>2, EditKeepsEvents
<1> QED BY <1>1, <1>2, <1>3, <1>4, <1>5 DEF EventStep

(* Those on tiers keep the counter and terms of every event, and the *)
(* event every tier belongs to.                                       *)
LEMMA TierStepKeeps ==
    ASSUME TypeOK, TierStep
    PROVE  /\ \A e \in EventKey : EventKept(e)
           /\ \A tr \in TierKey : TierKept(tr)
<1> USE InputAssumption DEF TierKept, EventRecord, TierRecord, TypeOK, StateTypeOK
<1>1. ASSUME NEW signer \in Wallet, NEW e \in EventKey, NEW id \in 0 .. MaxTierId - 1,
             NEW price \in PriceInputs, NEW supply \in SupplyInputs,
             AddTier(signer, e, id, price, supply)
      PROVE  /\ \A k \in EventKey : EventKept(k)
             /\ \A tr \in TierKey : TierKept(tr)
    <2> DEFINE new == <<e, id>>
               next == event[e].next_tier_id + 1
               opened == [event |-> e, price_lamports |-> price, supply |-> supply,
                          sold |-> 0, active |-> TRUE]
    <2>1. /\ next \in 0 .. MaxTierId
          /\ Edited(e, [event[e] EXCEPT !.next_tier_id = next])
          /\ tier[new] = None /\ tier' = [tier EXCEPT ![new] = opened]
        BY <1>1, WidthsNat DEF AddTier, AddTierGuard, ManageEventAccounts, Edited
    <2> HIDE DEF next
    <2>2. \A k \in EventKey : EventKept(k)
        <3>1. [event[e] EXCEPT !.next_tier_id = next] \in EventRecord
            BY <2>1 DEF Edited
        <3> QED BY <2>1, <3>1, EditKeepsEvents DEF Edited
    <2>3. \A tr \in TierKey : TierKept(tr)
        BY <2>1
    <2> QED BY <2>2, <2>3
<1>2. ASSUME NEW signer \in Wallet, NEW e \in EventKey, NEW tr \in TierKey,
             NEW price \in PriceInputs, NEW supply \in SupplyInputs,
             NEW active \in BOOLEAN, UpdateTier(signer, e, tr, price, supply, active)
      PROVE  /\ \A k \in EventKey : EventKept(k)
             /\ \A k \in TierKey : TierKept(k)
    <2>1. /\ UNCHANGED event /\ tier[tr] \in TierRecord
          /\ tier' = [tier EXCEPT ![tr] =
                        [@ EXCEPT !.price_lamports = price, !.supply = supply,
                                  !.active = active]]
        BY <1>2 DEF UpdateTier
    <2>2. \A k \in EventKey : EventKept(k)
        BY <2>1 DEF EventKept
    <2>3. tier'[tr] \in TierRecord /\ tier'[tr].event = tier[tr].event
        BY <2>1
    <2>4. \A k \in TierKey : TierKept(k)
        <3> TAKE k \in TierKey
        <3>1. CASE k = tr
            BY <2>1, <2>3, <3>1, NoneAssumption
        <3>2. CASE k # tr
            BY <2>1, <3>2
        <3> QED BY <3>1, <3>2
    <2> QED BY <2>2, <2>4
<1> QED BY <1>1, <1>2 DEF TierStep

(* Every step that is not about tickets keeps events, tiers and staff. *)
LEMMA SetupKeeps ==
    ASSUME TypeOK,
           \/ Tick \/ PlatformStep \/ StandardStep \/ EventStep
           \/ TierStep \/ StaffStep \/ UNCHANGED vars
    PROVE  /\ \A e \in EventKey : EventKept(e)
           /\ \A tr \in TierKey : TierKept(tr)
           /\ \A s \in StaffKey : staff[s] # "None" => staff'[s] # "None"
<1>1. CASE Tick \/ PlatformStep \/ StandardStep \/ UNCHANGED vars
    <2>1. UNCHANGED <<event, tier, staff>>
        BY <1>1 DEF Tick, PlatformStep, InitializePlatform, UpdatePlatform, StandardStep,
           SetAssetStandard, setupVars, vars
    <2> QED BY <2>1 DEF EventKept, TierKept, TypeOK, StateTypeOK
<1>2. CASE EventStep
    <2>1. UNCHANGED <<tier, staff>>
        BY <1>2 DEF EventStep, CreateEvent, UpdateEvent, PublishEvent, PublishEffect,
           CancelEvent, CloseEvent
    <2> QED BY <1>2, <2>1, EventStepKeepsEvents DEF TierKept
<1>3. CASE TierStep
    <2>1. UNCHANGED staff
        <3>1. PICK signer \in Wallet, e \in EventKey, price \in PriceInputs,
                   supply \in SupplyInputs :
                \/ \E id \in 0 .. MaxTierId - 1 : AddTier(signer, e, id, price, supply)
                \/ \E tr \in TierKey, active \in BOOLEAN :
                      UpdateTier(signer, e, tr, price, supply, active)
            BY <1>3 DEF TierStep
        <3> QED BY <3>1 DEF AddTier, UpdateTier
    <2> QED BY <1>3, <2>1, TierStepKeeps
<1>4. CASE StaffStep
    <2>1. PICK e \in EventKey, w \in Staff, status \in {"Active", "Revoked"} :
            /\ UNCHANGED <<event, tier>>
            /\ staff' = [staff EXCEPT ![<<e, w>>] = status]
        BY <1>4 DEF StaffStep, AuthorizeStaff, RevokeStaff
    <2> QED BY <2>1 DEF EventKept, TierKept, TypeOK, StateTypeOK
<1> QED BY <1>1, <1>2, <1>3, <1>4

(* A purchase issues the next ticket of a published event. *)
Issues(e, tr, id) ==
    LET t == <<e, id>> IN
    /\ t \in TicketKey
    /\ ticket[t] = None /\ ticket'[t] \in TicketRecord /\ OnlyTicket(t) /\ OnlyAsset(t)
    /\ ticket'[t].event = e /\ ticket'[t].tier = tr
    /\ ticket'[t].status = "Active" /\ ticket'[t].active_intent = None
    /\ ticket'[t].used_at = None /\ ticket'[t].used_by = None
    /\ event[e] \in EventRecord /\ event[e].status = "Published"
    /\ id = event[e].next_ticket_id
    /\ event' = [event EXCEPT ![e].next_ticket_id = @ + 1]
    /\ tier[tr] \in TierRecord /\ tier[tr].event = e
    /\ tier' = [tier EXCEPT ![tr].sold = @ + 1]
    /\ UNCHANGED <<listing, intent, staff, now>>

(* Each instruction about tickets has one of the shapes above: a *)
(* purchase issues, ...                                          *)
LEMMA PurchaseEffect ==
    ASSUME TypeOK, PurchaseStep
    PROVE  \E e \in EventKey, tr \in TierKey, id \in 0 .. MaxTicketId - 1 : Issues(e, tr, id)
<1>1. PICK buyer \in Holder, e \in EventKey, tr \in TierKey,
           id \in 0 .. MaxTicketId - 1, standard \in AssetStandard :
        SellTicket(buyer, e, tr, id, standard) /\ OnlyAsset(<<e, id>>)
    BY DEF PurchaseStep, PrimaryPurchase, PrimaryPurchaseCore, AssetStandard, OnlyAsset,
           TypeOK, StateTypeOK
<1> DEFINE t == <<e, id>>
<1>2. t \in TicketKey
    BY DEF TicketKey
<1>3. event[e] \in EventRecord /\ tier[tr] \in TierRecord
    BY <1>1 DEF SellTicket, SaleGuard, TypeOK, StateTypeOK
<1>4. /\ ticket[t] = None /\ OnlyTicket(t)
      /\ ticket'[t].event = e /\ ticket'[t].tier = tr
      /\ ticket'[t].status = "Active" /\ ticket'[t].active_intent = None
      /\ ticket'[t].used_at = None /\ ticket'[t].used_by = None
    BY <1>1, <1>2 DEF SellTicket, SaleGuard, IssuedTicket, OnlyTicket, TypeOK, StateTypeOK
<1>5. ticket'[t] \in TicketRecord
    <2>1. buyer \in Wallet /\ tier[tr].price_lamports \in Nat
        BY <1>3, StateAssumption DEF TierRecord
    <2>2. ticket'[t] = IssuedTicket(e, tr, standard, buyer, tier[tr].price_lamports)
        BY <1>1, <1>2 DEF SellTicket, TypeOK, StateTypeOK
    <2> QED BY <2>1, <2>2, IssuedTicketType
<1>6. /\ event[e].status = "Published" /\ id = event[e].next_ticket_id
      /\ event' = [event EXCEPT ![e].next_ticket_id = @ + 1]
      /\ tier[tr].event = e
      /\ tier' = [tier EXCEPT ![tr].sold = @ + 1]
      /\ UNCHANGED <<listing, intent, staff, now>>
    BY <1>1 DEF SellTicket, SaleGuard
<1> QED BY <1>1, <1>2, <1>3, <1>4, <1>5, <1>6
        DEF Issues

(* A gift moves an active ticket that is not presented. *)
Gives(t, recipient) ==
    /\ ticket[t] \in TicketRecord /\ TransferableTicket(t)
    /\ TransferOpen(ticket[t].event)
    /\ recipient # ticket[t].owner
    /\ TransferTicketOwner(ticket[t], recipient) \in TicketRecord
    /\ ticket'[t] = TransferTicketOwner(ticket[t], recipient)
    /\ OnlyTicket(t) /\ OnlyAsset(t)
    /\ UNCHANGED <<event, tier, listing, intent, staff, now>>

(* ... a gift gives, ... *)
LEMMA GiftEffect ==
    ASSUME TypeOK, GiftStep
    PROVE  \E t \in TicketKey, recipient \in Wallet : Gives(t, recipient)
<1>1. PICK signer \in Holder, recipient \in Holder, e \in EventKey, t \in TicketKey :
        GiftTicket(signer, recipient, e, t) \/ GiftTicketCore(signer, recipient, e, t)
    BY DEF GiftStep
<1>2. /\ recipient \in Wallet
      /\ GiftGuard(signer, recipient, e, t)
      /\ ticket[t] \in TicketRecord
    BY <1>1, StateAssumption DEF GiftTicket, GiftTicketCore, GiftGuard, TicketOfEvent,
       TypeOK, StateTypeOK
<1>3. TransferTicketOwner(ticket[t], recipient) \in TicketRecord
    BY <1>2, TransferTicketOwnerType DEF GiftGuard
<1>4. /\ ticket'[t] = TransferTicketOwner(ticket[t], recipient)
      /\ OnlyTicket(t) /\ OnlyAsset(t)
    BY <1>1 DEF GiftTicket, GiftTicketCore, OnlyTicket, OnlyAsset, TypeOK, StateTypeOK
<1>5. UNCHANGED <<event, tier, listing, intent, staff, now>>
    BY <1>1 DEF GiftTicket, GiftTicketCore, setupVars
<1> QED BY <1>2, <1>3, <1>4, <1>5
        DEF Gives, GiftGuard, TransferTicketOwnerOk, TicketOfEvent

(* Listing a ticket opens the next of its listings. *)
Offers(t, id) ==
    LET l == <<t, id>>
        e == ticket[t].event
    IN
    /\ l \in ListingKey
    /\ ticket[t] \in TicketRecord /\ TransferableTicket(t)
    /\ id = ticket[t].next_listing_id
    /\ ListedTicket(ticket[t]) \in TicketRecord
    /\ ticket'[t] = ListedTicket(ticket[t]) /\ OnlyTicket(t) /\ OnlyAsset(t)
    /\ listing[l] = None /\ listing'[l] \in ListingRecord /\ OnlyListing(l)
    /\ listing'[l].ticket = t /\ listing'[l].event = e
    /\ listing'[l].seller = ticket[t].owner
    /\ listing'[l].status = "Active"
    /\ listing'[l].expires_at <= event[e].details.check_in_start_at
    /\ listing'[l].price_lamports
          <= MaxResalePrice(ticket[t].original_price_lamports,
                            event[e].details.max_resale_markup_bps)
    /\ UNCHANGED <<event, tier, intent, staff, now>>

(* ... a listing offers, ... *)
LEMMA ListEffect ==
    ASSUME TypeOK, ListStep
    PROVE  \E t \in TicketKey, id \in 0 .. MaxListingId - 1 : Offers(t, id)
<1>1. PICK seller \in Holder, e \in EventKey, t \in TicketKey,
           id \in 0 .. MaxListingId - 1, price \in ResalePriceInputs,
           expires_at \in 0 .. MaxTime :
        OpenListing(seller, e, t, id, price, expires_at) /\ OnlyAsset(t)
    BY DEF ListStep, ListTicket, ListTicketCore, OnlyAsset, TypeOK, StateTypeOK
<1> DEFINE l == <<t, id>>
           opened == [ticket |-> t, event |-> e, seller |-> seller,
                      price_lamports |-> price, status |-> "Active",
                      expires_at |-> expires_at, buyer |-> None]
<1>2. l \in ListingKey /\ ticket[t] \in TicketRecord /\ ticket[t].event = e
    BY <1>1 DEF ListingKey, OpenListing, ListingGuard, TicketOfEvent, TypeOK, StateTypeOK
<1>3. opened \in ListingRecord
    <2>1. seller \in Wallet /\ price \in Nat /\ expires_at \in Nat
        BY StateAssumption, InputAssumption
    <2> QED BY <2>1 DEF ListingRecord
<1>4. /\ listing[l] = None /\ listing'[l] = opened /\ OnlyListing(l)
      /\ ticket'[t] = ListedTicket(ticket[t]) /\ OnlyTicket(t)
    BY <1>1, <1>2 DEF OpenListing, ListingGuard, OnlyTicket, OnlyListing, TypeOK,
       StateTypeOK
<1>5. ListedTicket(ticket[t]) \in TicketRecord
    BY <1>1, <1>2, ListedTicketType DEF OpenListing, ListingGuard
<1>6. /\ TransferableTicket(t) /\ id = ticket[t].next_listing_id
      /\ ticket[t].owner = seller
      /\ expires_at <= event[e].details.check_in_start_at
      /\ price <= MaxResalePrice(ticket[t].original_price_lamports,
                                 event[e].details.max_resale_markup_bps)
      /\ UNCHANGED <<event, tier, intent, staff, now>>
    BY <1>1 DEF OpenListing, ListingGuard, setupVars
<1> QED BY <1>1, <1>2, <1>3, <1>4, <1>5, <1>6
        DEF Offers

(* Cancelling closes the listing of a listed ticket and frees the ticket. *)
Withdraws(t, l) ==
    /\ ticket[t] \in TicketRecord /\ ticket[t].status = "Listed"
    /\ UnlistedTicket(ticket[t]) \in TicketRecord
    /\ ticket'[t] = UnlistedTicket(ticket[t]) /\ OnlyTicket(t) /\ OnlyAsset(t)
    /\ listing[l] \in ListingRecord /\ OpenOffer(l) /\ listing[l].ticket = t
    /\ listing'[l] = [listing[l] EXCEPT !.status = "Cancelled"]
    /\ OnlyListing(l)
    /\ UNCHANGED <<event, tier, intent, staff, now>>

(* ... a cancellation withdraws the offer, ... *)
LEMMA CancelListingEffect ==
    ASSUME TypeOK, CancelListingStep
    PROVE  \E t \in TicketKey, l \in ListingKey : Withdraws(t, l)
<1>1. PICK signer \in Holder, t \in TicketKey, l \in ListingKey :
        WithdrawListing(signer, t, l) /\ OnlyAsset(t)
    BY DEF CancelListingStep, CancelListing, CancelListingCore, OnlyAsset, TypeOK, StateTypeOK
<1>2. /\ ticket[t] \in TicketRecord /\ ticket[t].status = "Listed"
      /\ listing[l] \in ListingRecord /\ OpenOffer(l) /\ listing[l].ticket = t
    BY <1>1 DEF WithdrawListing, WithdrawGuard, CancelListingAccounts, OpenOffer, TypeOK,
       StateTypeOK
<1>3. /\ ticket'[t] = UnlistedTicket(ticket[t]) /\ OnlyTicket(t)
      /\ listing'[l] = [listing[l] EXCEPT !.status = "Cancelled"] /\ OnlyListing(l)
      /\ UNCHANGED <<event, tier, intent, staff, now>>
    BY <1>1 DEF WithdrawListing, OnlyTicket, OnlyListing, setupVars, TypeOK, StateTypeOK
<1> QED BY <1>1, <1>2, <1>3, UnlistedTicketType
        DEF Withdraws

(* A resale fills the listing of a listed ticket and moves the ticket. *)
Resells(t, l, buyer) ==
    LET moved == UnlistedTicket(TransferTicketOwner(ticket[t], buyer)) IN
    /\ ticket[t] \in TicketRecord /\ ticket[t].status = "Listed"
    /\ TransferOpen(ticket[t].event)
    /\ buyer # ticket[t].owner
    /\ moved \in TicketRecord
    /\ ticket'[t] = moved /\ OnlyTicket(t) /\ OnlyAsset(t)
    /\ listing[l] \in ListingRecord /\ OpenOffer(l) /\ listing[l].ticket = t
    /\ listing'[l] = [listing[l] EXCEPT !.status = "Filled", !.buyer = buyer]
    /\ OnlyListing(l)
    /\ UNCHANGED <<event, tier, intent, staff, now>>

(* ... a resale closes it and changes hands, ... *)
LEMMA ResaleEffect ==
    ASSUME TypeOK, ResaleStep
    PROVE  \E t \in TicketKey, l \in ListingKey, buyer \in Wallet : Resells(t, l, buyer)
<1>1. PICK buyer \in Holder, e \in EventKey, t \in TicketKey, l \in ListingKey :
        /\ ResaleGuard(buyer, e, t, l)
        /\ FillListing(buyer, t, l)
        /\ OnlyAsset(t)
        /\ UNCHANGED <<event, tier, intent, staff, now>>
    <2>1. PICK buyer \in Holder, e \in EventKey, t \in TicketKey, l \in ListingKey :
            BuyResale(buyer, e, t, l) \/ BuyResaleCore(buyer, e, t, l)
        BY DEF ResaleStep
    <2>2. /\ ResaleGuard(buyer, e, t, l)
          /\ FillListing(buyer, t, l)
          /\ UNCHANGED <<event, tier, intent, staff, now>>
        BY <2>1 DEF BuyResale, BuyResaleCore, setupVars
    <2>3. OnlyAsset(t)
        BY <2>1 DEF BuyResale, BuyResaleCore, OnlyAsset, TypeOK, StateTypeOK
    <2> QED BY <2>2, <2>3
<1>2. /\ ticket[t] \in TicketRecord /\ ticket[t].status = "Listed"
      /\ TransferOpen(ticket[t].event)
      /\ listing[l] \in ListingRecord /\ OpenOffer(l) /\ listing[l].ticket = t
      /\ buyer \in Wallet /\ buyer # ticket[t].owner
    BY <1>1, StateAssumption DEF ResaleGuard, BuyResaleAccounts, TicketOfEvent,
       OpenOffer, TypeOK, StateTypeOK
<1>3. UnlistedTicket(TransferTicketOwner(ticket[t], buyer)) \in TicketRecord
    BY <1>1, <1>2, TransferTicketOwnerType, UnlistedTicketType DEF FillListing
<1>4. /\ ticket'[t] = UnlistedTicket(TransferTicketOwner(ticket[t], buyer))
      /\ OnlyTicket(t)
      /\ listing'[l] = [listing[l] EXCEPT !.status = "Filled", !.buyer = buyer]
      /\ OnlyListing(l)
    BY <1>1 DEF FillListing, OnlyTicket, OnlyListing, TypeOK, StateTypeOK
<1> QED BY <1>1, <1>2, <1>3, <1>4
        DEF Resells

(* Presenting a ticket opens the next of its intents. *)
Presents(t, nonce) ==
    LET i == <<t, nonce>> IN
    /\ i \in IntentKey
    /\ ticket[t] \in TicketRecord /\ PresentableTicket(t)
    /\ PresentedTicket(ticket[t], i) \in TicketRecord
    /\ ticket'[t] = PresentedTicket(ticket[t], i) /\ OnlyTicket(t)
    /\ intent[i] = None /\ intent'[i] \in CheckInIntent /\ OnlyIntent(i)
    /\ intent'[i].ticket = t /\ intent'[i].event = ticket[t].event
    /\ intent'[i].holder = ticket[t].owner
    /\ intent'[i].status = "Pending"
    /\ UNCHANGED <<event, tier, listing, staff, now, asset>>

(* ... a presentation opens an intent, ... *)
LEMMA PresentEffect ==
    ASSUME TypeOK, PresentStep
    PROVE  \E t \in TicketKey, nonce \in 0 .. MaxNonce - 1 : Presents(t, nonce)
<1>1. PICK holder \in Holder, e \in EventKey, t \in TicketKey,
           nonce \in 0 .. MaxNonce - 1, expires_at \in 0 .. MaxTime :
        OpenIntent(holder, e, t, nonce, expires_at)
    BY DEF PresentStep, PresentCheckIn, PresentCheckInCore
<1> DEFINE i == <<t, nonce>>
           opened == [ticket |-> t, event |-> e, holder |-> holder,
                      expires_at |-> expires_at, status |-> "Pending",
                      consumed_at |-> None, staff |-> None]
<1>2. /\ i \in IntentKey /\ ticket[t] \in TicketRecord
      /\ ticket[t].event = e /\ ticket[t].owner = holder
    BY <1>1 DEF IntentKey, OpenIntent, PresentGuard, TicketOfEvent, TypeOK, StateTypeOK
<1>3. opened \in CheckInIntent
    <2>1. holder \in Wallet /\ expires_at \in Nat
        BY StateAssumption
    <2> QED BY <2>1 DEF CheckInIntent
<1>4. PresentedTicket(ticket[t], i) \in TicketRecord
    BY <1>1, <1>2, PresentedTicketType DEF OpenIntent, PresentGuard
<1>5. /\ PresentableTicket(t) /\ intent[i] = None
      /\ ticket'[t] = PresentedTicket(ticket[t], i) /\ OnlyTicket(t)
      /\ intent'[i] = opened /\ OnlyIntent(i)
    BY <1>1, <1>2 DEF OpenIntent, PresentGuard, OnlyTicket, OnlyIntent, TypeOK, StateTypeOK
<1>6. UNCHANGED <<event, tier, listing, staff, now, asset>>
    BY <1>1 DEF OpenIntent, setupVars
<1> QED BY <1>2, <1>3, <1>4, <1>5, <1>6
        DEF Presents

(* Cancelling or expiring closes the pending intent of a ticket. *)
Retracts(t, i, status) ==
    /\ PendingIntent(t, i)
    /\ ticket[t] \in TicketRecord /\ intent[i] \in CheckInIntent
    /\ RetractedTicket(ticket[t]) \in TicketRecord
    /\ ticket'[t] = RetractedTicket(ticket[t]) /\ OnlyTicket(t)
    /\ intent'[i] = [intent[i] EXCEPT !.status = status] /\ OnlyIntent(i)
    /\ UNCHANGED <<event, tier, listing, staff, now, asset>>

(* ... its cancellation or expiry retracts it, ... *)
LEMMA CloseIntentEffect ==
    ASSUME TypeOK, CloseIntentStep
    PROVE  \E t \in TicketKey, i \in IntentKey, status \in {"Cancelled", "Expired"} : Retracts(t, i, status)
<1>1. PICK t \in TicketKey, i \in IntentKey, status \in {"Cancelled", "Expired"} :
        PendingIntent(t, i) /\ CloseIntent(t, i, status)
    BY DEF CloseIntentStep, CancelCheckIn, ExpireCheckIn
<1>2. ticket[t] \in TicketRecord /\ intent[i] \in CheckInIntent
    BY <1>1 DEF PendingIntent, TypeOK, StateTypeOK
<1>3. /\ ticket'[t] = RetractedTicket(ticket[t]) /\ OnlyTicket(t)
      /\ intent'[i] = [intent[i] EXCEPT !.status = status] /\ OnlyIntent(i)
      /\ UNCHANGED <<event, tier, listing, staff, now, asset>>
    BY <1>1 DEF CloseIntent, OnlyTicket, OnlyIntent, setupVars, TypeOK, StateTypeOK
<1> QED BY <1>1, <1>2, <1>3, RetractedTicketType
        DEF Retracts

(* Consuming an intent admits its ticket, now, for an active staff member. *)
Admits(signer, t, i) ==
    /\ PendingIntent(t, i)
    /\ now < intent[i].expires_at
    /\ intent[i].holder = ticket[t].owner
    /\ CheckInOpen(ticket[t].event)
    /\ staff[<<ticket[t].event, signer>>] = "Active"
    /\ ticket[t] \in TicketRecord /\ intent[i] \in CheckInIntent
    /\ AdmittedTicket(ticket[t], signer, now) \in TicketRecord
    /\ ticket'[t] = AdmittedTicket(ticket[t], signer, now) /\ OnlyTicket(t)
    /\ intent'[i] = [intent[i] EXCEPT !.status = "Consumed",
                                      !.consumed_at = now, !.staff = signer]
    /\ OnlyIntent(i)
    /\ UNCHANGED <<event, tier, listing, staff, now, asset>>

(* ... and its consumption admits. *)
LEMMA ConsumeEffect ==
    ASSUME TypeOK, ConsumeStep
    PROVE  \E signer \in Wallet, t \in TicketKey, i \in IntentKey : Admits(signer, t, i)
<1>1. PICK signer \in Staff, e \in EventKey, t \in TicketKey, i \in IntentKey :
        ConsumeGuard(signer, e, t, i) /\ UseTicket(signer, t, i)
    BY DEF ConsumeStep, ConsumeCheckIn, ConsumeCheckInCore
<1>2. /\ signer \in Wallet /\ now \in Nat
      /\ ticket[t] \in TicketRecord /\ intent[i] \in CheckInIntent
    BY <1>1, StateAssumption DEF ConsumeGuard, PendingIntent, TypeOK, StateTypeOK
<1>3. /\ PendingIntent(t, i) /\ now < intent[i].expires_at
      /\ intent[i].holder = ticket[t].owner
      /\ CheckInOpen(ticket[t].event)
      /\ staff[<<ticket[t].event, signer>>] = "Active"
    BY <1>1 DEF ConsumeGuard, ConsumeCheckInAccounts, TicketOfEvent
<1>4. /\ ticket'[t] = AdmittedTicket(ticket[t], signer, now) /\ OnlyTicket(t)
      /\ intent'[i] = [intent[i] EXCEPT !.status = "Consumed",
                                        !.consumed_at = now, !.staff = signer]
      /\ OnlyIntent(i)
      /\ UNCHANGED <<event, tier, listing, staff, now, asset>>
    BY <1>1 DEF UseTicket, OnlyTicket, OnlyIntent, setupVars, TypeOK, StateTypeOK
<1> QED BY <1>2, <1>3, <1>4, AdmittedTicketType
        DEF Admits

---------------------------------------------------------------------------
(* Intents *)

(* No pending intent is for this ticket. *)
Unpresented(t) == \A i \in IntentKey : Pending(i) => intent[i].ticket # t

(* A pending intent names a ticket. *)
LEMMA PendingTyped ==
    ASSUME TypeOK, NEW i \in IntentKey, Pending(i)
    PROVE  intent[i] \in CheckInIntent /\ intent[i].ticket \in TicketKey
BY DEF Pending, TypeOK, StateTypeOK, CheckInIntent

(* A ticket that is not issued, not active or points at no intent has *)
(* none pending.                                                      *)
LEMMA NotPresented ==
    ASSUME IntentExclusive, NEW t \in TicketKey,
           \/ ticket[t] = None
           \/ ticket[t].active_intent = None
           \/ ticket[t].status # "Active"
    PROVE  Unpresented(t)
<1> SUFFICES ASSUME NEW i \in IntentKey, Pending(i), intent[i].ticket = t
             PROVE  FALSE
    BY DEF Unpresented
<1>1. ticket[t] # None /\ ticket[t].active_intent = i /\ ActiveTicket(t)
    BY DEF IntentExclusive, PendingIntentCurrent
<1> QED BY <1>1, NoneAssumption DEF ActiveTicket

(* A ticket with no pending intent points at none. *)
LEMMA ActiveIntentUnpresented ==
    ASSUME TypeOK, IntentExclusive, NEW t \in TicketKey, ticket[t] # None, Unpresented(t)
    PROVE  ticket[t].active_intent = None
BY DEF IntentExclusive, ActiveIntentPending, Unpresented, TicketRecord, TypeOK, StateTypeOK

(* A step may rewrite a ticket that nobody has presented, as long as it    *)
(* leaves the intents alone and the ticket points at none.                 *)
LEMMA IntentFrame ==
    ASSUME TypeOK, IntentExclusive, NEW t \in TicketKey, Unpresented(t),
           UNCHANGED intent, OnlyTicket(t),
           ticket'[t] # None => ticket'[t].active_intent = None
    PROVE  IntentExclusive'
<1>1. ASSUME NEW u \in TicketKey
      PROVE  ActiveIntentPending(u)'
    <2>1. CASE u = t
        BY <2>1 DEF ActiveIntentPending
    <2>2. CASE u # t
        BY <2>2 DEF IntentExclusive, ActiveIntentPending, Pending, OnlyTicket
    <2> QED BY <2>1, <2>2
<1>2. ASSUME NEW i \in IntentKey, Pending(i)
      PROVE  PendingIntentCurrent(i)'
    <2>1. intent[i].ticket \in TicketKey \ {t}
        BY <1>2, PendingTyped DEF Unpresented
    <2> QED BY <1>2, <2>1 DEF IntentExclusive, PendingIntentCurrent, ActiveTicket, OnlyTicket
<1>3. ASSUME NEW i \in IntentKey, ~Pending(i)
      PROVE  PendingIntentCurrent(i)'
    BY <1>3 DEF Pending, PendingIntentCurrent
<1> QED BY <1>1, <1>2, <1>3 DEF IntentExclusive

(* A step may close the pending intent of a ticket.                        *)
LEMMA ReleaseFrame ==
    ASSUME TypeOK, IntentExclusive, NEW t \in TicketKey, NEW i \in IntentKey,
           PendingIntent(t, i), OnlyTicket(t), OnlyIntent(i),
           ticket'[t].active_intent = None, ~Pending(i)'
    PROVE  IntentExclusive'
<1>1. ASSUME NEW u \in TicketKey
      PROVE  ActiveIntentPending(u)'
    <2>1. CASE u = t
        BY <2>1 DEF ActiveIntentPending
    <2>2. CASE u # t /\ ticket[u] # None /\ ticket[u].active_intent # None
        <3> DEFINE j == ticket[u].active_intent
        <3>1. j \in IntentKey /\ Pending(j) /\ intent[j].ticket = u
            BY <2>2 DEF IntentExclusive, ActiveIntentPending, TicketRecord, TypeOK, StateTypeOK
        <3>2. j # i
            BY <2>2, <3>1 DEF PendingIntent
        <3>3. ticket'[u] = ticket[u] /\ intent'[j] = intent[j]
            BY <2>2, <3>1, <3>2 DEF OnlyTicket, OnlyIntent
        <3> QED BY <3>1, <3>3 DEF ActiveIntentPending, Pending
    <2>3. CASE u # t /\ (ticket[u] = None \/ ticket[u].active_intent = None)
        BY <2>3 DEF ActiveIntentPending, OnlyTicket
    <2> QED BY <2>1, <2>2, <2>3
<1>2. ASSUME NEW j \in IntentKey
      PROVE  PendingIntentCurrent(j)'
    <2>1. CASE j # i /\ Pending(j)
        <3>1. ticket[intent[j].ticket].active_intent = j /\ intent[j].ticket \in TicketKey
            BY <2>1, PendingTyped DEF IntentExclusive, PendingIntentCurrent
        <3>2. intent[j].ticket \in TicketKey \ {t}
            BY <2>1, <3>1 DEF PendingIntent
        <3> QED BY <2>1, <3>2 DEF IntentExclusive, PendingIntentCurrent, Pending,
                ActiveTicket, OnlyTicket, OnlyIntent
    <2>2. CASE j # i /\ ~Pending(j)
        BY <2>2 DEF PendingIntentCurrent, Pending, OnlyIntent
    <2>3. CASE j = i
        BY <2>3 DEF PendingIntentCurrent
    <2> QED BY <2>1, <2>2, <2>3
<1> QED BY <1>1, <1>2 DEF IntentExclusive

(* A step may open an intent for a ticket nobody has presented.            *)
LEMMA PresentFrame ==
    ASSUME TypeOK, IntentExclusive, NEW t \in TicketKey, NEW nonce \in 0 .. MaxNonce - 1,
           Presents(t, nonce)
    PROVE  IntentExclusive'
<1> DEFINE i == <<t, nonce>>
<1>1. /\ i \in IntentKey /\ ticket[t] \in TicketRecord
      /\ OnlyTicket(t) /\ OnlyIntent(i)
      /\ intent[i] = None /\ intent'[i] \in CheckInIntent
    BY DEF Presents
<1>2. Unpresented(t)
    BY NotPresented DEF Presents, PresentableTicket
<1>3. /\ ticket'[t] \in TicketRecord
      /\ ticket'[t].active_intent = i
      /\ ticket'[t].event = ticket[t].event /\ ticket'[t].owner = ticket[t].owner
      /\ ActiveTicket(t)'
    BY <1>1 DEF Presents, PresentedTicket, PresentableTicket, ActiveTicket, TicketRecord
<1>4. Pending(i)' /\ intent'[i].ticket = t /\ ticket'[t] # None
    BY <1>1, <1>3, NoneAssumption DEF Presents, Pending
<1>5. ASSUME NEW u \in TicketKey
      PROVE  ActiveIntentPending(u)'
    <2>1. CASE u = t
        BY <2>1, <1>3, <1>4 DEF ActiveIntentPending
    <2>2. CASE u # t /\ ticket[u] # None /\ ticket[u].active_intent # None
        <3> DEFINE j == ticket[u].active_intent
        <3>1. j \in IntentKey /\ Pending(j) /\ intent[j].ticket = u
            BY <2>2 DEF IntentExclusive, ActiveIntentPending, TicketRecord, TypeOK, StateTypeOK
        <3>2. ticket'[u] = ticket[u] /\ intent'[j] = intent[j]
            BY <1>1, <2>2, <3>1 DEF OnlyTicket, OnlyIntent, Pending
        <3> QED BY <3>1, <3>2 DEF ActiveIntentPending, Pending
    <2>3. CASE u # t /\ (ticket[u] = None \/ ticket[u].active_intent = None)
        BY <1>1, <2>3 DEF ActiveIntentPending, OnlyTicket
    <2> QED BY <2>1, <2>2, <2>3
<1>6. ASSUME NEW j \in IntentKey
      PROVE  PendingIntentCurrent(j)'
    <2>1. CASE j # i /\ Pending(j)
        <3>1. intent[j].ticket \in TicketKey \ {t}
            BY <1>2, <2>1, PendingTyped DEF Unpresented
        <3> QED BY <1>1, <2>1, <3>1 DEF IntentExclusive, PendingIntentCurrent, Pending,
                ActiveTicket, OnlyTicket, OnlyIntent
    <2>2. CASE j # i /\ ~Pending(j)
        BY <1>1, <2>2 DEF PendingIntentCurrent, Pending, OnlyIntent
    <2>3. CASE j = i
        BY <2>3, <1>3, <1>4 DEF PendingIntentCurrent, Presents
    <2> QED BY <2>1, <2>2, <2>3
<1> QED BY <1>5, <1>6 DEF IntentExclusive

(* Every step keeps the intents exclusive. *)
LEMMA IntentExclusiveStep ==
    TypeOK /\ IntentExclusive /\ [Next]_vars => IntentExclusive'
<1> SUFFICES ASSUME TypeOK, IntentExclusive, [Next]_vars PROVE IntentExclusive'
    OBVIOUS
<1>1. CASE UNCHANGED <<ticket, intent>>
    BY <1>1 DEF IntentExclusive, ActiveIntentPending, PendingIntentCurrent, Pending,
                ActiveTicket
<1>2. CASE PurchaseStep
    <2>1. PICK e \in EventKey, tr \in TierKey, id \in 0 .. MaxTicketId - 1 : Issues(e, tr, id)
        BY <1>2, PurchaseEffect
    <2> QED BY <2>1, NotPresented, IntentFrame DEF Issues
<1>3. CASE GiftStep
    <2>1. PICK t \in TicketKey, recipient \in Wallet : Gives(t, recipient)
        BY <1>3, GiftEffect
    <2>2. ticket[t].active_intent = None /\ ticket'[t].active_intent = None
        BY <2>1 DEF Gives, TransferableTicket, TransferTicketOwner, TicketRecord
    <2> QED BY <2>1, <2>2, NotPresented, IntentFrame DEF Gives
<1>4. CASE ListStep
    <2>1. PICK t \in TicketKey, id \in 0 .. MaxListingId - 1 : Offers(t, id)
        BY <1>4, ListEffect
    <2>2. ticket[t].active_intent = None /\ ticket'[t].active_intent = None
        BY <2>1 DEF Offers, TransferableTicket, ListedTicket, TicketRecord
    <2> QED BY <2>1, <2>2, NotPresented, IntentFrame DEF Offers
<1>5. CASE CancelListingStep
    <2>1. PICK t \in TicketKey, l \in ListingKey : Withdraws(t, l)
        BY <1>5, CancelListingEffect
    <2>2. Unpresented(t) /\ ticket[t] \in TicketRecord /\ ticket[t] # None
        BY <2>1, NotPresented, NoneAssumption DEF Withdraws
    <2>3. ticket[t].active_intent = None
        BY <2>2, ActiveIntentUnpresented
    <2>4. ticket'[t].active_intent = None
        BY <2>1, <2>2, <2>3 DEF Withdraws, UnlistedTicket, TicketRecord
    <2> QED BY <2>1, <2>2, <2>4, IntentFrame DEF Withdraws
<1>6. CASE ResaleStep
    <2>1. PICK t \in TicketKey, l \in ListingKey, buyer \in Wallet : Resells(t, l, buyer)
        BY <1>6, ResaleEffect
    <2>2. Unpresented(t) /\ ticket[t] \in TicketRecord /\ ticket[t] # None
        BY <2>1, NotPresented, NoneAssumption DEF Resells
    <2>3. ticket[t].active_intent = None
        BY <2>2, ActiveIntentUnpresented
    <2>4. ticket'[t].active_intent = None
        BY <2>1, <2>2, <2>3
           DEF Resells, UnlistedTicket, TransferTicketOwner, TicketRecord
    <2> QED BY <2>1, <2>2, <2>4, IntentFrame DEF Resells
<1>7. CASE PresentStep
    BY <1>7, PresentEffect, PresentFrame
<1>8. CASE CloseIntentStep
    <2>1. PICK t \in TicketKey, i \in IntentKey, status \in {"Cancelled", "Expired"} :
            Retracts(t, i, status)
        BY <1>8, CloseIntentEffect
    <2>2. ticket'[t].active_intent = None /\ ~Pending(i)'
        BY <2>1 DEF Retracts, RetractedTicket, Pending, TicketRecord, CheckInIntent
    <2> QED BY <2>1, <2>2, ReleaseFrame DEF Retracts
<1>9. CASE ConsumeStep
    <2>1. PICK signer \in Wallet, t \in TicketKey, i \in IntentKey : Admits(signer, t, i)
        BY <1>9, ConsumeEffect
    <2>2. ticket'[t].active_intent = None /\ ~Pending(i)'
        BY <2>1 DEF Admits, AdmittedTicket, Pending, TicketRecord, CheckInIntent
    <2> QED BY <2>1, <2>2, ReleaseFrame DEF Admits
<1> QED BY <1>1, <1>2, <1>3, <1>4, <1>5, <1>6, <1>7, <1>8, <1>9, SetupEffect DEF Next

(* A ticket never has two pending intents, and the pending one is always   *)
(* that of the present owner of an active ticket.                          *)
THEOREM IntentAlwaysExclusive == Spec => []IntentExclusive
<1>1. Init => IntentExclusive
    BY DEF Init, IntentExclusive, ActiveIntentPending, PendingIntentCurrent, Pending
<1> QED BY <1>1, IntentExclusiveStep, TypeCorrect, PTL DEF Spec

---------------------------------------------------------------------------
(* Addresses *)

(* Steps that leave the used_by of every ticket alone, issue tickets of    *)
(* their event and authorise nobody less.                                  *)
LEMMA TicketIsolatedFrame ==
    ASSUME EventsIsolated, NEW t \in TicketKey,
           ticket[t] # None, ticket'[t].event = ticket[t].event,
           ticket'[t].tier = ticket[t].tier, ticket'[t].used_by = ticket[t].used_by,
           staff[<<t[1], ticket[t].used_by>>] # "None"
              => staff'[<<t[1], ticket[t].used_by>>] # "None"
    PROVE  TicketIsolated(t)'
BY DEF EventsIsolated, TicketIsolated

(* One ticket is rewritten and its event, its tier and its used_by stay. *)
LEMMA RewrittenIsolated ==
    ASSUME TypeOK, EventsIsolated, NEW t \in TicketKey,
           ticket[t] \in TicketRecord, OnlyTicket(t), UNCHANGED staff,
           ticket'[t].event = ticket[t].event, ticket'[t].tier = ticket[t].tier,
           ticket'[t].used_by = ticket[t].used_by
    PROVE  \A u \in TicketKey : TicketIsolated(u)'
<1> TAKE u \in TicketKey
<1>1. CASE u = t
    BY <1>1, TicketIsolatedFrame, NoneAssumption
<1>2. CASE u # t
    BY <1>2 DEF OnlyTicket, EventsIsolated, TicketIsolated
<1> QED BY <1>1, <1>2

ListingIsolated(l) ==
    listing[l] # None => listing[l].ticket = l[1] /\ listing[l].event = l[1][1]
IntentIsolated(i) ==
    intent[i] # None => intent[i].ticket = i[1] /\ intent[i].event = i[1][1]

(* One listing is written, for the ticket and the event of its address.    *)
LEMMA ListingFrame ==
    ASSUME EventsIsolated, NEW l \in ListingKey, OnlyListing(l),
           listing'[l].ticket = l[1], listing'[l].event = l[1][1]
    PROVE  \A k \in ListingKey : ListingIsolated(k)'
<1> TAKE k \in ListingKey
<1>1. CASE k = l
    BY <1>1 DEF ListingIsolated
<1>2. CASE k # l
    BY <1>2 DEF OnlyListing, EventsIsolated, ListingIsolated
<1> QED BY <1>1, <1>2

(* One intent is written, for the ticket and the event of its address. *)
LEMMA IntentAddressFrame ==
    ASSUME EventsIsolated, NEW i \in IntentKey, OnlyIntent(i),
           intent'[i].ticket = i[1], intent'[i].event = i[1][1]
    PROVE  \A j \in IntentKey : IntentIsolated(j)'
<1> TAKE j \in IntentKey
<1>1. CASE j = i
    BY <1>1 DEF IntentIsolated
<1>2. CASE j # i
    BY <1>2 DEF OnlyIntent, EventsIsolated, IntentIsolated
<1> QED BY <1>1, <1>2

(* The accounts a step leaves alone stay isolated. *)
LEMMA SameIsolated ==
    ASSUME EventsIsolated
    PROVE  /\ UNCHANGED tier => \A tr \in TierKey : tier'[tr] # None => tier'[tr].event = tr[1]
           /\ UNCHANGED listing => \A l \in ListingKey : ListingIsolated(l)'
           /\ UNCHANGED intent => \A i \in IntentKey : IntentIsolated(i)'
BY DEF EventsIsolated, ListingIsolated, IntentIsolated

(* Every step keeps the events isolated. *)
LEMMA EventsIsolatedStep ==
    TypeOK /\ EventsIsolated /\ [Next]_vars => EventsIsolated'
<1> SUFFICES ASSUME TypeOK, EventsIsolated, [Next]_vars PROVE EventsIsolated'
    OBVIOUS
<1>1. CASE \/ Tick \/ PlatformStep \/ StandardStep \/ EventStep
           \/ TierStep \/ StaffStep \/ UNCHANGED vars
    <2>1. UNCHANGED <<ticket, listing, intent>>
        BY <1>1, SetupEffect
    <2>2. /\ \A tr \in TierKey : TierKept(tr)
          /\ \A s \in StaffKey : staff[s] # "None" => staff'[s] # "None"
        BY <1>1, SetupKeeps
    <2>3. ASSUME NEW t \in TicketKey PROVE TicketIsolated(t)'
        <3>1. ASSUME ticket[t] # None, ticket[t].used_by # None
              PROVE  <<t[1], ticket[t].used_by>> \in StaffKey
            BY <3>1 DEF TicketKey, StaffKey, TicketRecord, TypeOK, StateTypeOK
        <3> QED BY <2>1, <2>2, <3>1 DEF EventsIsolated, TicketIsolated
    <2> QED BY <2>1, <2>2, <2>3 DEF EventsIsolated, TierKept
<1>2. CASE PurchaseStep
    <2>1. PICK e \in EventKey, tr \in TierKey, id \in 0 .. MaxTicketId - 1 : Issues(e, tr, id)
        BY <1>2, PurchaseEffect
    <2> DEFINE t == <<e, id>>
    <2>2. /\ t \in TicketKey /\ t[1] = e /\ OnlyTicket(t)
          /\ ticket'[t].event = e /\ ticket'[t].tier = tr /\ ticket'[t].used_by = None
          /\ tier[tr] \in TierRecord /\ tier[tr].event = e
          /\ tier' = [tier EXCEPT ![tr].sold = @ + 1]
          /\ UNCHANGED <<listing, intent, staff>>
        BY <2>1 DEF Issues
    <2> HIDE DEF t
    <2>3. tr[1] = e
        BY <2>2, NoneAssumption DEF EventsIsolated
    <2>4. \A k \in TierKey : tier'[k] # None => tier'[k].event = k[1]
        <3> TAKE k \in TierKey
        <3>1. CASE k = tr
            BY <2>2, <2>3, <3>1 DEF TierRecord, TypeOK, StateTypeOK
        <3>2. CASE k # tr
            BY <2>2, <3>2 DEF EventsIsolated, TypeOK, StateTypeOK
        <3> QED BY <3>1, <3>2
    <2>5. \A u \in TicketKey : TicketIsolated(u)'
        <3> TAKE u \in TicketKey
        <3>1. CASE u = t
            BY <2>2, <2>3, <3>1 DEF TicketIsolated
        <3>2. CASE u # t
            BY <2>2, <3>2 DEF EventsIsolated, TicketIsolated, OnlyTicket
        <3> QED BY <3>1, <3>2
    <2> QED BY <2>2, <2>4, <2>5 DEF EventsIsolated
<1>3. CASE GiftStep
    <2>1. PICK t \in TicketKey, recipient \in Wallet :
            Gives(t, recipient)
        BY <1>3, GiftEffect
    <2>2. \A u \in TicketKey : TicketIsolated(u)'
        <3>1. /\ t \in TicketKey /\ ticket[t] \in TicketRecord /\ OnlyTicket(t) /\ UNCHANGED staff
              /\ ticket'[t].event = ticket[t].event /\ ticket'[t].tier = ticket[t].tier
              /\ ticket'[t].used_by = ticket[t].used_by
            BY <2>1 DEF Gives, TransferTicketOwner, TicketRecord
        <3> QED BY <3>1, RewrittenIsolated
    <2> QED BY <2>1, <2>2, SameIsolated
           DEF Gives, EventsIsolated, ListingIsolated, IntentIsolated
<1>4. CASE ListStep
    <2>1. PICK t \in TicketKey, id \in 0 .. MaxListingId - 1 :
            Offers(t, id)
        BY <1>4, ListEffect
    <2>2. \A u \in TicketKey : TicketIsolated(u)'
        <3>1. /\ t \in TicketKey /\ ticket[t] \in TicketRecord /\ OnlyTicket(t) /\ UNCHANGED staff
              /\ ticket'[t].event = ticket[t].event /\ ticket'[t].tier = ticket[t].tier
              /\ ticket'[t].used_by = ticket[t].used_by
            BY <2>1 DEF Offers, ListedTicket, TicketRecord
        <3> QED BY <3>1, RewrittenIsolated
    <2>3. \A k \in ListingKey : ListingIsolated(k)'
        <3> DEFINE n == <<t, id>>
        <3>1. /\ n \in ListingKey /\ n[1] = t /\ OnlyListing(n)
              /\ listing'[n].ticket = t /\ listing'[n].event = ticket[t].event
              /\ ticket[t] # None
            BY <2>1, NoneAssumption DEF Offers
        <3>2. ticket[t].event = t[1]
            BY <2>1, <3>1 DEF EventsIsolated, TicketIsolated
        <3> HIDE DEF n
        <3> QED BY <3>1, <3>2, ListingFrame
    <2> QED BY <2>1, <2>2, <2>3, SameIsolated
           DEF Offers, EventsIsolated, ListingIsolated, IntentIsolated
<1>5. CASE CancelListingStep
    <2>1. PICK t \in TicketKey, l \in ListingKey :
            Withdraws(t, l)
        BY <1>5, CancelListingEffect
    <2>2. \A u \in TicketKey : TicketIsolated(u)'
        <3>1. /\ t \in TicketKey /\ ticket[t] \in TicketRecord /\ OnlyTicket(t) /\ UNCHANGED staff
              /\ ticket'[t].event = ticket[t].event /\ ticket'[t].tier = ticket[t].tier
              /\ ticket'[t].used_by = ticket[t].used_by
            BY <2>1 DEF Withdraws, UnlistedTicket, TicketRecord
        <3> QED BY <3>1, RewrittenIsolated
    <2>3. \A k \in ListingKey : ListingIsolated(k)'
        <3>1. /\ l \in ListingKey /\ listing[l] # None /\ OnlyListing(l)
              /\ listing'[l].ticket = listing[l].ticket /\ listing'[l].event = listing[l].event
            BY <2>1, NoneAssumption DEF Withdraws, ListingRecord
        <3>2. listing[l].ticket = l[1] /\ listing[l].event = l[1][1]
            BY <3>1 DEF EventsIsolated
        <3> QED BY <3>1, <3>2, ListingFrame
    <2> QED BY <2>1, <2>2, <2>3, SameIsolated
           DEF Withdraws, EventsIsolated, ListingIsolated, IntentIsolated
<1>6. CASE ResaleStep
    <2>1. PICK t \in TicketKey, l \in ListingKey, buyer \in Wallet :
            Resells(t, l, buyer)
        BY <1>6, ResaleEffect
    <2>2. \A u \in TicketKey : TicketIsolated(u)'
        <3>1. /\ t \in TicketKey /\ ticket[t] \in TicketRecord /\ OnlyTicket(t) /\ UNCHANGED staff
              /\ ticket'[t].event = ticket[t].event /\ ticket'[t].tier = ticket[t].tier
              /\ ticket'[t].used_by = ticket[t].used_by
            BY <2>1 DEF Resells, UnlistedTicket, TransferTicketOwner, TicketRecord
        <3> QED BY <3>1, RewrittenIsolated
    <2>3. \A k \in ListingKey : ListingIsolated(k)'
        <3>1. /\ l \in ListingKey /\ listing[l] # None /\ OnlyListing(l)
              /\ listing'[l].ticket = listing[l].ticket /\ listing'[l].event = listing[l].event
            BY <2>1, NoneAssumption DEF Resells, ListingRecord
        <3>2. listing[l].ticket = l[1] /\ listing[l].event = l[1][1]
            BY <3>1 DEF EventsIsolated
        <3> QED BY <3>1, <3>2, ListingFrame
    <2> QED BY <2>1, <2>2, <2>3, SameIsolated
           DEF Resells, EventsIsolated, ListingIsolated, IntentIsolated
<1>7. CASE PresentStep
    <2>1. PICK t \in TicketKey, nonce \in 0 .. MaxNonce - 1 :
            Presents(t, nonce)
        BY <1>7, PresentEffect
    <2>2. \A u \in TicketKey : TicketIsolated(u)'
        <3>1. /\ t \in TicketKey /\ ticket[t] \in TicketRecord /\ OnlyTicket(t) /\ UNCHANGED staff
              /\ ticket'[t].event = ticket[t].event /\ ticket'[t].tier = ticket[t].tier
              /\ ticket'[t].used_by = ticket[t].used_by
            BY <2>1 DEF Presents, PresentedTicket, TicketRecord
        <3> QED BY <3>1, RewrittenIsolated
    <2>3. \A k \in IntentKey : IntentIsolated(k)'
        <3> DEFINE n == <<t, nonce>>
        <3>1. /\ n \in IntentKey /\ n[1] = t /\ OnlyIntent(n)
              /\ intent'[n].ticket = t /\ intent'[n].event = ticket[t].event
              /\ ticket[t] # None
            BY <2>1, NoneAssumption DEF Presents
        <3>2. ticket[t].event = t[1]
            BY <2>1, <3>1 DEF EventsIsolated, TicketIsolated
        <3> HIDE DEF n
        <3> QED BY <3>1, <3>2, IntentAddressFrame
    <2> QED BY <2>1, <2>2, <2>3, SameIsolated
           DEF Presents, EventsIsolated, ListingIsolated, IntentIsolated
<1>8. CASE CloseIntentStep
    <2>1. PICK t \in TicketKey, i \in IntentKey, status \in {"Cancelled", "Expired"} :
            Retracts(t, i, status)
        BY <1>8, CloseIntentEffect
    <2>2. \A u \in TicketKey : TicketIsolated(u)'
        <3>1. /\ t \in TicketKey /\ ticket[t] \in TicketRecord /\ OnlyTicket(t) /\ UNCHANGED staff
              /\ ticket'[t].event = ticket[t].event /\ ticket'[t].tier = ticket[t].tier
              /\ ticket'[t].used_by = ticket[t].used_by
            BY <2>1 DEF Retracts, RetractedTicket, TicketRecord
        <3> QED BY <3>1, RewrittenIsolated
    <2>3. \A k \in IntentKey : IntentIsolated(k)'
        <3>1. /\ i \in IntentKey /\ intent[i] # None /\ OnlyIntent(i)
              /\ intent'[i].ticket = intent[i].ticket /\ intent'[i].event = intent[i].event
            BY <2>1, NoneAssumption DEF Retracts, CheckInIntent
        <3>2. intent[i].ticket = i[1] /\ intent[i].event = i[1][1]
            BY <3>1 DEF EventsIsolated
        <3> QED BY <3>1, <3>2, IntentAddressFrame
    <2> QED BY <2>1, <2>2, <2>3, SameIsolated
           DEF Retracts, EventsIsolated, ListingIsolated, IntentIsolated
<1>9. CASE ConsumeStep
    <2>1. PICK signer \in Wallet, t \in TicketKey, i \in IntentKey :
            Admits(signer, t, i)
        BY <1>9, ConsumeEffect
    <2>2. \A u \in TicketKey : TicketIsolated(u)'
        <3>1. /\ ticket[t] \in TicketRecord /\ OnlyTicket(t) /\ UNCHANGED staff
              /\ ticket'[t].event = ticket[t].event /\ ticket'[t].tier = ticket[t].tier
              /\ ticket'[t].used_by = signer
              /\ staff[<<ticket[t].event, signer>>] = "Active"
            BY <2>1 DEF Admits, AdmittedTicket, TicketRecord
        <3>2. ticket[t] # None /\ ticket[t].event = t[1] /\ ticket[t].tier[1] = t[1]
            BY <3>1, NoneAssumption DEF EventsIsolated, TicketIsolated
        <3> TAKE u \in TicketKey
        <3>3. CASE u = t
            BY <3>1, <3>2, <3>3 DEF TicketIsolated
        <3>4. CASE u # t
            BY <3>1, <3>4 DEF EventsIsolated, TicketIsolated, OnlyTicket
        <3> QED BY <3>3, <3>4
    <2>3. \A k \in IntentKey : IntentIsolated(k)'
        <3>1. /\ i \in IntentKey /\ intent[i] # None /\ OnlyIntent(i)
              /\ intent'[i].ticket = intent[i].ticket /\ intent'[i].event = intent[i].event
            BY <2>1, NoneAssumption DEF Admits, CheckInIntent
        <3>2. intent[i].ticket = i[1] /\ intent[i].event = i[1][1]
            BY <3>1 DEF EventsIsolated
        <3> QED BY <3>1, <3>2, IntentAddressFrame
    <2> QED BY <2>1, <2>2, <2>3, SameIsolated
           DEF Admits, EventsIsolated, ListingIsolated, IntentIsolated
<1> QED BY <1>1, <1>2, <1>3, <1>4, <1>5, <1>6, <1>7, <1>8, <1>9 DEF Next

(* No account of one event is ever used for another event.                 *)
THEOREM EventsAlwaysIsolated == Spec => []EventsIsolated
<1>1. Init => EventsIsolated
    BY DEF Init, EventsIsolated, TicketIsolated
<1> QED BY <1>1, EventsIsolatedStep, TypeCorrect, PTL DEF Spec
=============================
