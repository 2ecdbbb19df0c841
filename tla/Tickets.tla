---- MODULE Tickets ----
(***************************************************************************)
(* Primary sale, gift and resale of tickets, with a program-managed asset  *)
(* or with an MPL Core asset (the ...Core actions).  A transaction is      *)
(* atomic: an instruction whose guards or CPIs fail changes nothing, so    *)
(* each handler is one action.                                             *)
(***************************************************************************)
EXTENDS TicketingState

(* Mutant: the last place of a tier is sold twice. *)
TierHasOneMore(tr) == tier[tr].active /\ tier[tr].sold <= tier[tr].supply

TierHasStock(tr) == tier[tr].active /\ tier[tr].sold < tier[tr].supply

(* What two transfers out of the buyer leave: to organizer and treasury. *)
SalePaid(buyer, e, tr) ==
    LET split == PrimarySplit(tier[tr].price_lamports, event[e].platform_fee_bps)
        toOrg == TransferLamports(balance, buyer, event[e].organizer, split.organizer)
    IN
    TransferLamports(toOrg, buyer, event[e].platform_treasury, split.platform)

(* The checks both purchase handlers share. *)
SaleGuard(buyer, e, tr, ticket_id, standard) ==
    /\ PlatformActive
    /\ config.asset_standard = standard
    /\ event[e] # None
    /\ tier[tr] # None
    /\ tier[tr].event = e
    /\ event[e].status = "Published"
    /\ event[e].details.sales_start_at <= now
    /\ now <= event[e].details.sales_end_at
    /\ TierHasStock(tr)
    /\ ticket_id = event[e].next_ticket_id
    /\ event[e].next_ticket_id + 1 <= MaxTicketId
    /\ ticket[<<e, ticket_id>>] = None
    /\ PrimarySplitOk(tier[tr].price_lamports, event[e].platform_fee_bps)
    /\ SalePaid(buyer, e, tr)[buyer] >= 0

(* And their writes. *)
SellTicket(buyer, e, tr, ticket_id, standard) ==
    /\ SaleGuard(buyer, e, tr, ticket_id, standard)
    /\ balance' = SalePaid(buyer, e, tr)
    /\ ticket' = [ticket EXCEPT ![<<e, ticket_id>>] =
                    IssuedTicket(e, tr, standard, buyer, tier[tr].price_lamports)]
    /\ tier' = [tier EXCEPT ![tr].sold = @ + 1]
    /\ event' = [event EXCEPT ![e].next_ticket_id = @ + 1]
    /\ UNCHANGED <<config, staff, listing, intent, now>>

PrimaryPurchase(buyer, e, tr, ticket_id) ==
    /\ SellTicket(buyer, e, tr, ticket_id, "Managed")
    /\ asset' = [asset EXCEPT ![<<e, ticket_id>>] = ManagedAsset(buyer)]

PrimaryPurchaseCore(buyer, e, tr, ticket_id) ==
    /\ SellTicket(buyer, e, tr, ticket_id, "MplCore")
    /\ asset' = [asset EXCEPT ![<<e, ticket_id>>] = CoreAsset(buyer)]

---------------------------------------------------------------------------
(* Gifts *)

GiftGuard(signer, recipient, e, t) ==
    /\ PlatformActive
    /\ TicketOfEvent(t, e)
    /\ TransferOpen(e)
    /\ TransferableTicket(t)
    /\ ticket[t].owner = signer
    /\ TransferTicketOwnerOk(ticket[t], recipient)

GiftTicket(signer, recipient, e, t) ==
    /\ GiftGuard(signer, recipient, e, t)
    /\ VerifyManagedAsset(t)
    /\ ticket' = [ticket EXCEPT ![t] = TransferTicketOwner(@, recipient)]
    /\ asset' = [asset EXCEPT ![t].owner = recipient]
    /\ UNCHANGED <<config, setupVars, listing, intent, balance, now>>

(* Mutant: the asset is left thawed after the transfer. *)
GiftTicketCoreThawed(signer, recipient, e, t) ==
    LET thawed == SetFrozen(asset[t], FALSE) IN
    /\ GiftGuard(signer, recipient, e, t)
    /\ VerifyCoreAsset(t, signer)
    /\ CoreTransferByOwnerOk(thawed, signer)
    /\ asset' = [asset EXCEPT ![t] = CoreTransfer(thawed, recipient)]
    /\ ticket' = [ticket EXCEPT ![t] = TransferTicketOwner(@, recipient)]
    /\ UNCHANGED <<config, setupVars, listing, intent, balance, now>>

GiftTicketCore(signer, recipient, e, t) ==
    LET thawed == SetFrozen(asset[t], FALSE) IN
    /\ GiftGuard(signer, recipient, e, t)
    /\ VerifyCoreAsset(t, signer)
    /\ CoreTransferByOwnerOk(thawed, signer)
    /\ asset' = [asset EXCEPT ![t] = SetFrozen(CoreTransfer(thawed, recipient), TRUE)]
    /\ ticket' = [ticket EXCEPT ![t] = TransferTicketOwner(@, recipient)]
    /\ UNCHANGED <<config, setupVars, listing, intent, balance, now>>

---------------------------------------------------------------------------
(* Resale listings *)

(* What both listing handlers check. *)
ListingGuard(seller, e, t, listing_id, price, expires_at) ==
    /\ PlatformActive
    /\ TicketOfEvent(t, e)
    /\ TransferOpen(e)
    /\ event[e].details.resale_enabled
    /\ TransferableTicket(t)
    /\ ticket[t].owner = seller
    /\ listing_id = ticket[t].next_listing_id
    /\ ticket[t].next_listing_id + 1 <= MaxListingId
    /\ listing[<<t, listing_id>>] = None
    /\ ticket[t].original_price_lamports > 0
    /\ MaxResalePriceOk(ticket[t].original_price_lamports,
                        event[e].details.max_resale_markup_bps)
    /\ price > 0
    /\ price <= MaxResalePrice(ticket[t].original_price_lamports,
                               event[e].details.max_resale_markup_bps)
    /\ now < expires_at
    /\ expires_at <= event[e].details.check_in_start_at

(* And what they write. *)
OpenListing(seller, e, t, listing_id, price, expires_at) ==
    /\ ListingGuard(seller, e, t, listing_id, price, expires_at)
    /\ listing' = [listing EXCEPT ![<<t, listing_id>>] =
                    [ticket |-> t, event |-> e, seller |-> seller,
                     price_lamports |-> price, status |-> "Active",
                     expires_at |-> expires_at, buyer |-> None]]
    /\ ticket' = [ticket EXCEPT ![t] = ListedTicket(@)]
    /\ UNCHANGED <<config, setupVars, intent, balance, now>>

ListTicket(seller, e, t, listing_id, price, expires_at) ==
    /\ OpenListing(seller, e, t, listing_id, price, expires_at)
    /\ VerifyManagedAsset(t)
    /\ UNCHANGED asset

ListTicketCore(seller, e, t, listing_id, price, expires_at) ==
    /\ OpenListing(seller, e, t, listing_id, price, expires_at)
    /\ VerifyCoreAsset(t, seller)
    /\ AddTransferDelegateOk(asset[t], seller)
    /\ asset' = [asset EXCEPT ![t] = AddTransferDelegate(@)]

CancelListingAccounts(t, l) ==
    /\ ticket[t] # None
    /\ listing[l] # None
    /\ listing[l].ticket = t
    /\ listing[l].event = ticket[t].event

(* What both cancellation handlers check. *)
WithdrawGuard(signer, t, l) ==
    /\ CancelListingAccounts(t, l)
    /\ listing[l].status = "Active"
    /\ ticket[t].status = "Listed"
    /\ listing[l].seller = signer
    /\ ticket[t].owner = signer

(* And what they write. *)
WithdrawListing(signer, t, l) ==
    /\ WithdrawGuard(signer, t, l)
    /\ listing' = [listing EXCEPT ![l] = [@ EXCEPT !.status = "Cancelled"]]
    /\ ticket' = [ticket EXCEPT ![t] = UnlistedTicket(@)]
    /\ UNCHANGED <<config, setupVars, intent, balance, now>>

(* The asset is not among the accounts of cancel_listing, nor is the asset *)
(* standard of the ticket checked: the seller of a Core ticket may call it. *)
CancelListing(signer, t, l) ==
    /\ WithdrawListing(signer, t, l)
    /\ UNCHANGED asset

CancelListingCore(signer, t, l) ==
    LET thawed == SetFrozen(asset[t], FALSE) IN
    /\ WithdrawListing(signer, t, l)
    /\ VerifyCoreAsset(t, signer)
    /\ RemoveTransferDelegateOk(thawed, signer)
    /\ asset' = [asset EXCEPT ![t] = SetFrozen(RemoveTransferDelegate(thawed), TRUE)]

---------------------------------------------------------------------------
(* Resale purchases *)

BuyResaleAccounts(e, t, l) ==
    /\ TicketOfEvent(t, e)
    /\ listing[l] # None
    /\ listing[l].ticket = t
    /\ listing[l].event = e

ResaleGuard(buyer, e, t, l) ==
    /\ PlatformActive
    /\ BuyResaleAccounts(e, t, l)
    /\ TransferOpen(e)
    /\ listing[l].status = "Active"
    /\ ticket[t].status = "Listed"
    /\ buyer # listing[l].seller
    /\ ticket[t].owner = listing[l].seller
    /\ now < listing[l].expires_at

(* What three transfers out of the buyer leave: to seller, organizer and   *)
(* treasury.                                                               *)
ResalePaid(buyer, e, l) ==
    LET split       == ResaleSplit(listing[l].price_lamports, event[e].platform_fee_bps,
                                   event[e].details.organizer_royalty_bps)
        toSeller    == TransferLamports(balance, buyer, listing[l].seller, split.seller)
        toOrganizer == TransferLamports(toSeller, buyer, event[e].organizer,
                                        split.organizer)
    IN
    TransferLamports(toOrganizer, buyer, event[e].platform_treasury, split.platform)

ResalePayable(buyer, e, l) ==
    /\ ResaleSplitOk(listing[l].price_lamports, event[e].platform_fee_bps,
                     event[e].details.organizer_royalty_bps)
    /\ ResalePaid(buyer, e, l)[buyer] >= 0

ResalePayment(buyer, e, l) ==
    ResalePayable(buyer, e, l) /\ balance' = ResalePaid(buyer, e, l)

(* Mutant: the sold listing is left active. *)
FillListingKeptActive(buyer, t, l) ==
    /\ TransferTicketOwnerOk(ticket[t], buyer)
    /\ ticket' = [ticket EXCEPT ![t] =
                    UnlistedTicket(TransferTicketOwner(@, buyer))]
    /\ listing' = [listing EXCEPT ![l] = [@ EXCEPT !.buyer = buyer]]

FillListing(buyer, t, l) ==
    /\ TransferTicketOwnerOk(ticket[t], buyer)
    /\ ticket' = [ticket EXCEPT ![t] =
                    UnlistedTicket(TransferTicketOwner(@, buyer))]
    /\ listing' = [listing EXCEPT ![l] = [@ EXCEPT !.status = "Filled", !.buyer = buyer]]

BuyResale(buyer, e, t, l) ==
    /\ ResaleGuard(buyer, e, t, l)
    /\ VerifyManagedAsset(t)
    /\ ResalePayment(buyer, e, l)
    /\ FillListing(buyer, t, l)
    /\ asset' = [asset EXCEPT ![t].owner = buyer]
    /\ UNCHANGED <<config, setupVars, intent, now>>

BuyResaleCore(buyer, e, t, l) ==
    LET thawed == SetFrozen(asset[t], FALSE) IN
    /\ ResaleGuard(buyer, e, t, l)
    /\ VerifyCoreAsset(t, listing[l].seller)
    /\ ResalePayment(buyer, e, l)
    /\ CoreTransferByDelegateOk(thawed)
    /\ FillListing(buyer, t, l)
    /\ asset' = [asset EXCEPT ![t] = SetFrozen(CoreTransfer(thawed, buyer), TRUE)]
    /\ UNCHANGED <<config, setupVars, intent, now>>
=========================
