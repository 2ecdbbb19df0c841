---- MODULE TicketingState ----
(***************************************************************************)
(* The accounts of the program, the clock and the lamports of the wallets, *)
(* with the helpers every instruction shares.                              *)
(*                                                                         *)
(* An account lives at an address derived from seeds (a PDA): an address   *)
(* is the tuple of its seeds, and the value at an address is None until    *)
(* the instruction that initialises the account.  Data the handlers read   *)
(* back from an account to relate it to another (ticket.event,             *)
(* listing.ticket, ...) is kept in the record, and the constraints of the  *)
(* accounts contexts are guards over it.                                   *)
(***************************************************************************)
EXTENDS Domain

CONSTANTS
    Wallet,             \* every key that can sign or be paid
    UpgradeAuthority,   \* the wallet that may initialise the platform
    Organizer,          \* bound: wallets that create events
    Holder,             \* bound: wallets that buy, receive or resell tickets
    Staff,              \* bound: wallets an organizer authorises
    EventId,            \* bound: the event_id arguments
    MaxTierId,          \* where next_tier_id overflows (u16)
    MaxTicketId,        \* where next_ticket_id overflows (u64)
    MaxListingId,       \* where next_listing_id overflows (u32)
    MaxNonce,           \* where next_intent_nonce overflows (u64)
    MaxTransfers,       \* where transfer_count overflows (u32)
    MaxTime,            \* bound: the clock stops here
    InitialLamports,    \* what each wallet holds at the start
    None                \* an account that does not exist, Option::None

EventKey   == Organizer \X EventId
TierKey    == EventKey \X (0 .. MaxTierId - 1)
TicketKey  == EventKey \X (0 .. MaxTicketId - 1)
ListingKey == TicketKey \X (0 .. MaxListingId - 1)
IntentKey  == TicketKey \X (0 .. MaxNonce - 1)
StaffKey   == EventKey \X Wallet

AssetStandard == {"Managed", "BubblegumV2", "MplCore"}

PlatformConfig ==
    [admin : Wallet, treasury : Wallet, asset_standard : AssetStandard,
     platform_fee_bps : Nat, paused : BOOLEAN]

EventRecord ==
    [organizer : Wallet, platform_treasury : Wallet, platform_fee_bps : Nat,
     details : EventDetails, status : {"Draft", "Published", "Cancelled", "Closed"},
     next_tier_id : 0 .. MaxTierId, next_ticket_id : 0 .. MaxTicketId]

TierRecord ==
    [event : EventKey, price_lamports : Nat, supply : Nat, sold : Nat,
     active : BOOLEAN]

TicketRecord ==
    [event : EventKey, tier : TierKey, asset_standard : AssetStandard,
     owner : Wallet, original_price_lamports : Nat,
     status : {"Active", "Listed", "Used"},
     transfer_count : 0 .. MaxTransfers,
     used_at : Nat \cup {None}, used_by : Wallet \cup {None},
     next_listing_id : 0 .. MaxListingId, next_intent_nonce : 0 .. MaxNonce,
     active_intent : IntentKey \cup {None}]

(* ManagedAsset, or the account MPL Core keeps: its owner, its permanent   *)
(* freeze plugin and whether it carries the TransferDelegate plugin.       *)
AssetRecord ==
    [standard : AssetStandard, owner : Wallet, frozen : BOOLEAN,
     delegated : BOOLEAN]

ListingRecord ==
    [ticket : TicketKey, event : EventKey, seller : Wallet,
     price_lamports : Nat, status : {"Active", "Cancelled", "Filled"},
     expires_at : Nat, buyer : Wallet \cup {None}]

CheckInIntent ==
    [ticket : TicketKey, event : EventKey, holder : Wallet, expires_at : Nat,
     status : {"Pending", "Cancelled", "Expired", "Consumed"},
     consumed_at : Nat \cup {None}, staff : Wallet \cup {None}]

ASSUME StateAssumption ==
    /\ UpgradeAuthority \in Wallet
    /\ Organizer \subseteq Wallet
    /\ Holder \subseteq Wallet
    /\ Staff \subseteq Wallet
    /\ {MaxTierId, MaxTicketId, MaxListingId, MaxNonce, MaxTransfers} \subseteq Nat
    /\ MaxTime \in Nat
    /\ InitialLamports \in Nat

ASSUME NoneAssumption ==
    /\ None \notin Nat
    /\ None \notin Wallet
    /\ None \notin IntentKey
    /\ None \notin PlatformConfig
    /\ None \notin EventRecord
    /\ None \notin TierRecord
    /\ None \notin TicketRecord
    /\ None \notin AssetRecord
    /\ None \notin ListingRecord
    /\ None \notin CheckInIntent

VARIABLES
    config,     \* the platform account
    event,      \* events by address
    tier,       \* tiers by address
    staff,      \* staff authorisations by address: "None", "Active", "Revoked"
    ticket,     \* ticket records by address
    asset,      \* the asset of each ticket, by the ticket's address
    listing,    \* resale listings by address
    intent,     \* check-in intents by address
    balance,    \* lamports of each wallet, rent left out
    now         \* Clock::get()?.unix_timestamp

setupVars       == <<event, tier, staff>>
circulationVars == <<ticket, asset, listing, balance>>
vars == <<config, event, tier, staff, ticket, asset, listing, intent, balance, now>>

StateTypeOK ==
    /\ config \in PlatformConfig \cup {None}
    /\ event \in [EventKey -> EventRecord \cup {None}]
    /\ tier \in [TierKey -> TierRecord \cup {None}]
    /\ staff \in [StaffKey -> {"None", "Active", "Revoked"}]
    /\ ticket \in [TicketKey -> TicketRecord \cup {None}]
    /\ asset \in [TicketKey -> AssetRecord \cup {None}]
    /\ listing \in [ListingKey -> ListingRecord \cup {None}]
    /\ intent \in [IntentKey -> CheckInIntent \cup {None}]
    /\ balance \in [Wallet -> Nat]
    /\ now \in Nat

---------------------------------------------------------------------------
(* Guards shared by the handlers *)

PlatformActive == config # None /\ ~config.paused

(* Mutant: tickets circulate until the event is closed. *)
TransferOpenAnyTime(e) == event[e].status = "Published"

TransferOpen(e) ==
    /\ event[e].status = "Published"
    /\ now < event[e].details.check_in_start_at

CheckInOpen(e) ==
    /\ event[e].status = "Published"
    /\ event[e].details.check_in_start_at <= now
    /\ now <= event[e].details.check_in_end_at

ActiveTicket(t) == ticket[t].used_at = None /\ ticket[t].status = "Active"

(* Mutant: circulation ignores a pending check-in intent or a listing. *)
TransferableTicketUnchecked(t) == ticket[t].used_at = None

TransferableTicket(t) == ActiveTicket(t) /\ ticket[t].active_intent = None

(* The accounts of a context that takes an event and a ticket of it. *)
TicketOfEvent(t, e) ==
    /\ event[e] # None
    /\ ticket[t] # None
    /\ ticket[t].event = e

---------------------------------------------------------------------------
(* Lamports: what a System Program transfer leaves in the wallets *)

TransferLamports(wallets, payer, recipient, amount) ==
    IF amount = 0 \/ payer = recipient THEN wallets
    ELSE [wallets EXCEPT ![payer] = @ - amount, ![recipient] = @ + amount]

---------------------------------------------------------------------------
(* Assets *)

SupportedStandard(standard) == standard \in {"Managed", "MplCore"}

VerifyManagedAsset(t) ==
    /\ ticket[t].asset_standard = "Managed"
    /\ asset[t] # None
    /\ asset[t].standard = "Managed"
    /\ asset[t].owner = ticket[t].owner

VerifyCoreAsset(t, expected_owner) ==
    /\ ticket[t].asset_standard = "MplCore"
    /\ asset[t] # None
    /\ asset[t].standard = "MplCore"
    /\ asset[t].owner = expected_owner

ManagedAsset(owner) ==
    [standard |-> "Managed", owner |-> owner, frozen |-> FALSE, delegated |-> FALSE]

(* create_core_asset: the asset is born frozen and without a delegate. *)
CoreAsset(owner) ==
    [standard |-> "MplCore", owner |-> owner, frozen |-> TRUE, delegated |-> FALSE]

SetFrozen(a, frozen) == [a EXCEPT !.frozen = frozen]

(* TransferV1 by the owner: MPL Core refuses it while the asset is frozen, *)
(* and a transfer revokes the TransferDelegate.                            *)
CoreTransferByOwnerOk(a, signer) == ~a.frozen /\ a.owner = signer
CoreTransferByDelegateOk(a) == ~a.frozen /\ a.delegated
CoreTransfer(a, new_owner) == [a EXCEPT !.owner = new_owner, !.delegated = FALSE]

(* AddPluginV1 and RemovePluginV1 of the TransferDelegate.  MPL Core keeps *)
(* one plugin of a type and refuses a second.                              *)
AddTransferDelegateOk(a, signer) == a.owner = signer /\ ~a.delegated
AddTransferDelegate(a) == [a EXCEPT !.delegated = TRUE]
RemoveTransferDelegateOk(a, signer) == a.owner = signer /\ a.delegated /\ ~a.frozen
RemoveTransferDelegate(a) == [a EXCEPT !.delegated = FALSE]

(* Mutant: the counter of transfers may overflow. *)
TransferTicketOwnerUncounted(r, new_owner) == r.owner # new_owner

(* transfer_ticket_owner: refuses the same owner, counts the transfer. *)
TransferTicketOwnerOk(r, new_owner) ==
    r.owner # new_owner /\ r.transfer_count + 1 <= MaxTransfers
TransferTicketOwner(r, new_owner) ==
    [r EXCEPT !.owner = new_owner, !.transfer_count = @ + 1]

---------------------------------------------------------------------------
(* What the other handlers write in a ticket record *)

IssuedTicket(e, tr, standard, buyer, price) ==
    [event |-> e, tier |-> tr, asset_standard |-> standard, owner |-> buyer,
     original_price_lamports |-> price, status |-> "Active", transfer_count |-> 0,
     used_at |-> None, used_by |-> None,
     next_listing_id |-> 0, next_intent_nonce |-> 0, active_intent |-> None]
ListedTicket(r) == [r EXCEPT !.status = "Listed", !.next_listing_id = @ + 1]
UnlistedTicket(r) == [r EXCEPT !.status = "Active"]
PresentedTicket(r, i) == [r EXCEPT !.next_intent_nonce = @ + 1, !.active_intent = i]
RetractedTicket(r) == [r EXCEPT !.active_intent = None]
AdmittedTicket(r, signer, time) ==
    [r EXCEPT !.status = "Used", !.used_at = time, !.used_by = signer,
              !.active_intent = None]
===============================
