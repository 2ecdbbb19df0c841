---- MODULE PlatformEvent ----
(***************************************************************************)
(* Platform configuration, the life of an event, its tiers and its staff.  *)
(***************************************************************************)
EXTENDS TicketingState

(* The accounts of InitializePlatform: `init` at a fixed address, signed   *)
(* by the program's upgrade authority.                                     *)
InitializePlatform(signer, treasury, fee_bps, standard) ==
    /\ config = None
    /\ signer = UpgradeAuthority
    /\ ValidBps(fee_bps)
    /\ SupportedStandard(standard)
    /\ config' = [admin |-> signer, treasury |-> treasury,
                  asset_standard |-> standard, platform_fee_bps |-> fee_bps,
                  paused |-> FALSE]
    /\ UNCHANGED <<setupVars, circulationVars, intent, now>>

UpdatePlatformAccounts(signer) == config # None /\ config.admin = signer

UpdatePlatform(signer, treasury, fee_bps, paused) ==
    /\ UpdatePlatformAccounts(signer)
    /\ ValidBps(fee_bps)
    /\ config' = [config EXCEPT !.treasury = treasury,
                                !.platform_fee_bps = fee_bps,
                                !.paused = paused]
    /\ UNCHANGED <<setupVars, circulationVars, intent, now>>

SetAssetStandard(signer, standard) ==
    /\ UpdatePlatformAccounts(signer)
    /\ SupportedStandard(standard)
    /\ config' = [config EXCEPT !.asset_standard = standard]
    /\ UNCHANGED <<setupVars, circulationVars, intent, now>>

---------------------------------------------------------------------------
(* Events *)

CreateEvent(signer, event_id, details) ==
    LET e == <<signer, event_id>> IN
    /\ PlatformActive
    /\ event[e] = None
    /\ ValidEventDetails(details, config.platform_fee_bps)
    /\ event' = [event EXCEPT ![e] =
                    [organizer |-> signer,
                     platform_treasury |-> config.treasury,
                     platform_fee_bps |-> config.platform_fee_bps,
                     details |-> details,
                     status |-> "Draft",
                     next_tier_id |-> 0,
                     next_ticket_id |-> 0]]
    /\ UNCHANGED <<config, tier, staff, circulationVars, intent, now>>

ManageEventAccounts(signer, e) == event[e] # None /\ event[e].organizer = signer

(* Mutant: terms may still be edited once the event is published. *)
UpdateEventAnyStatus(signer, e, details) ==
    /\ PlatformActive
    /\ ManageEventAccounts(signer, e)
    /\ ValidEventDetails(details, config.platform_fee_bps)
    /\ event' = [event EXCEPT ![e].details = details]
    /\ UNCHANGED <<config, tier, staff, circulationVars, intent, now>>

(* The fee of the event is not taken again from the platform here. *)
UpdateEvent(signer, e, details) ==
    /\ PlatformActive
    /\ ManageEventAccounts(signer, e)
    /\ event[e].status = "Draft"
    /\ ValidEventDetails(details, config.platform_fee_bps)
    /\ event' = [event EXCEPT ![e].details = details]
    /\ UNCHANGED <<config, tier, staff, circulationVars, intent, now>>

PublishGuard(signer, e) ==
    /\ PlatformActive
    /\ ManageEventAccounts(signer, e)
    /\ event[e].status = "Draft"
    /\ event[e].next_tier_id > 0
    /\ now < event[e].details.sales_end_at

PublishEffect(e) ==
    /\ event' = [event EXCEPT ![e] =
                    [@ EXCEPT !.platform_treasury = config.treasury,
                              !.platform_fee_bps = config.platform_fee_bps,
                              !.status = "Published"]]
    /\ UNCHANGED <<config, tier, staff, circulationVars, intent, now>>

(* Mutant: the fees validated at creation are trusted at publication. *)
PublishEventUnvalidated(signer, e) == PublishGuard(signer, e) /\ PublishEffect(e)

PublishEvent(signer, e) ==
    /\ PublishGuard(signer, e)
    /\ ValidFeeConfiguration(config.platform_fee_bps,
                             event[e].details.organizer_royalty_bps)
    /\ PublishEffect(e)

CancelEvent(signer, e) ==
    /\ PlatformActive
    /\ ManageEventAccounts(signer, e)
    /\ event[e].status \in {"Draft", "Published"}
    /\ CancellationAllowed(event[e].status, event[e].next_ticket_id)
    /\ event' = [event EXCEPT ![e].status = "Cancelled"]
    /\ UNCHANGED <<config, tier, staff, circulationVars, intent, now>>

(* Mutant: closing is refused while the platform is paused. *)
CloseEventUnlessPaused(signer, e) ==
    /\ PlatformActive
    /\ ManageEventAccounts(signer, e)
    /\ event[e].status = "Published"
    /\ now >= event[e].details.ends_at
    /\ event' = [event EXCEPT ![e].status = "Closed"]
    /\ UNCHANGED <<config, tier, staff, circulationVars, intent, now>>

(* Closing does not ask whether the platform is paused. *)
CloseEvent(signer, e) ==
    /\ ManageEventAccounts(signer, e)
    /\ event[e].status = "Published"
    /\ now >= event[e].details.ends_at
    /\ event' = [event EXCEPT ![e].status = "Closed"]
    /\ UNCHANGED <<config, tier, staff, circulationVars, intent, now>>

---------------------------------------------------------------------------
(* Tiers *)

(* Mutant: a tier may still be added after publication. *)
AddTierGuardAnyStatus(signer, e, tier_id, supply) ==
    /\ PlatformActive
    /\ ManageEventAccounts(signer, e)
    /\ tier_id = event[e].next_tier_id
    /\ event[e].next_tier_id + 1 <= MaxTierId
    /\ tier[<<e, tier_id>>] = None
    /\ ValidTier(supply)

AddTierGuard(signer, e, tier_id, supply) ==
    /\ PlatformActive
    /\ ManageEventAccounts(signer, e)
    /\ event[e].status = "Draft"
    /\ tier_id = event[e].next_tier_id
    /\ event[e].next_tier_id + 1 <= MaxTierId
    /\ tier[<<e, tier_id>>] = None
    /\ ValidTier(supply)

AddTier(signer, e, tier_id, price, supply) ==
    /\ AddTierGuard(signer, e, tier_id, supply)
    /\ tier' = [tier EXCEPT ![<<e, tier_id>>] =
                    [event |-> e, price_lamports |-> price, supply |-> supply,
                     sold |-> 0, active |-> TRUE]]
    /\ event' = [event EXCEPT ![e].next_tier_id = @ + 1]
    /\ UNCHANGED <<config, staff, circulationVars, intent, now>>

(* Mutant: tiers may be edited after publication. *)
UpdateTierAnyStatus(signer, e, tr, price, supply, active) ==
    /\ PlatformActive
    /\ ManageEventAccounts(signer, e)
    /\ tier[tr] # None
    /\ tier[tr].event = e
    /\ ValidTier(supply)
    /\ supply >= tier[tr].sold
    /\ tier' = [tier EXCEPT ![tr] =
                    [@ EXCEPT !.price_lamports = price, !.supply = supply,
                              !.active = active]]
    /\ UNCHANGED <<config, event, staff, circulationVars, intent, now>>

UpdateTier(signer, e, tr, price, supply, active) ==
    /\ PlatformActive
    /\ ManageEventAccounts(signer, e)
    /\ tier[tr] # None
    /\ tier[tr].event = e
    /\ event[e].status = "Draft"
    /\ ValidTier(supply)
    /\ supply >= tier[tr].sold
    /\ tier' = [tier EXCEPT ![tr] =
                    [@ EXCEPT !.price_lamports = price, !.supply = supply,
                              !.active = active]]
    /\ UNCHANGED <<config, event, staff, circulationVars, intent, now>>

---------------------------------------------------------------------------
(* Staff *)

AuthorizeGuard(signer, e, w) ==
    /\ PlatformActive
    /\ ManageEventAccounts(signer, e)
    /\ event[e].status \in {"Draft", "Published"}
    /\ staff[<<e, w>>] # "Active"

AuthorizeStaff(signer, e, w) ==
    /\ AuthorizeGuard(signer, e, w)
    /\ staff' = [staff EXCEPT ![<<e, w>>] = "Active"]
    /\ UNCHANGED <<config, event, tier, circulationVars, intent, now>>

RevokeStaff(signer, e, w) ==
    /\ PlatformActive
    /\ ManageEventAccounts(signer, e)
    /\ staff[<<e, w>>] = "Active"
    /\ staff' = [staff EXCEPT ![<<e, w>>] = "Revoked"]
    /\ UNCHANGED <<config, event, tier, circulationVars, intent, now>>
===============================
