---- MODULE MCSeason ----
(***************************************************************************)
(* A season of two events: one of prom has sold a ticket to ana, who has   *)
(* presented it and walked away, and org, a member of its staff, is about  *)
(* to create an event of his own.                                          *)
(***************************************************************************)
EXTENDS Ticketing, TLC

CONSTANTS org, prom, ana

Details(sales, start, royalty, markup) ==
    [sales_start_at |-> sales, sales_end_at |-> sales + 1,
     starts_at |-> start, ends_at |-> 5,
     check_in_start_at |-> sales + 1, check_in_end_at |-> 5,
     max_resale_markup_bps |-> markup, organizer_royalty_bps |-> royalty,
     resale_enabled |-> TRUE]

SeasonDetails == {Details(2, 4, 3, 5), Details(2, 4, 6, 0)}

First == <<prom, 0>>
FirstTier == <<First, 0>>
FirstTicket == <<First, 0>>
FirstIntent == <<FirstTicket, 0>>

Only(key, keys, value, none) == [k \in keys |-> IF k = key THEN value ELSE none]

(* What the program has written when prom's event, its tier and its staff  *)
(* were created and published at 0, ana bought at 0 and presented at 2.    *)
SeasonInit ==
    /\ now = 2
    /\ config = [admin |-> UpgradeAuthority, treasury |-> UpgradeAuthority,
                 asset_standard |-> "Managed", platform_fee_bps |-> 1, paused |-> FALSE]
    /\ event = Only(First, EventKey,
                    [organizer |-> prom, platform_treasury |-> UpgradeAuthority,
                     platform_fee_bps |-> 1, details |-> Details(0, 2, 3, 5),
                     status |-> "Published", next_tier_id |-> 1, next_ticket_id |-> 1],
                    None)
    /\ tier = Only(FirstTier, TierKey,
                   [event |-> First, price_lamports |-> 5, supply |-> 2, sold |-> 1,
                    active |-> TRUE], None)
    /\ staff = Only(<<First, org>>, StaffKey, "Active", "None")
    /\ ticket = Only(FirstTicket, TicketKey,
                     [event |-> First, tier |-> FirstTier, asset_standard |-> "Managed",
                      owner |-> ana, original_price_lamports |-> 5, status |-> "Active",
                      transfer_count |-> 0, used_at |-> None, used_by |-> None,
                      next_listing_id |-> 0, next_intent_nonce |-> 1,
                      active_intent |-> FirstIntent], None)
    /\ asset = Only(FirstTicket, TicketKey,
                    [standard |-> "Managed", owner |-> ana, frozen |-> FALSE,
                     delegated |-> FALSE], None)
    /\ listing = [l \in ListingKey |-> None]
    /\ intent = Only(FirstIntent, IntentKey,
                     [ticket |-> FirstTicket, event |-> First, holder |-> ana,
                      expires_at |-> 4, status |-> "Pending", consumed_at |-> None,
                      staff |-> None], None)
    /\ balance = [[w \in Wallet |-> InitialLamports] EXCEPT ![ana] = @ - 5, ![prom] = @ + 5]

SeasonSpec == SeasonInit /\ [][Next]_vars /\ Fairness
=========================
