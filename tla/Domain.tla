---- MODULE Domain ----
(***************************************************************************)
(* The pure rules of the on-chain program: basis points, event windows,    *)
(* tiers, fee splits, the resale cap and the lifetime of a check-in        *)
(* intent.  A Rust function that returns Result<T> becomes two operators:  *)
(* the value it computes and a predicate, named ...Ok, that says the call  *)
(* returns Ok.  The width of u64 and the two program constants are         *)
(* parameters, so that TLC can scale them down and the proofs cover every  *)
(* value.                                                                  *)
(***************************************************************************)
EXTENDS Integers

CONSTANTS BpsDenominator,     \* BPS_DENOMINATOR, 10 000 in the program
          MaxU64,             \* the largest u64
          MaxIntentSeconds    \* MAX_CHECK_IN_INTENT_SECONDS, 300 in the program

ASSUME DomainAssumption ==
    /\ BpsDenominator \in Nat \ {0}
    /\ MaxU64 \in Nat
    /\ MaxIntentSeconds \in Nat \ {0}

(* EventDetails without its title and its metadata URI. *)
EventDetails ==
    [sales_start_at : Nat, sales_end_at : Nat,
     starts_at : Nat, ends_at : Nat,
     check_in_start_at : Nat, check_in_end_at : Nat,
     max_resale_markup_bps : Nat, organizer_royalty_bps : Nat,
     resale_enabled : BOOLEAN]

---------------------------------------------------------------------------
(* Validation *)

ValidBps(bps) == bps <= BpsDenominator

ValidFeeConfiguration(fee_bps, royalty_bps) ==
    /\ ValidBps(fee_bps)
    /\ ValidBps(royalty_bps)
    /\ fee_bps + royalty_bps <= BpsDenominator

ValidEventWindows(d) ==
    /\ d.sales_start_at < d.sales_end_at
    /\ d.sales_end_at <= d.starts_at
    /\ d.starts_at < d.ends_at
    /\ d.check_in_start_at <= d.starts_at
    /\ d.check_in_start_at < d.check_in_end_at
    /\ d.check_in_end_at <= d.ends_at

ValidEventDetails(d, fee_bps) ==
    /\ ValidEventWindows(d)
    /\ ValidBps(d.max_resale_markup_bps)
    /\ ValidFeeConfiguration(fee_bps, d.organizer_royalty_bps)

ValidTier(supply) == supply > 0

(* Mutant: an event may be cancelled whatever it has sold. *)
CancellationUnchecked(status, issued_tickets) == TRUE

CancellationAllowed(status, issued_tickets) ==
    status = "Draft" \/ issued_tickets = 0

ValidIntentExpiry(time, expires_at, check_in_end_at) ==
    /\ time < expires_at
    /\ expires_at <= time + MaxIntentSeconds
    /\ expires_at <= check_in_end_at

---------------------------------------------------------------------------
(* Amounts *)

(* checked_mul: the product is taken in u64 before the division. *)
FeeAmountOk(amount, bps) == amount * bps <= MaxU64

(* Mutant: a share is rounded up. *)
FeeAmountCeil(amount, bps) == (amount * bps + BpsDenominator - 1) \div BpsDenominator

FeeAmount(amount, bps) == (amount * bps) \div BpsDenominator

PrimarySplit(price, fee_bps) ==
    [platform |-> FeeAmount(price, fee_bps),
     organizer |-> price - FeeAmount(price, fee_bps)]

PrimarySplitOk(price, fee_bps) ==
    /\ ValidBps(fee_bps)
    /\ FeeAmountOk(price, fee_bps)
    /\ PrimarySplit(price, fee_bps).organizer >= 0

(* Mutant: treasury and organizer get each other's share. *)
ResaleSplitSwapped(price, fee_bps, royalty_bps) ==
    [platform |-> FeeAmount(price, royalty_bps),
     organizer |-> FeeAmount(price, fee_bps),
     seller |-> price - FeeAmount(price, fee_bps) - FeeAmount(price, royalty_bps)]

ResaleSplit(price, fee_bps, royalty_bps) ==
    [platform |-> FeeAmount(price, fee_bps),
     organizer |-> FeeAmount(price, royalty_bps),
     seller |-> price - FeeAmount(price, fee_bps) - FeeAmount(price, royalty_bps)]

ResaleSplitOk(price, fee_bps, royalty_bps) ==
    /\ ValidFeeConfiguration(fee_bps, royalty_bps)
    /\ FeeAmountOk(price, fee_bps)
    /\ FeeAmountOk(price, royalty_bps)
    /\ ResaleSplit(price, fee_bps, royalty_bps).seller >= 0

MaxResalePrice(original_price, markup_bps) ==
    original_price + FeeAmount(original_price, markup_bps)

MaxResalePriceOk(original_price, markup_bps) ==
    /\ ValidBps(markup_bps)
    /\ FeeAmountOk(original_price, markup_bps)
    /\ MaxResalePrice(original_price, markup_bps) <= MaxU64
=======================
