---- MODULE MCWeb ----
(***************************************************************************)
(* Values for the constants of WebApp.                                     *)
(***************************************************************************)
EXTENDS WebApp

(* Sales from 0 to 1; check-in from 2 to 4. *)
MCDetails ==
    [sales_start_at |-> 0, sales_end_at |-> 1, starts_at |-> 3, ends_at |-> 4,
     check_in_start_at |-> 2, check_in_end_at |-> 4, max_resale_markup_bps |-> 5,
     organizer_royalty_bps |-> 3, resale_enabled |-> TRUE]

MCDetailsInputs == {MCDetails}
====
