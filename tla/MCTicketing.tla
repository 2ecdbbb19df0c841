---- MODULE MCTicketing ----
(***************************************************************************)
(* Values for the constants of Ticketing.                                  *)
(***************************************************************************)
EXTENDS Ticketing, TLC

(* Sales from 0 to 2; check-in from 2 to 4; the event ends at 4. *)
MCDetails(royalty, markup) ==
    [sales_start_at |-> 0, sales_end_at |-> 2, starts_at |-> 3, ends_at |-> 4,
     check_in_start_at |-> 2, check_in_end_at |-> 4,
     max_resale_markup_bps |-> markup, organizer_royalty_bps |-> royalty,
     resale_enabled |-> TRUE]

OneDetails == {MCDetails(3, 5)}


HolderSymmetry == Permutations(Holder)
=====================
