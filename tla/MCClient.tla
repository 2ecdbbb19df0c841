---- MODULE MCClient ----
(***************************************************************************)
(* The operations the pages run: each instruction on its own, and the      *)
(* transactions with which the page of a new event creates it.             *)
(***************************************************************************)
EXTENDS GeneratedClient

CONSTANTS w1, w2

CreateEventPage ==
    {<<"createEvent", "addTier">>,
     <<"createEvent", "addTier", "authorizeStaff">>,
     <<"createEvent", "addTier", "publishEvent">>,
     <<"createEvent", "addTier", "authorizeStaff", "publishEvent">>}

Operations == {<<name>> : name \in DOMAIN instructions} \cup CreateEventPage
=========================
