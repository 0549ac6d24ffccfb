--------------------------- MODULE MCGuestOutput ---------------------------
(* Instances of GuestOutput for TLC. *)
EXTENDS GuestOutput

MCPrefix == <<"ESC", "]", ";">>
MCSteps == <<[expect |-> <<"a", "]", "]">>, reply |-> "login"],
             [expect |-> <<";", "a">>, reply |-> "password"]>>
=============================================================================
