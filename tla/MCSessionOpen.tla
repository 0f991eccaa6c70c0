--------------------------- MODULE MCSessionOpen ---------------------------
(* A small instance of SessionOpen: every mechanism.                       *)
EXTENDS SessionOpen

AllMechanisms == DOMAIN Sasl \cup {"None", "Login", "Other"}
=============================================================================
