------------------------------ MODULE MCLogFiles ------------------------------
(* Two directories with a log of the same name.                             *)
EXTENDS LogFiles

MCHolds == [d \in Dir |-> <<"server.log">>]
=============================================================================
