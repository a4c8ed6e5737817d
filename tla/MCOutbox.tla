------------------------------ MODULE MCOutbox ------------------------------
(* Small instances of Outbox for TLC: one obligation, its durable            *)
(* destination and two routes.                                               *)
EXTENDS Outbox
=============================================================================
