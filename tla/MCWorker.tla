------------------------------ MODULE MCWorker ------------------------------
(* Instances of Worker for TLC. *)
EXTENDS Worker, TLC

CONSTANTS c1, c2

TwoClients == {c1, c2}
=============================================================================
