-------------------------- MODULE MCTransactions --------------------------
(* Small instances of Transactions for TLC. *)
EXTENDS Transactions

Sent30 == <<3, 0>>
Empty03 == <<0, 3>>
=============================================================================
