----------------------------- MODULE MCPayments -----------------------------
(* Instances of Payments for TLC. *)
EXTENDS Payments, TLC

\* Requests are interchangeable, and so are intents and invoices; used by the
\* runs that check invariants only.
Symmetry == Permutations(Requests) \cup Permutations(Intents) \cup Permutations(Invoices)
=============================================================================
