------------------------------- MODULE Billing -------------------------------
(***************************************************************************)
(* What the two services promise together about billing, with no outbox,   *)
(* broker or inbox: an accepted enrollment is billed at most once, and only *)
(* from a price that finance has configured.                               *)
(***************************************************************************)
EXTENDS Naturals

CONSTANTS Places,   \* a student in a program in a term
          Keys,     \* a program in a term: what a fee schedule prices
          KeyOf     \* the program and term of a place

VARIABLES accepted,  \* the places enrolled
          priced,    \* the keys with a fee schedule
          bills      \* per place: invoices issued for it

vars == <<accepted, priced, bills>>

Init ==
    /\ accepted = {}
    /\ priced = {}
    /\ bills = [s \in Places |-> 0]

Accept(s) ==
    /\ s \notin accepted
    /\ accepted' = accepted \cup {s}
    /\ UNCHANGED <<priced, bills>>

SetFee(k) ==
    /\ priced' = priced \cup {k}
    /\ UNCHANGED <<accepted, bills>>

Bill(s) ==
    /\ s \in accepted
    /\ KeyOf[s] \in priced
    /\ bills[s] = 0
    /\ bills' = [bills EXCEPT ![s] = 1]
    /\ UNCHANGED <<accepted, priced>>

Next == (\E s \in Places : Accept(s) \/ Bill(s)) \/ (\E k \in Keys : SetFee(k))

Spec == Init /\ [][Next]_vars
=============================================================================
