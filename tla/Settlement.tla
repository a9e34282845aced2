----------------------------- MODULE Settlement -----------------------------
(***************************************************************************)
(* What the finance service promises about tuition payments, with nothing  *)
(* about sessions, locks, pollers or providers.  A payment attempt (an     *)
(* intent) is opened on an invoice that has no live attempt, and then      *)
(* either is declined or settles; settling is one indivisible step that    *)
(* posts the payment to the ledger and makes the attempt the one that paid *)
(* the invoice.  Outcomes are final.                                       *)
(***************************************************************************)
EXTENDS Naturals

CONSTANTS Invoices,   \* the invoices
          Intents,    \* identifiers of payment attempts
          None

VARIABLES state,      \* per attempt: "none", "PENDING", "SUCCEEDED", "FAILED"
          invoiceOf,  \* per attempt: the invoice it pays, None before it exists
          posted,     \* per attempt: number of balanced ledger postings made
          paidBy      \* per invoice: the attempt named by its receipt, or None

vars == <<state, invoiceOf, posted, paidBy>>

Init ==
    /\ state = [p \in Intents |-> "none"]
    /\ invoiceOf = [p \in Intents |-> None]
    /\ posted = [p \in Intents |-> 0]
    /\ paidBy = [i \in Invoices |-> None]

\* The attempts that keep an invoice from being attempted again.
Live(i) == {p \in Intents : invoiceOf[p] = i /\ state[p] \in {"PENDING", "SUCCEEDED"}}

Open(p, i) ==
    /\ state[p] = "none"
    /\ Live(i) = {}
    /\ state' = [state EXCEPT ![p] = "PENDING"]
    /\ invoiceOf' = [invoiceOf EXCEPT ![p] = i]
    /\ UNCHANGED <<posted, paidBy>>

Decline(p) ==
    /\ state[p] = "PENDING"
    /\ state' = [state EXCEPT ![p] = "FAILED"]
    /\ UNCHANGED <<invoiceOf, posted, paidBy>>

Settle(p) ==
    /\ state[p] = "PENDING"
    /\ paidBy[invoiceOf[p]] = None
    /\ state' = [state EXCEPT ![p] = "SUCCEEDED"]
    /\ posted' = [posted EXCEPT ![p] = @ + 1]
    /\ paidBy' = [paidBy EXCEPT ![invoiceOf[p]] = p]
    /\ UNCHANGED invoiceOf

Next == \E p \in Intents :
            \/ \E i \in Invoices : Open(p, i)
            \/ Decline(p)
            \/ Settle(p)

Spec == Init /\ [][Next]_vars
=============================================================================
