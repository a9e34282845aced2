------------------------------ MODULE Payments ------------------------------
(***************************************************************************)
(* Tuition payments of the finance service: payment intents, the provider  *)
(* gateway, reconciliation, the ledger posting and the receipt             *)
(* (services/finance/app: routers/payments.py, reconciliation.py,          *)
(* payment_worker.py, ledger.py, payments/).                               *)
(*                                                                         *)
(* An actor is the payment worker or one HTTP request in flight.  Each has *)
(* a program counter and one database session; an action is one            *)
(* transaction step, provider call or commit.  A row lock (SELECT ... FOR  *)
(* UPDATE) is held exactly while the holder's pc is in Holding, because    *)
(* every way out of those steps ends the transaction.                      *)
(*                                                                         *)
(* The session's identity map matters: SQLAlchemy does not overwrite the   *)
(* attributes of an object the session already holds, so a session that    *)
(* loaded the row before it took the lock goes on with what it read then.  *)
(***************************************************************************)
EXTENDS Naturals

CONSTANTS Invoices,   \* invoices, all PENDING at first
          Intents,    \* identifiers of payment intents, each used once
          Requests,   \* HTTP requests that may be in flight at the same time
          Worker,     \* the payment worker's reconciliation loop
          Gateways,   \* the providers a deployment may be configured with
          MaxFaults,  \* bound: crashes, cancellations and lost connections
          None

Actors == Requests \cup {Worker}
IntentStatus == {"PENDING", "SUCCEEDED", "FAILED"}
InvoiceStatus == {"PENDING", "PAID"}
Providers == {"test_double", "mtn_momo", "camerpay"}

\* unsent: the provider was never called; sent: the call is on the network;
\* lost: it never arrives; then the provider's own view of the payment.
ProviderState == {"unsent", "sent", "lost", "PENDING", "SUCCESSFUL", "FAILED"}
Known == {"PENDING", "SUCCESSFUL", "FAILED"}

\* The steps during which an actor holds the row lock of its intent.
Holding == {"ask", "fail", "settle", "commit"}
Steps == {"idle", "insert", "call", "invoice", "backfill", "tick", "lock"} \cup Holding

ASSUME ActorsAssumption == Worker \notin Requests
ASSUME NoneAssumption == None \notin Intents \cup Invoices
ASSUME GatewaysAssumption == Gateways \subseteq Providers
ASSUME FaultsAssumption == MaxFaults \in Nat

VARIABLES
    status,    \* payment_intents.status, "none" before the row exists
    owner,     \* payment_intents.invoice_id, None before the row exists
    txn,       \* payment_intents.provider_transaction_id IS NOT NULL
    invoice,   \* invoices.status
    posted,    \* ledger: balanced postings written for the intent
    receipt,   \* receipts: the intent of the invoice's receipt, None if none
    prov,      \* what became of the payment outside the ERP
    pc, cur,   \* per actor: next step, the intent it works on
    target,    \* per request: the invoice create_payment_intent works on
    seen,      \* per actor: intent.status as its session holds it
    seenInv,   \* per actor: invoice.status as its session holds it
    batch,     \* the worker's pending_ids not yet handled in this tick
    faults,
    provider   \* settings.camerpay_provider of the deployment

database == <<status, owner, txn, invoice, posted, receipt>>
sessions == <<cur, target, seen, seenInv>>
vars == <<database, prov, pc, sessions, batch, faults, provider>>

TypeOK ==
    /\ status \in [Intents -> IntentStatus \cup {"none"}]
    /\ owner \in [Intents -> Invoices \cup {None}]
    /\ txn \in [Intents -> BOOLEAN]
    /\ invoice \in [Invoices -> InvoiceStatus]
    /\ posted \in [Intents -> Nat]
    /\ receipt \in [Invoices -> Intents \cup {None}]
    /\ prov \in [Intents -> ProviderState]
    /\ pc \in [Actors -> Steps]
    /\ cur \in [Actors -> Intents \cup {None}]
    /\ target \in [Requests -> Invoices \cup {None}]
    /\ seen \in [Actors -> IntentStatus \cup {"unread"}]
    /\ seenInv \in [Actors -> InvoiceStatus \cup {"unread"}]
    /\ batch \subseteq Intents
    /\ faults \in 0..MaxFaults
    /\ provider \in Gateways

Init ==
    /\ status = [p \in Intents |-> "none"]
    /\ owner = [p \in Intents |-> None]
    /\ txn = [p \in Intents |-> FALSE]
    /\ invoice = [i \in Invoices |-> "PENDING"]
    /\ posted = [p \in Intents |-> 0]
    /\ receipt = [i \in Invoices |-> None]
    /\ prov = [p \in Intents |-> "unsent"]
    /\ pc = [a \in Actors |-> "idle"]
    /\ cur = [a \in Actors |-> None]
    /\ target = [r \in Requests |-> None]
    /\ seen = [a \in Actors |-> "unread"]
    /\ seenInv = [a \in Actors |-> "unread"]
    /\ batch = {}
    /\ faults = 0
    /\ provider \in Gateways

-----------------------------------------------------------------------------
(* Helpers *)

\* The rows uq_payment_intents_active_per_invoice counts for invoice i.
Active(i) == {p \in Intents : owner[p] = i /\ status[p] \in {"PENDING", "SUCCEEDED"}}

IntentLocked(p) == \E a \in Actors : cur[a] = p /\ pc[a] \in Holding
InvoiceLocked(i) == \E a \in Actors : pc[a] = "commit" /\ owner[cur[a]] = i

Goto(a, step) == pc' = [pc EXCEPT ![a] = step]

\* The session is closed: locks are released, what it had loaded is gone.
CloseSession(a) ==
    /\ cur' = [cur EXCEPT ![a] = None]
    /\ seen' = [seen EXCEPT ![a] = "unread"]
    /\ seenInv' = [seenInv EXCEPT ![a] = "unread"]

\* reconcile_intent returns: the worker goes on with its tick, a request ends.
Return(a) ==
    /\ Goto(a, IF a = Worker THEN "tick" ELSE "idle")
    /\ CloseSession(a)
    /\ UNCHANGED <<target, batch>>

\* An exception leaves the handler and the transaction is rolled back.  It ends
\* a request, and it ends the worker's tick for the remaining ids too.
Raise(a) ==
    /\ Goto(a, "idle")
    /\ CloseSession(a)
    /\ target' = [r \in Requests |-> IF r = a THEN None ELSE target[r]]
    /\ batch' = IF a = Worker THEN {} ELSE batch

-----------------------------------------------------------------------------
(* POST /invoices/{id}/payment-intents *)

CreateLoad(r, i) ==
    /\ pc[r] = "idle"
    /\ invoice[i] = "PENDING"
    /\ Goto(r, "insert")
    /\ target' = [target EXCEPT ![r] = i]
    /\ UNCHANGED <<database, prov, cur, seen, seenInv, batch, faults, provider>>

\* Variant: the insert without the partial unique index.
CreateInsertUnindexed(r, p) ==
    /\ pc[r] = "insert"
    /\ status[p] = "none"
    /\ ~InvoiceLocked(target[r])
    /\ status' = [status EXCEPT ![p] = "PENDING"]
    /\ owner' = [owner EXCEPT ![p] = target[r]]
    /\ \E answer \in (IF provider = "test_double" THEN {"PENDING", "FAILED"} ELSE {"unsent"}) :
            prov' = [prov EXCEPT ![p] = answer]
    /\ cur' = [cur EXCEPT ![r] = p]
    /\ target' = [target EXCEPT ![r] = None]
    /\ Goto(r, "call")
    /\ UNCHANGED <<txn, invoice, posted, receipt, seen, seenInv, batch, faults, provider>>

\* Insert and commit of the intent row, before any provider call.  The foreign
\* key waits for a FOR UPDATE lock on the invoice.  For the test double what the
\* provider will answer is fixed by the payer's number from this moment on.
CreateInsert(r, p) ==
    /\ pc[r] = "insert"
    /\ status[p] = "none"
    /\ ~InvoiceLocked(target[r])
    /\ Active(target[r]) = {}
    /\ status' = [status EXCEPT ![p] = "PENDING"]
    /\ owner' = [owner EXCEPT ![p] = target[r]]
    /\ \E answer \in (IF provider = "test_double" THEN {"PENDING", "FAILED"} ELSE {"unsent"}) :
            prov' = [prov EXCEPT ![p] = answer]
    /\ cur' = [cur EXCEPT ![r] = p]
    /\ target' = [target EXCEPT ![r] = None]
    /\ Goto(r, "call")
    /\ UNCHANGED <<txn, invoice, posted, receipt, seen, seenInv, batch, faults, provider>>

\* The partial unique index refuses the row: 409.
CreateConflict(r) ==
    /\ pc[r] = "insert"
    /\ Active(target[r]) # {}
    /\ Raise(r)
    /\ UNCHANGED <<database, prov, faults, provider>>

\* request_to_pay, and the end of the request whatever comes of it.  What a
\* hosted provider returns is never stored: the commit that ended the first
\* transaction ended its SET LOCAL tenant context as well, so the second UPDATE
\* matches no row and fails, inside the try.
RequestToPay(r) ==
    /\ pc[r] = "call"
    /\ prov' = [prov EXCEPT ![cur[r]] = IF provider = "test_double" THEN @ ELSE "sent"]
    /\ Return(r)
    /\ UNCHANGED <<database, faults, provider>>

-----------------------------------------------------------------------------
(* The provider and the network to it, seen through the adapters *)

RequestArrives(p) ==
    /\ prov[p] = "sent"
    /\ prov' = [prov EXCEPT ![p] = "PENDING"]
    /\ UNCHANGED <<database, pc, sessions, batch, faults, provider>>

RequestIsLost(p) ==
    /\ prov[p] = "sent"
    /\ prov' = [prov EXCEPT ![p] = "lost"]
    /\ UNCHANGED <<database, pc, sessions, batch, faults, provider>>

\* The payer approves; for the test double, SETTLEMENT_DELAY has elapsed.
ProviderSettles(p) ==
    /\ prov[p] = "PENDING"
    /\ prov' = [prov EXCEPT ![p] = "SUCCESSFUL"]
    /\ UNCHANGED <<database, pc, sessions, batch, faults, provider>>

ProviderDeclines(p) ==
    /\ provider # "test_double"
    /\ prov[p] = "PENDING"
    /\ prov' = [prov EXCEPT ![p] = "FAILED"]
    /\ UNCHANGED <<database, pc, sessions, batch, faults, provider>>

\* Variant: no early return for PENDING, whatever is not FAILED settles.
AnswerEager(p) == IF prov[p] = "FAILED" THEN "FAILED" ELSE "SUCCESSFUL"

\* gateway.get_status as reconcile_intent calls it: without a
\* provider_transaction_id, for which the camerpay adapter answers PENDING.
Answer(p) == IF provider = "camerpay" THEN "PENDING" ELSE prov[p]

-----------------------------------------------------------------------------
(* How a session gets to reconcile_intent *)

\* GET /payment-intents/{id}: loads the intent, then its invoice, and only
\* reconciles an intent it saw PENDING.
GetIntent(r, p) ==
    /\ pc[r] = "idle"
    /\ status[p] = "PENDING"
    /\ cur' = [cur EXCEPT ![r] = p]
    /\ seen' = [seen EXCEPT ![r] = "PENDING"]
    /\ Goto(r, "invoice")
    /\ UNCHANGED <<database, prov, target, seenInv, batch, faults, provider>>

GetInvoice(r) ==
    /\ pc[r] = "invoice"
    /\ seenInv' = [seenInv EXCEPT ![r] = invoice[owner[cur[r]]]]
    /\ Goto(r, "lock")
    /\ UNCHANGED <<database, prov, cur, target, seen, batch, faults, provider>>

\* POST /payments/callback: the body only names an intent, which is loaded by
\* its reference in the session that then reconciles it.
Callback(r, p) ==
    /\ pc[r] = "idle"
    /\ status[p] # "none"
    /\ cur' = [cur EXCEPT ![r] = p]
    /\ seen' = [seen EXCEPT ![r] = status[p]]
    /\ Goto(r, "lock")
    /\ UNCHANGED <<database, prov, target, seenInv, batch, faults, provider>>

\* POST /payments/callback/camerpay, signed by the provider: the same, after the
\* provider's transaction id has been stored if it was missing.
Webhook(r, p) ==
    /\ provider = "camerpay"
    /\ pc[r] = "idle"
    /\ status[p] # "none"
    /\ prov[p] \in Known
    /\ cur' = [cur EXCEPT ![r] = p]
    /\ seen' = [seen EXCEPT ![r] = status[p]]
    /\ Goto(r, IF txn[p] THEN "lock" ELSE "backfill")
    /\ UNCHANGED <<database, prov, target, seenInv, batch, faults, provider>>

WebhookBackfill(r) ==
    /\ pc[r] = "backfill"
    /\ ~IntentLocked(cur[r])
    /\ txn' = [txn EXCEPT ![cur[r]] = TRUE]
    /\ Goto(r, "lock")
    /\ UNCHANGED <<status, owner, invoice, posted, receipt, prov, sessions, batch, faults, provider>>

\* Variant: the poller only takes intents whose provider transaction is known.
WorkerTickKnownOnly ==
    /\ pc[Worker] = "idle"
    /\ batch' = {p \in Intents : status[p] = "PENDING" /\ txn[p]}
    /\ Goto(Worker, "tick")
    /\ UNCHANGED <<database, prov, sessions, faults, provider>>

\* reconcile_pending_intents: one query for the ids, then a session for each id,
\* in no order the query states.
WorkerTick ==
    /\ pc[Worker] = "idle"
    /\ batch' = {p \in Intents : status[p] = "PENDING"}
    /\ Goto(Worker, "tick")
    /\ UNCHANGED <<database, prov, sessions, faults, provider>>

WorkerNext(p) ==
    /\ pc[Worker] = "tick"
    /\ p \in batch
    /\ batch' = batch \ {p}
    /\ cur' = [cur EXCEPT ![Worker] = p]
    /\ Goto(Worker, "lock")
    /\ UNCHANGED <<database, prov, target, seen, seenInv, faults, provider>>

WorkerSleep ==
    /\ pc[Worker] = "tick"
    /\ batch = {}
    /\ Goto(Worker, "idle")
    /\ UNCHANGED <<database, prov, sessions, batch, faults, provider>>

-----------------------------------------------------------------------------
(* reconcile_intent *)

\* SELECT ... FOR UPDATE: waits for the row lock.  A session that had the intent
\* in its identity map keeps the status it read before the wait.
StatusAtLock(a) == IF seen[a] = "unread" THEN status[cur[a]] ELSE seen[a]

LockPending(a) ==
    /\ pc[a] = "lock"
    /\ ~IntentLocked(cur[a])
    /\ StatusAtLock(a) = "PENDING"
    /\ seen' = [seen EXCEPT ![a] = "PENDING"]
    /\ Goto(a, "ask")
    /\ UNCHANGED <<database, prov, cur, target, seenInv, batch, faults, provider>>

LockResolved(a) ==
    /\ pc[a] = "lock"
    /\ ~IntentLocked(cur[a])
    /\ StatusAtLock(a) # "PENDING"
    /\ Return(a)
    /\ UNCHANGED <<database, prov, faults, provider>>

\* The provider is asked while the row lock is held.
AskPending(a) ==
    /\ pc[a] = "ask"
    /\ Answer(cur[a]) = "PENDING"
    /\ Return(a)
    /\ UNCHANGED <<database, prov, faults, provider>>

AskFailed(a) ==
    /\ pc[a] = "ask"
    /\ Answer(cur[a]) = "FAILED"
    /\ Goto(a, "fail")
    /\ UNCHANGED <<database, prov, sessions, batch, faults, provider>>

AskSuccessful(a) ==
    /\ pc[a] = "ask"
    /\ Answer(cur[a]) = "SUCCESSFUL"
    /\ Goto(a, "settle")
    /\ UNCHANGED <<database, prov, sessions, batch, faults, provider>>

\* Variant: a reference the provider does not know counts as a failed payment.
AskUnknownFails(a) ==
    /\ pc[a] = "ask"
    /\ provider = "mtn_momo"
    /\ prov[cur[a]] \notin Known
    /\ Goto(a, "fail")
    /\ UNCHANGED <<database, prov, sessions, batch, faults, provider>>

\* MTN answers 404 for a reference that never reached it: raise_for_status.
AskUnknown(a) ==
    /\ pc[a] = "ask"
    /\ provider = "mtn_momo"
    /\ prov[cur[a]] \notin Known
    /\ Raise(a)
    /\ UNCHANGED <<database, prov, faults, provider>>

RecordFailed(a) ==
    /\ pc[a] = "fail"
    /\ status' = [status EXCEPT ![cur[a]] = "FAILED"]
    /\ Return(a)
    /\ UNCHANGED <<owner, txn, invoice, posted, receipt, prov, faults, provider>>

\* The invoice's row lock; again the status the session already held prevails.
LockInvoice(a) ==
    /\ pc[a] = "settle"
    /\ ~InvoiceLocked(owner[cur[a]])
    /\ seenInv' = [seenInv EXCEPT ![a] = IF @ = "unread" THEN invoice[owner[cur[a]]] ELSE @]
    /\ Goto(a, "commit")
    /\ UNCHANGED <<database, prov, cur, target, seen, batch, faults, provider>>

\* Variant: no unique constraint on receipts.invoice_id.
ReceiptNeverRefused(a) == FALSE

\* The constraints the final flush is subject to: uq_receipts_invoice if a
\* receipt is inserted, the partial unique index for the intent's new status.
ReceiptRefused(a) == seenInv[a] # "PAID" /\ receipt[owner[cur[a]]] # None
IndexRefused(a) == Active(owner[cur[a]]) \ {cur[a]} # {}

CommitSettlement(a) ==
    LET p == cur[a]
        i == owner[p]
    IN /\ pc[a] = "commit"
       /\ seenInv[a] # "PAID"
       /\ ~ReceiptRefused(a) /\ ~IndexRefused(a)
       /\ status' = [status EXCEPT ![p] = "SUCCEEDED"]
       /\ invoice' = [invoice EXCEPT ![i] = "PAID"]
       /\ posted' = [posted EXCEPT ![p] = @ + 1]
       /\ receipt' = [receipt EXCEPT ![i] = p]
       /\ Return(a)
       /\ UNCHANGED <<owner, txn, prov, faults, provider>>

\* The session holds a PAID invoice: only the intent is written.
CommitAlreadyPaid(a) ==
    /\ pc[a] = "commit"
    /\ seenInv[a] = "PAID"
    /\ ~IndexRefused(a)
    /\ status' = [status EXCEPT ![cur[a]] = "SUCCEEDED"]
    /\ Return(a)
    /\ UNCHANGED <<owner, txn, invoice, posted, receipt, prov, faults, provider>>

\* IntegrityError: everything is rolled back.
CommitRefused(a) ==
    /\ pc[a] = "commit"
    /\ ReceiptRefused(a) \/ IndexRefused(a)
    /\ Raise(a)
    /\ UNCHANGED <<database, prov, faults, provider>>

\* A process dies, a request is cancelled, the database connection is lost or the
\* provider's HTTP call fails in transit: the open transaction is rolled back.
Crash(a) ==
    /\ pc[a] # "idle"
    /\ faults < MaxFaults
    /\ faults' = faults + 1
    /\ Raise(a)
    /\ UNCHANGED <<database, prov, provider>>

-----------------------------------------------------------------------------
Create(r) ==
    \/ \E i \in Invoices : CreateLoad(r, i)
    \/ \E p \in Intents : CreateInsert(r, p)
    \/ CreateConflict(r)
    \/ RequestToPay(r)

Enter(r) ==
    \/ \E p \in Intents : GetIntent(r, p) \/ Callback(r, p) \/ Webhook(r, p)
    \/ GetInvoice(r)
    \/ WebhookBackfill(r)

WorkerLoop == WorkerTick \/ WorkerSleep \/ \E p \in Intents : WorkerNext(p)

ProviderStep(p) ==
    RequestArrives(p) \/ RequestIsLost(p) \/ ProviderSettles(p) \/ ProviderDeclines(p)

Lock(a) == LockPending(a) \/ LockResolved(a)

Reconcile(a) ==
    \/ AskPending(a) \/ AskFailed(a) \/ AskSuccessful(a) \/ AskUnknown(a)
    \/ RecordFailed(a)
    \/ LockInvoice(a)
    \/ CommitSettlement(a) \/ CommitAlreadyPaid(a) \/ CommitRefused(a)

Next ==
    \/ \E r \in Requests : Create(r) \/ Enter(r)
    \/ WorkerLoop
    \/ \E p \in Intents : ProviderStep(p)
    \/ \E a \in Actors : Lock(a) \/ Reconcile(a) \/ Crash(a)

Spec == Init /\ [][Next]_vars

\* The worker's loop never ends and a request in flight goes on (httpx gives up
\* after 15 s), so their own steps are weakly fair; PostgreSQL grants a row lock
\* in the order of the waiters, which is strong fairness; a payment the provider
\* has is settled or declined some day.  No request ever has to be made, and the
\* order in which a tick takes its ids is not promised to anyone.
Fairness ==
    /\ WF_vars(WorkerLoop)
    /\ \A a \in Actors : SF_vars(Lock(a)) /\ WF_vars(Reconcile(a))
    /\ \A r \in Requests : WF_vars(GetInvoice(r) \/ RequestToPay(r))
    /\ \A r \in Requests : SF_vars(WebhookBackfill(r))
    /\ \A p \in Intents : WF_vars(ProviderStep(p))

FairSpec == Spec /\ Fairness

-----------------------------------------------------------------------------
(* Properties *)

\* The three records of a payment agree at every commit: an intent is SUCCEEDED
\* exactly when its payment is on the ledger, it is posted once, and it is the
\* intent on its invoice's receipt; an invoice is PAID exactly when it has a
\* receipt.  At risk from every session that settles on a status it read before
\* it had the row lock.
SettledOnce(p) ==
    /\ posted[p] = IF status[p] = "SUCCEEDED" THEN 1 ELSE 0
    /\ status[p] = "SUCCEEDED" => receipt[owner[p]] = p

PaidByReceipt(i) ==
    /\ invoice[i] = "PAID" <=> receipt[i] # None
    /\ receipt[i] # None => status[receipt[i]] = "SUCCEEDED" /\ owner[receipt[i]] = i

LedgerAgrees == (\A p \in Intents : SettledOnce(p)) /\ (\A i \in Invoices : PaidByReceipt(i))

\* A student is never charged twice for one invoice: the provider settles at most
\* one of the payments requested for it, however attempts are retried.
NoDoubleCharge ==
    \A p, q \in Intents :
        prov[p] = "SUCCESSFUL" /\ prov[q] = "SUCCESSFUL" /\ owner[p] = owner[q] => p = q

\* What the ERP records is what the provider decided: a callback, a timeout or
\* an error never turns into an outcome.
OutcomeIsProviders ==
    \A p \in Intents :
        /\ status[p] = "SUCCEEDED" => prov[p] = "SUCCESSFUL"
        /\ status[p] = "FAILED" => prov[p] = "FAILED"

\* The ledger, as committed, behaves like the abstract Settlement.
Ideal == INSTANCE Settlement WITH state <- status, invoiceOf <- owner, paidBy <- receipt
IdealSettlement == Ideal!Spec

\* Every attempt is resolved in the end.
AttemptsResolve == \A p \in Intents : status[p] = "PENDING" ~> status[p] # "PENDING"

\* What the comment in create_payment_intent says of the worker's poll loop: it
\* keeps trying, so that a payment the provider has taken is recorded.
TakenPaymentIsRecorded ==
    \A p \in Intents : prov[p] = "SUCCESSFUL" ~> status[p] = "SUCCEEDED"

\* What the gateway protocol says of camerpay: once the transaction id is stored
\* from a verified webhook, the payment's real status can be looked up.
BackfilledPaymentIsRecorded ==
    \A p \in Intents : (txn[p] /\ prov[p] = "SUCCESSFUL") ~> status[p] = "SUCCEEDED"
=============================================================================
