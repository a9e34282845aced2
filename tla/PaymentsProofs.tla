--------------------------- MODULE PaymentsProofs ---------------------------
(***************************************************************************)
(* Proofs about Payments, for any number of invoices, intents, requests    *)
(* and faults, and for each of the three providers.                        *)
(***************************************************************************)
EXTENDS Payments, TLAPS

-----------------------------------------------------------------------------
(* The inductive invariant *)

\* At most one intent of an invoice is PENDING or SUCCEEDED.
OneActive ==
    \A p, q \in Intents :
        /\ status[p] \in {"PENDING", "SUCCEEDED"}
        /\ status[q] \in {"PENDING", "SUCCEEDED"}
        /\ owner[p] = owner[q]
        => p = q

\* An intent row names an invoice, and nothing happens to a payment before its
\* intent exists.
RowsExist ==
    \A p \in Intents :
        /\ status[p] # "none" => owner[p] \in Invoices
        /\ prov[p] # "unsent" => status[p] # "none"

\* What a session may rely on where it stands.
SessionOK(a) ==
    /\ pc[a] = "insert" => a \in Requests /\ target[a] \in Invoices
    /\ pc[a] \in {"call", "invoice", "backfill", "lock"} \cup Holding =>
            cur[a] \in Intents /\ status[cur[a]] # "none"
    /\ pc[a] = "call" => provider = "test_double" \/ prov[cur[a]] = "unsent"
    /\ pc[a] = "fail" => prov[cur[a]] = "FAILED"
    /\ pc[a] \in {"settle", "commit"} => prov[cur[a]] = "SUCCESSFUL"
    /\ pc[a] = "commit" => seenInv[a] # "unread"
    /\ pc[a] \in {"idle", "tick", "insert"} => seenInv[a] = "unread"
    /\ seenInv[a] = "PAID" =>
            cur[a] \in Intents /\ owner[cur[a]] \in Invoices /\ invoice[owner[cur[a]]] = "PAID"

\* An intent is handed to the provider by the request that inserted it only.
OneCaller ==
    \A a, b \in Actors : pc[a] = "call" /\ pc[b] = "call" /\ cur[a] = cur[b] => a = b

\* The worker only picks up ids of rows.
BatchOK == \A p \in batch : status[p] # "none"

Sessions == (\A a \in Actors : SessionOK(a)) /\ OneCaller /\ BatchOK
Records == LedgerAgrees /\ OutcomeIsProviders /\ OneActive /\ RowsExist

IInv == TypeOK /\ Records /\ Sessions

USE DEF Records, Sessions

USE DEF Actors, IntentStatus, InvoiceStatus, ProviderState, Known, Holding, Steps

LEMMA InitIInv == Init => IInv
  BY ActorsAssumption, NoneAssumption, FaultsAssumption
  DEF Init, IInv, TypeOK, LedgerAgrees, SettledOnce, PaidByReceipt, OutcomeIsProviders,
      OneActive, RowsExist, SessionOK, OneCaller, BatchOK

\* Types, for every step.
LEMMA TypeStep == IInv /\ [Next]_vars => TypeOK'
<1> SUFFICES ASSUME IInv, [Next]_vars PROVE TypeOK'
    OBVIOUS
<1> USE FaultsAssumption, ActorsAssumption
<1>0. TypeOK /\ \A a \in Actors : SessionOK(a)
    BY DEF IInv
<1>1. ASSUME NEW r \in Requests, Create(r) PROVE TypeOK'
  <2>1. ASSUME NEW i \in Invoices, CreateLoad(r, i) PROVE TypeOK'
    BY <1>0, <2>1 DEF TypeOK, CreateLoad, database, Goto
  <2>2. ASSUME NEW p \in Intents, CreateInsert(r, p) PROVE TypeOK'
    <3>1. target[r] \in Invoices
      BY <1>0, <2>2 DEF SessionOK, CreateInsert
    <3>2. PICK answer \in ProviderState : prov' = [prov EXCEPT ![p] = answer]
      BY <2>2 DEF CreateInsert
    <3> QED
      BY <1>0, <2>2, <3>1, <3>2 DEF TypeOK, CreateInsert, Goto
  <2>3. CASE CreateConflict(r)
    BY <1>0, <2>3 DEF TypeOK, CreateConflict, database, Goto, Raise, CloseSession
  <2>4. CASE RequestToPay(r)
    BY <1>0, <2>4 DEF TypeOK, RequestToPay, database, Goto, Return, CloseSession
  <2> QED
    BY <1>1, <2>1, <2>2, <2>3, <2>4 DEF Create
<1>2. ASSUME NEW r \in Requests, Enter(r) PROVE TypeOK'
  <2>1. ASSUME NEW p \in Intents, GetIntent(r, p) \/ Callback(r, p) \/ Webhook(r, p) PROVE TypeOK'
    BY <1>0, <2>1 DEF TypeOK, GetIntent, Callback, Webhook, database, Goto
  <2>2. CASE GetInvoice(r)
    <3>1. cur[r] \in Intents /\ owner[cur[r]] \in Invoices
      BY <1>0, <2>2 DEF SessionOK, RowsExist, IInv, GetInvoice
    <3> QED
      BY <1>0, <2>2, <3>1 DEF TypeOK, GetInvoice, database, Goto
  <2>3. CASE WebhookBackfill(r)
    BY <1>0, <2>3 DEF TypeOK, WebhookBackfill, sessions, Goto
  <2> QED
    BY <1>2, <2>1, <2>2, <2>3 DEF Enter
<1>3. CASE WorkerLoop
    BY <1>0, <1>3 DEF TypeOK, WorkerLoop, WorkerTick, WorkerNext, WorkerSleep, database, sessions, Goto
<1>4. ASSUME NEW p \in Intents, ProviderStep(p) PROVE TypeOK'
    BY <1>0, <1>4 DEF TypeOK, ProviderStep, RequestArrives, RequestIsLost, ProviderSettles,
       ProviderDeclines, database, sessions
<1>5. ASSUME NEW a \in Actors, Lock(a) PROVE TypeOK'
    BY <1>0, <1>5 DEF TypeOK, Lock, LockPending, LockResolved, database, sessions, Goto, Return, CloseSession
<1>6. ASSUME NEW a \in Actors, Reconcile(a) PROVE TypeOK'
    BY <1>0, <1>6 DEF TypeOK, SessionOK, RowsExist, IInv, Reconcile, AskPending, AskFailed, AskSuccessful,
       AskUnknown, RecordFailed, LockInvoice, CommitSettlement, CommitAlreadyPaid, CommitRefused,
       database, sessions, Goto, Return, Raise, CloseSession
<1>7. ASSUME NEW a \in Actors, Crash(a) PROVE TypeOK'
    BY <1>0, <1>7 DEF TypeOK, Crash, database, Goto, Raise, CloseSession
<1>8. CASE UNCHANGED vars
    BY <1>0, <1>8 DEF TypeOK, vars, database, sessions
<1> QED
    BY <1>1, <1>2, <1>3, <1>4, <1>5, <1>6, <1>7, <1>8 DEF Next

-----------------------------------------------------------------------------
(* Preservation.  The steps that write an intent's outcome have a lemma each.  *)
(* None of the arguments mentions a row lock: what keeps the records straight   *)
(* is the two unique constraints and that the provider's outcomes are final.    *)

\* A new row: it was no payment of any invoice, and its invoice had no live one.
LEMMA CreateInsertStep ==
  ASSUME IInv, TypeOK', NEW r \in Requests, NEW p \in Intents, CreateInsert(r, p)
  PROVE  IInv'
<1>1. target[r] \in Invoices /\ owner' = [owner EXCEPT ![p] = target[r]]
  BY DEF IInv, SessionOK, CreateInsert, Actors
<1>2. PICK answer \in {"unsent", "PENDING", "FAILED"} :
        /\ prov' = [prov EXCEPT ![p] = answer]
        /\ provider = "test_double" \/ answer = "unsent"
  BY DEF CreateInsert
<1>3. \A q \in Intents : status[q] \in {"PENDING", "SUCCEEDED"} => owner[q] # target[r]
  BY DEF CreateInsert, Active
<1>4. LedgerAgrees'
  BY <1>1, NoneAssumption DEF IInv, TypeOK, LedgerAgrees, SettledOnce, PaidByReceipt, CreateInsert
<1>5. OutcomeIsProviders'
  BY <1>2 DEF IInv, TypeOK, OutcomeIsProviders, RowsExist, CreateInsert
<1>6. OneActive'
  BY <1>1, <1>3 DEF IInv, TypeOK, OneActive, CreateInsert
<1>7. RowsExist'
  BY <1>1, <1>2 DEF IInv, TypeOK, RowsExist, CreateInsert
<1>8. Sessions'
  BY <1>1, <1>2 DEF IInv, TypeOK, RowsExist, SessionOK, OneCaller, BatchOK, CreateInsert, Goto
<1> QED
  BY <1>4, <1>5, <1>6, <1>7, <1>8 DEF IInv

\* A failed attempt was never settled, so no receipt names it.
LEMMA RecordFailedStep ==
  ASSUME IInv, TypeOK', NEW a \in Actors, RecordFailed(a)
  PROVE  IInv'
<1>1. cur[a] \in Intents /\ prov[cur[a]] = "FAILED" /\ status[cur[a]] # "SUCCEEDED"
  BY DEF IInv, SessionOK, OutcomeIsProviders, RecordFailed
<1>2. LedgerAgrees'
  BY <1>1, NoneAssumption DEF IInv, TypeOK, LedgerAgrees, SettledOnce, PaidByReceipt, RecordFailed
<1>3. OutcomeIsProviders' /\ OneActive' /\ RowsExist'
  BY <1>1 DEF IInv, TypeOK, OutcomeIsProviders, OneActive, RowsExist, RecordFailed, SessionOK
<1>4. Sessions'
  BY <1>1 DEF IInv, TypeOK, SessionOK, OneCaller, BatchOK, RecordFailed, Return, CloseSession, Goto
<1> QED
  BY <1>2, <1>3, <1>4 DEF IInv

\* The settlement: without a receipt the invoice is unpaid and the intent, which
\* the provider has settled, is still PENDING, whatever the session read before.
LEMMA CommitSettlementStep ==
  ASSUME IInv, TypeOK', NEW a \in Actors, CommitSettlement(a)
  PROVE  IInv'
<1> DEFINE p == cur[a]
           i == owner[p]
<1>1. /\ p \in Intents /\ i \in Invoices
      /\ prov[p] = "SUCCESSFUL" /\ receipt[i] = None
  BY DEF IInv, SessionOK, RowsExist, CommitSettlement, ReceiptRefused
<1>2. status[p] = "PENDING" /\ posted[p] = 0
  BY <1>1, NoneAssumption DEF IInv, TypeOK, SessionOK, LedgerAgrees, SettledOnce,
     OutcomeIsProviders, CommitSettlement
<1>3. LedgerAgrees'
  BY <1>1, <1>2, NoneAssumption
  DEF IInv, TypeOK, LedgerAgrees, SettledOnce, PaidByReceipt, CommitSettlement
<1>4. OutcomeIsProviders' /\ OneActive' /\ RowsExist'
  BY <1>1, <1>2 DEF IInv, TypeOK, OutcomeIsProviders, OneActive, RowsExist, CommitSettlement
<1>5. Sessions'
  BY <1>1, <1>2 DEF IInv, TypeOK, SessionOK, OneCaller, BatchOK, CommitSettlement, Return, CloseSession, Goto
<1> QED
  BY <1>3, <1>4, <1>5 DEF IInv

\* An invoice held as PAID was paid by this very intent: the one on its receipt is
\* live, and so is the session's intent, since the provider did not decline it.
LEMMA AlreadyPaidIsSucceeded ==
  ASSUME IInv, NEW a \in Actors, CommitAlreadyPaid(a)
  PROVE  cur[a] \in Intents /\ status[cur[a]] = "SUCCEEDED"
<1> DEFINE p == cur[a]
           q == receipt[owner[p]]
<1>1. p \in Intents /\ status[p] \in {"PENDING", "SUCCEEDED"}
  BY DEF IInv, TypeOK, SessionOK, OutcomeIsProviders, CommitAlreadyPaid
<1>2. owner[p] \in Invoices /\ invoice[owner[p]] = "PAID"
  BY DEF IInv, SessionOK, CommitAlreadyPaid
<1>3. q \in Intents /\ status[q] = "SUCCEEDED" /\ owner[q] = owner[p]
  BY <1>2 DEF IInv, TypeOK, LedgerAgrees, PaidByReceipt
<1>4. p = q
  BY <1>1, <1>3 DEF IInv, OneActive
<1> QED
  BY <1>1, <1>3, <1>4

LEMMA CommitAlreadyPaidStep ==
  ASSUME IInv, TypeOK', NEW a \in Actors, CommitAlreadyPaid(a)
  PROVE  IInv'
<1>1. status' = status
  <2>1. status' = [status EXCEPT ![cur[a]] = status[cur[a]]]
    BY AlreadyPaidIsSucceeded DEF CommitAlreadyPaid
  <2> QED
    BY <2>1 DEF IInv, TypeOK
<1>2. Records'
  BY <1>1 DEF IInv, LedgerAgrees, SettledOnce, PaidByReceipt, OutcomeIsProviders, OneActive,
     RowsExist, CommitAlreadyPaid
<1>3. Sessions'
  BY <1>1 DEF IInv, TypeOK, SessionOK, OneCaller, BatchOK, CommitAlreadyPaid, Return, CloseSession, Goto
<1> QED
  BY <1>2, <1>3 DEF IInv

\* The steps that write no outcome.
QuietRequest(r) ==
    \/ \E i \in Invoices : CreateLoad(r, i)
    \/ CreateConflict(r)
    \/ \E p \in Intents : GetIntent(r, p) \/ Callback(r, p) \/ Webhook(r, p)
    \/ GetInvoice(r) \/ WebhookBackfill(r)

QuietReconcile(a) ==
    \/ Lock(a)
    \/ AskPending(a) \/ AskFailed(a) \/ AskSuccessful(a) \/ AskUnknown(a)
    \/ LockInvoice(a) \/ CommitRefused(a) \/ Crash(a)

Quiet ==
    \/ \E r \in Requests : QuietRequest(r)
    \/ WorkerLoop
    \/ \E a \in Actors : QuietReconcile(a)

LEMMA QuietRecords ==
  ASSUME IInv, Quiet
  PROVE  Records'
<1>1. UNCHANGED <<status, owner, invoice, posted, receipt, prov>>
  BY DEF Quiet, QuietRequest, CreateLoad, CreateConflict, GetIntent, Callback, Webhook, GetInvoice,
     WebhookBackfill, WorkerLoop, WorkerTick, WorkerNext, WorkerSleep, QuietReconcile, Lock, LockPending,
     LockResolved, AskPending, AskFailed, AskSuccessful, AskUnknown, LockInvoice, CommitRefused, Crash, database
<1> QED
  BY <1>1 DEF IInv, LedgerAgrees, SettledOnce, PaidByReceipt, OutcomeIsProviders, OneActive, RowsExist

\* A request that is about to create, load or lock.
LEMMA QuietRequestSessions ==
  ASSUME IInv, TypeOK', NEW r \in Requests, QuietRequest(r)
  PROVE  Sessions'
<1> USE ActorsAssumption, NoneAssumption
<1> USE DEF IInv, TypeOK, LedgerAgrees, PaidByReceipt, RowsExist, SessionOK, OneCaller, BatchOK
<1>1. ASSUME NEW i \in Invoices, CreateLoad(r, i) PROVE Sessions'
  BY <1>1 DEF CreateLoad, database, Goto
<1>2. CASE CreateConflict(r)
  BY <1>2 DEF CreateConflict, database, Goto, Raise, CloseSession
<1>3. ASSUME NEW p \in Intents, GetIntent(r, p) PROVE Sessions'
  BY <1>3 DEF GetIntent, database, Goto
<1>4. ASSUME NEW p \in Intents, Callback(r, p) PROVE Sessions'
  BY <1>4 DEF Callback, database, Goto
<1>5. ASSUME NEW p \in Intents, Webhook(r, p) PROVE Sessions'
  BY <1>5 DEF Webhook, database, Goto
<1>6. CASE GetInvoice(r)
  BY <1>6 DEF GetInvoice, database, Goto
<1>7. CASE WebhookBackfill(r)
  BY <1>7 DEF WebhookBackfill, sessions, Goto
<1> QED
  BY <1>1, <1>2, <1>3, <1>4, <1>5, <1>6, <1>7 DEF QuietRequest

\* The worker's tick.
LEMMA WorkerSessions ==
  ASSUME IInv, TypeOK', WorkerLoop
  PROVE  Sessions'
<1> USE ActorsAssumption, NoneAssumption
<1> USE DEF IInv, TypeOK, LedgerAgrees, PaidByReceipt, RowsExist, SessionOK, OneCaller, BatchOK
<1>1. CASE WorkerTick
  BY <1>1 DEF WorkerTick, database, sessions, Goto
<1>2. ASSUME NEW p \in Intents, WorkerNext(p) PROVE Sessions'
  BY <1>2 DEF WorkerNext, database, Goto
<1>3. CASE WorkerSleep
  BY <1>3 DEF WorkerSleep, database, sessions, Goto
<1> QED
  BY <1>1, <1>2, <1>3 DEF WorkerLoop

\* reconcile_intent up to its commit, and the ways it ends without one.
LEMMA QuietReconcileSessions ==
  ASSUME IInv, TypeOK', NEW a \in Actors, QuietReconcile(a)
  PROVE  Sessions'
<1> USE ActorsAssumption, NoneAssumption
<1> USE DEF IInv, TypeOK, LedgerAgrees, PaidByReceipt, RowsExist, SessionOK, OneCaller, BatchOK
<1>1. CASE LockPending(a)
  BY <1>1 DEF LockPending, StatusAtLock, database, Goto
<1>2. CASE LockResolved(a)
  BY <1>2 DEF LockResolved, database, Goto, Return, CloseSession
<1>3. CASE AskPending(a)
  BY <1>3 DEF AskPending, database, Goto, Return, CloseSession
<1>4. CASE AskFailed(a)
  BY <1>4 DEF AskFailed, Answer, database, sessions, Goto
<1>5. CASE AskSuccessful(a)
  BY <1>5 DEF AskSuccessful, Answer, database, sessions, Goto
<1>6. CASE AskUnknown(a)
  BY <1>6 DEF AskUnknown, database, Goto, Raise, CloseSession
<1>7. CASE LockInvoice(a)
  BY <1>7 DEF LockInvoice, database, Goto
<1>8. CASE CommitRefused(a)
  BY <1>8 DEF CommitRefused, database, Goto, Raise, CloseSession
<1>9. CASE Crash(a)
  BY <1>9 DEF Crash, database, Goto, Raise, CloseSession
<1> QED
  BY <1>1, <1>2, <1>3, <1>4, <1>5, <1>6, <1>7, <1>8, <1>9 DEF QuietReconcile, Lock

\* The provider decides about payments it has, once for each.
LEMMA ProviderIInv ==
  ASSUME IInv, TypeOK', NEW p \in Intents, ProviderStep(p)
  PROVE  IInv'
<1>1. UNCHANGED <<database, pc, sessions, batch, provider>>
  BY DEF ProviderStep, RequestArrives, RequestIsLost, ProviderSettles, ProviderDeclines
<1>2. /\ prov[p] \in {"sent", "PENDING"}
      /\ \E answer \in ProviderState \ {"unsent"} : prov' = [prov EXCEPT ![p] = answer]
  BY DEF ProviderStep, RequestArrives, RequestIsLost, ProviderSettles, ProviderDeclines
<1> QED
  BY <1>1, <1>2 DEF IInv, TypeOK, LedgerAgrees, SettledOnce, PaidByReceipt, OutcomeIsProviders, OneActive,
     RowsExist, SessionOK, OneCaller, BatchOK, database, sessions

LEMMA NextIInv == IInv /\ [Next]_vars => IInv'
<1> SUFFICES ASSUME IInv, [Next]_vars PROVE IInv'
  OBVIOUS
<1>1. TypeOK'
  BY TypeStep
<1>2. CASE Quiet
  BY <1>1, <1>2, QuietRecords, QuietRequestSessions, WorkerSessions, QuietReconcileSessions DEF Quiet, IInv
<1>3. ASSUME NEW r \in Requests, RequestToPay(r) PROVE IInv'
  BY <1>1, <1>3, ActorsAssumption, NoneAssumption
  DEF IInv, TypeOK, LedgerAgrees, SettledOnce, PaidByReceipt, OutcomeIsProviders, OneActive, RowsExist,
      SessionOK, OneCaller, BatchOK, RequestToPay, database, Goto, Return, CloseSession
<1>4. CASE UNCHANGED vars
  BY <1>1, <1>4 DEF IInv, LedgerAgrees, SettledOnce, PaidByReceipt, OutcomeIsProviders, OneActive, RowsExist,
     SessionOK, OneCaller, BatchOK, vars, database, sessions
<1> QED
  BY <1>1, <1>2, <1>3, <1>4, CreateInsertStep, RecordFailedStep, CommitSettlementStep,
     CommitAlreadyPaidStep, ProviderIInv
  DEF Next, Create, Enter, Reconcile, Quiet, QuietRequest, QuietReconcile

-----------------------------------------------------------------------------
(* The theorems *)

LEMMA Invariance == Spec => []IInv
<1>1. Init => IInv
  BY InitIInv
<1>2. IInv /\ [Next]_vars => IInv'
  BY NextIInv
<1> QED
  BY <1>1, <1>2, PTL DEF Spec

\* Every variable keeps its type.
THEOREM TypeCorrect == Spec => []TypeOK
  BY Invariance, PTL DEF IInv

\* Whatever sessions, pollers, callbacks and crashes do, an intent is SUCCEEDED
\* exactly when it is posted once, and it then is the receipt of its PAID invoice.
THEOREM LedgerAlwaysAgrees == Spec => []LedgerAgrees
  BY Invariance, PTL DEF IInv

\* The ERP records no outcome the provider has not decided.
THEOREM OutcomesAreTheProviders == Spec => []OutcomeIsProviders
  BY Invariance, PTL DEF IInv

\* No invoice is charged twice: two payments the provider settled for one invoice
\* would both be live intents of it.
THEOREM NeverChargedTwice == Spec => []NoDoubleCharge
<1>1. IInv => NoDoubleCharge
  BY DEF IInv, TypeOK, OneActive, OutcomeIsProviders, RowsExist, NoDoubleCharge
<1> QED
  BY <1>1, Invariance, PTL

-----------------------------------------------------------------------------
(* Payments implements Settlement *)

\* Inserting the intent opens an attempt: no row of the invoice is live.
LEMMA InsertOpens ==
  ASSUME IInv, NEW r \in Requests, NEW p \in Intents, CreateInsert(r, p)
  PROVE  Ideal!Next
<1>1. PICK i \in Invoices : target[r] = i
  BY DEF IInv, SessionOK, CreateInsert
<1>2. Ideal!Open(p, i)
  BY <1>1 DEF CreateInsert, Active, Ideal!Open, Ideal!Live
<1> QED
  BY <1>1, <1>2 DEF Ideal!Next

\* A failed attempt is declined, or was recorded as failed before.
LEMMA FailedDeclines ==
  ASSUME IInv, NEW a \in Actors, RecordFailed(a)
  PROVE  Ideal!Next \/ UNCHANGED Ideal!vars
<1>1. PICK p \in Intents : p = cur[a] /\ prov[p] = "FAILED" /\ status[p] # "none"
  BY DEF IInv, SessionOK, RecordFailed
<1>2. status[p] \in {"PENDING", "FAILED"}
  BY <1>1 DEF IInv, TypeOK, OutcomeIsProviders
<1>3. status' = [status EXCEPT ![p] = "FAILED"] /\ UNCHANGED <<owner, posted, receipt>>
  BY <1>1 DEF RecordFailed
<1>4. CASE status[p] = "PENDING"
  BY <1>3, <1>4 DEF Ideal!Next, Ideal!Decline
<1>5. CASE status[p] = "FAILED"
  BY <1>3, <1>5 DEF IInv, TypeOK, Ideal!vars
<1> QED
  BY <1>2, <1>4, <1>5

\* The final commit settles a pending attempt of an invoice without a receipt.
LEMMA SettlementSettles ==
  ASSUME IInv, NEW a \in Actors, CommitSettlement(a)
  PROVE  Ideal!Next
<1>1. PICK p \in Intents : p = cur[a] /\ prov[p] = "SUCCESSFUL" /\ receipt[owner[p]] = None /\ status[p] # "none"
  BY DEF IInv, SessionOK, RowsExist, CommitSettlement, ReceiptRefused
<1>2. status[p] = "PENDING"
  BY <1>1, NoneAssumption DEF IInv, TypeOK, LedgerAgrees, SettledOnce, OutcomeIsProviders
<1>3. Ideal!Settle(p)
  BY <1>1, <1>2 DEF CommitSettlement, Ideal!Settle
<1> QED
  BY <1>3 DEF Ideal!Next

\* All other steps are invisible to Settlement; the one that writes SUCCEEDED for
\* an invoice held as PAID writes what is there.
LEMMA OtherStepsStutter ==
  ASSUME IInv, [Next]_vars,
         ~ \E r \in Requests, p \in Intents : CreateInsert(r, p),
         ~ \E a \in Actors : RecordFailed(a) \/ CommitSettlement(a)
  PROVE  UNCHANGED <<status, owner, posted, receipt>>
<1>1. ASSUME NEW a \in Actors, CommitAlreadyPaid(a) PROVE UNCHANGED <<status, owner, posted, receipt>>
  <2>1. status' = [status EXCEPT ![cur[a]] = status[cur[a]]]
    BY <1>1, AlreadyPaidIsSucceeded DEF CommitAlreadyPaid
  <2> QED
    BY <1>1, <2>1 DEF IInv, TypeOK, CommitAlreadyPaid
<1>2. CASE Quiet
  BY <1>2 DEF Quiet, QuietRequest, CreateLoad, CreateConflict, GetIntent, Callback, Webhook, GetInvoice,
     WebhookBackfill, WorkerLoop, WorkerTick, WorkerNext, WorkerSleep, QuietReconcile, Lock, LockPending,
     LockResolved, AskPending, AskFailed, AskSuccessful, AskUnknown, LockInvoice, CommitRefused, Crash, database
<1>3. ASSUME NEW r \in Requests, RequestToPay(r) PROVE UNCHANGED <<status, owner, posted, receipt>>
  BY <1>3 DEF RequestToPay, database
<1>4. ASSUME NEW p \in Intents, ProviderStep(p) PROVE UNCHANGED <<status, owner, posted, receipt>>
  BY <1>4 DEF ProviderStep, RequestArrives, RequestIsLost, ProviderSettles, ProviderDeclines, database
<1>5. CASE UNCHANGED vars
  BY <1>5 DEF vars, database
<1> QED
  BY <1>1, <1>2, <1>3, <1>4, <1>5 DEF Next, Create, Enter, Reconcile, Quiet, QuietRequest, QuietReconcile

\* Sessions, locks, pollers, callbacks and crashes together are Settlement: one
\* live attempt for an invoice, settled in one step, once, and for good.
THEOREM PaymentsImplementSettlement == Spec => IdealSettlement
<1>1. Init => Ideal!Init
  BY DEF Init, Ideal!Init
<1>2. IInv /\ [Next]_vars => [Ideal!Next]_(Ideal!vars)
  <2> SUFFICES ASSUME IInv, [Next]_vars PROVE Ideal!Next \/ UNCHANGED Ideal!vars
    OBVIOUS
  <2>1. UNCHANGED <<status, owner, posted, receipt>> => UNCHANGED Ideal!vars
    BY DEF Ideal!vars
  <2> QED
    BY <2>1, InsertOpens, FailedDeclines, SettlementSettles, OtherStepsStutter
<1> QED
  BY <1>1, <1>2, Invariance, PTL DEF Spec, IdealSettlement, Ideal!Spec
=============================================================================
