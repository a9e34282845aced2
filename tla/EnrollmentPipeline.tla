------------------------- MODULE EnrollmentPipeline -------------------------
(***************************************************************************)
(* From an accepted enrollment to its invoice: the academic service and    *)
(* its transactional outbox, the outbox publisher, RabbitMQ, and the       *)
(* finance consumer with its inbox (services/academic/app/routers/         *)
(* academic.py and worker.py, services/finance/app/consumer.py).           *)
(*                                                                         *)
(* An enrollment and its outbox event are written in one commit, so one    *)
(* identifier stands for both.  The broker is at-least-once and keeps no   *)
(* order: a delivery that is not acknowledged is delivered again.  A       *)
(* message is on the queue, in the hands of a handler, or dead-lettered.   *)
(***************************************************************************)
EXTENDS Naturals, FiniteSets

CONSTANTS Places,         \* a student in a program in a term
          Keys,           \* a program in a term: what a fee schedule prices
          KeyOf,          \* the program and term of a place
          Events,         \* identifiers of enrollments and of their events
          Requests,       \* enrollment requests in flight at the same time
          Publishers,     \* processes running the outbox worker
          Handlers,       \* messages the consumer handles concurrently
          BatchSize,      \* rows one publish cycle takes
          BoundAtStart,   \* the consumer has declared its queue before
          MaxFaults,      \* bound on crashes, failures and outbox replays
          None

HandlerSteps == {"idle", "inbox", "price", "commit", "ack", "reject"}

ASSUME KeysAssumption == KeyOf \in [Places -> Keys]
ASSUME NoneAssumption == None \notin Places \cup Events
ASSUME HandlersAssumption == IsFiniteSet(Handlers)
ASSUME BoundsAssumption ==
    /\ BatchSize \in Nat \ {0}
    /\ MaxFaults \in Nat
    /\ BoundAtStart \in BOOLEAN

VARIABLES
    place,       \* enrollments: the place of the row, None before it exists
    wanted,      \* per request: the place it found free, None if no request
    published,   \* outbox_events.published_at IS NOT NULL
    todo, sent,  \* per publisher: rows it locked, not yet and already sent
    bound,       \* the durable queue exists and is bound to the exchange
    queue, dlq,  \* per event: copies ready on the queue, copies dead-lettered
    hpc, msg,    \* per handler: next step and the event it handles
    live,        \* per handler: its delivery can still be acknowledged
    fees,        \* fee_schedules
    inbox,       \* inbox_events
    invoiced,    \* invoices
    faults

academic == <<place, wanted, published, todo, sent>>
broker == <<bound, queue, dlq>>
consumer == <<hpc, msg, live>>
finance == <<fees, inbox, invoiced>>
vars == <<academic, broker, consumer, finance, faults>>

TypeOK ==
    /\ place \in [Events -> Places \cup {None}]
    /\ wanted \in [Requests -> Places \cup {None}]
    /\ published \subseteq Events
    /\ todo \in [Publishers -> SUBSET Events]
    /\ sent \in [Publishers -> SUBSET Events]
    /\ bound \in BOOLEAN
    /\ queue \in [Events -> Nat]
    /\ dlq \in [Events -> Nat]
    /\ hpc \in [Handlers -> HandlerSteps]
    /\ msg \in [Handlers -> Events \cup {None}]
    /\ live \in [Handlers -> BOOLEAN]
    /\ fees \subseteq Keys
    /\ inbox \subseteq Events
    /\ invoiced \subseteq Events
    /\ faults \in 0..MaxFaults

Init ==
    /\ place = [e \in Events |-> None]
    /\ wanted = [r \in Requests |-> None]
    /\ published = {}
    /\ todo = [w \in Publishers |-> {}]
    /\ sent = [w \in Publishers |-> {}]
    /\ bound = BoundAtStart
    /\ queue = [e \in Events |-> 0]
    /\ dlq = [e \in Events |-> 0]
    /\ hpc = [h \in Handlers |-> "idle"]
    /\ msg = [h \in Handlers |-> None]
    /\ live = [h \in Handlers |-> FALSE]
    /\ fees = {}
    /\ inbox = {}
    /\ invoiced = {}
    /\ faults = 0

Enrolled == {e \in Events : place[e] # None}

\* Copies the consumer has taken and may still acknowledge.
Unacked(e) == {h \in Handlers : msg[h] = e /\ live[h]}

Fault == faults < MaxFaults /\ faults' = faults + 1

-----------------------------------------------------------------------------
(* POST /enrollments *)

\* The request looks for an enrollment of the student and finds none.
EnrollCheck(r, s) ==
    /\ wanted[r] = None
    /\ \A e \in Events : place[e] # s
    /\ wanted' = [wanted EXCEPT ![r] = s]
    /\ UNCHANGED <<place, published, todo, sent, broker, consumer, finance, faults>>

\* Variant: without uq_enrollments_student_program_term.
EnrollUnchecked(r, e) ==
    /\ wanted[r] # None
    /\ place[e] = None
    /\ place' = [place EXCEPT ![e] = wanted[r]]
    /\ wanted' = [wanted EXCEPT ![r] = None]
    /\ UNCHANGED <<published, todo, sent, broker, consumer, finance, faults>>

\* One commit for the enrollment and its outbox event; the unique constraint on
\* student, program and term is what holds against a concurrent request.
Enroll(r, e) ==
    /\ wanted[r] # None
    /\ place[e] = None
    /\ \A f \in Events : place[f] # wanted[r]
    /\ place' = [place EXCEPT ![e] = wanted[r]]
    /\ wanted' = [wanted EXCEPT ![r] = None]
    /\ UNCHANGED <<published, todo, sent, broker, consumer, finance, faults>>

\* IntegrityError: the transaction is rolled back, no row and no event.
EnrollConflict(r) ==
    /\ wanted[r] # None
    /\ \E f \in Events : place[f] = wanted[r]
    /\ wanted' = [wanted EXCEPT ![r] = None]
    /\ UNCHANGED <<place, published, todo, sent, broker, consumer, finance, faults>>

-----------------------------------------------------------------------------
(* publish_pending_events: one transaction from the SELECT to the commit *)

Locked == UNION {todo[w] \cup sent[w] : w \in Publishers}

\* SELECT ... LIMIT FOR UPDATE SKIP LOCKED.
Select(w, batch) ==
    LET pending == (Enrolled \ published) \ Locked
    IN /\ todo[w] = {} /\ sent[w] = {}
       /\ batch # {} /\ batch \subseteq pending
       /\ Cardinality(batch) <= BatchSize
       /\ Cardinality(batch) = BatchSize \/ batch = pending
       /\ todo' = [todo EXCEPT ![w] = batch]
       /\ UNCHANGED <<place, wanted, published, sent, broker, consumer, finance, faults>>

\* exchange.publish: confirmed by the broker.  A message no queue is bound for is
\* returned to the channel, which is not an error of publish.
Publish(w, e) ==
    /\ e \in todo[w]
    /\ todo' = [todo EXCEPT ![w] = @ \ {e}]
    /\ sent' = [sent EXCEPT ![w] = @ \cup {e}]
    /\ queue' = IF bound THEN [queue EXCEPT ![e] = @ + 1] ELSE queue
    /\ UNCHANGED <<place, wanted, published, bound, dlq, consumer, finance, faults>>

PublishCommit(w) ==
    /\ todo[w] = {} /\ sent[w] # {}
    /\ published' = published \cup sent[w]
    /\ sent' = [sent EXCEPT ![w] = {}]
    /\ UNCHANGED <<place, wanted, todo, broker, consumer, finance, faults>>

\* Variant: the rows are marked although the cycle failed.
PublishFaultKeeps(w) ==
    /\ todo[w] \cup sent[w] # {}
    /\ Fault
    /\ published' = published \cup todo[w] \cup sent[w]
    /\ todo' = [todo EXCEPT ![w] = {}]
    /\ sent' = [sent EXCEPT ![w] = {}]
    /\ UNCHANGED <<place, wanted, broker, consumer, finance>>

\* A publish or the commit fails, or the process dies: the whole cycle is rolled
\* back, although what was sent has been sent.
PublishFault(w) ==
    /\ todo[w] \cup sent[w] # {}
    /\ Fault
    /\ todo' = [todo EXCEPT ![w] = {}]
    /\ sent' = [sent EXCEPT ![w] = {}]
    /\ UNCHANGED <<place, wanted, published, broker, consumer, finance>>

-----------------------------------------------------------------------------
(* The broker and the operator *)

\* The consumer starts for the first time: declare_enrollment_queue.
DeclareQueue ==
    /\ ~bound
    /\ bound' = TRUE
    /\ UNCHANGED <<academic, queue, dlq, consumer, finance, faults>>

Deliver(h, e) ==
    /\ hpc[h] = "idle"
    /\ queue[e] > 0
    /\ queue' = [queue EXCEPT ![e] = @ - 1]
    /\ hpc' = [hpc EXCEPT ![h] = "inbox"]
    /\ msg' = [msg EXCEPT ![h] = e]
    /\ live' = [live EXCEPT ![h] = TRUE]
    /\ UNCHANGED <<academic, bound, dlq, finance, faults>>

\* The manual reconciliation of a dead-lettered message: it is queued again.
Replay(e) ==
    /\ dlq[e] > 0
    /\ dlq' = [dlq EXCEPT ![e] = @ - 1]
    /\ queue' = [queue EXCEPT ![e] = @ + 1]
    /\ UNCHANGED <<academic, bound, consumer, finance, faults>>

\* Disaster recovery replays the outbox: a published row is pending again.
ReplayOutbox(e) ==
    /\ e \in published
    /\ Fault
    /\ published' = published \ {e}
    /\ UNCHANGED <<place, wanted, todo, sent, broker, consumer, finance>>

\* POST /fee-schedules; a second one for the same key is refused.
CreateFeeSchedule(k) ==
    /\ k \notin fees
    /\ fees' = fees \cup {k}
    /\ UNCHANGED <<academic, broker, consumer, inbox, invoiced, faults>>

-----------------------------------------------------------------------------
(* handle_message *)

\* Another handler's uncommitted inbox row with the same event id: the insert waits.
InboxLocked(e) == \E h \in Handlers : msg[h] = e /\ hpc[h] \in {"price", "commit"}

GoOn(h, step) ==
    /\ hpc' = [hpc EXCEPT ![h] = step]
    /\ UNCHANGED <<academic, broker, msg, live, finance, faults>>

InboxDuplicate(h) ==
    /\ hpc[h] = "inbox"
    /\ ~InboxLocked(msg[h])
    /\ msg[h] \in inbox
    /\ GoOn(h, "ack")

InboxInsert(h) ==
    /\ hpc[h] = "inbox"
    /\ ~InboxLocked(msg[h])
    /\ msg[h] \notin inbox
    /\ GoOn(h, "price")

PriceFound(h) ==
    /\ hpc[h] = "price"
    /\ KeyOf[place[msg[h]]] \in fees
    /\ GoOn(h, "commit")

\* Variant: the inbox row is committed before the message is rejected.
PriceMissingKept(h) ==
    /\ hpc[h] = "price"
    /\ KeyOf[place[msg[h]]] \notin fees
    /\ hpc' = [hpc EXCEPT ![h] = "reject"]
    /\ inbox' = inbox \cup {msg[h]}
    /\ UNCHANGED <<academic, broker, msg, live, fees, invoiced, faults>>

\* Variant: an enrollment without a price is invoiced all the same.
PriceGuessed(h) ==
    /\ hpc[h] = "price"
    /\ KeyOf[place[msg[h]]] \notin fees
    /\ GoOn(h, "commit")

\* No fee schedule: rollback, which takes the inbox row back, then reject.
PriceMissing(h) ==
    /\ hpc[h] = "price"
    /\ KeyOf[place[msg[h]]] \notin fees
    /\ GoOn(h, "reject")

\* One commit for the inbox row and the invoice.  (uq_invoices_enrollment cannot
\* refuse it: an enrollment has one event.)
InvoiceCommit(h) ==
    /\ hpc[h] = "commit"
    /\ inbox' = inbox \cup {msg[h]}
    /\ invoiced' = invoiced \cup {msg[h]}
    /\ hpc' = [hpc EXCEPT ![h] = "ack"]
    /\ UNCHANGED <<academic, broker, msg, live, fees, faults>>

Done(h) ==
    /\ hpc' = [hpc EXCEPT ![h] = "idle"]
    /\ msg' = [msg EXCEPT ![h] = None]
    /\ live' = [live EXCEPT ![h] = FALSE]

\* On a channel that is gone ack and reject raise, and so does the nack in the
\* except clause; the broker has queued the message again by itself.
Ack(h) ==
    /\ hpc[h] = "ack"
    /\ Done(h)
    /\ UNCHANGED <<academic, broker, finance, faults>>

Reject(h) ==
    /\ hpc[h] = "reject"
    /\ dlq' = IF live[h] THEN [dlq EXCEPT ![msg[h]] = @ + 1] ELSE dlq
    /\ Done(h)
    /\ UNCHANGED <<academic, bound, queue, finance, faults>>

\* Variant: the exception is logged and the message forgotten.
RequeueForgotten(h) ==
    /\ hpc[h] \in {"inbox", "price", "commit"}
    /\ Fault
    /\ Done(h)
    /\ UNCHANGED <<academic, broker, finance>>

\* Any other exception, of the database for instance: rollback, nack(requeue=True).
Requeue(h) ==
    /\ hpc[h] \in {"inbox", "price", "commit"}
    /\ Fault
    /\ queue' = IF live[h] THEN [queue EXCEPT ![msg[h]] = @ + 1] ELSE queue
    /\ Done(h)
    /\ UNCHANGED <<academic, bound, dlq, finance>>

\* Every unacknowledged delivery is put back on the queue.
RequeueUnacked == queue' = [e \in Events |-> queue[e] + Cardinality(Unacked(e))]

\* The connection to the broker is lost and restored; the handlers go on.
ConnectionLost ==
    /\ \E h \in Handlers : live[h]
    /\ Fault
    /\ RequeueUnacked
    /\ live' = [h \in Handlers |-> FALSE]
    /\ UNCHANGED <<academic, bound, dlq, hpc, msg, finance>>

\* The consumer process dies; its open transactions are rolled back.
ConsumerCrash ==
    /\ \E h \in Handlers : hpc[h] # "idle"
    /\ Fault
    /\ RequeueUnacked
    /\ hpc' = [h \in Handlers |-> "idle"]
    /\ msg' = [h \in Handlers |-> None]
    /\ live' = [h \in Handlers |-> FALSE]
    /\ UNCHANGED <<academic, bound, dlq, finance>>

-----------------------------------------------------------------------------
CreateEnrollment(r) ==
    \/ \E s \in Places : EnrollCheck(r, s)
    \/ \E e \in Events : Enroll(r, e)
    \/ EnrollConflict(r)

PublishCycle(w) ==
    \/ \E batch \in SUBSET Events : Select(w, batch)
    \/ \E e \in Events : Publish(w, e)
    \/ PublishCommit(w)

InboxStep(h) == InboxDuplicate(h) \/ InboxInsert(h)

Handle(h) == PriceFound(h) \/ PriceMissing(h) \/ InvoiceCommit(h) \/ Ack(h) \/ Reject(h)

Receive == \E h \in Handlers, e \in Events : Deliver(h, e)

Next ==
    \/ \E r \in Requests : CreateEnrollment(r)
    \/ \E w \in Publishers : PublishCycle(w) \/ PublishFault(w)
    \/ \E h \in Handlers : InboxStep(h) \/ Handle(h) \/ Requeue(h)
    \/ Receive
    \/ DeclareQueue
    \/ \E e \in Events : Replay(e) \/ ReplayOutbox(e)
    \/ \E k \in Keys : CreateFeeSchedule(k)
    \/ ConnectionLost
    \/ ConsumerCrash

Spec == Init /\ [][Next]_vars

\* The publisher's loop and the consumer never stop, every started handler goes
\* on, PostgreSQL serves the waiters for a key in order, and the broker delivers
\* each ready message some day.  Nobody has to enroll, to price or to replay.
Fairness ==
    /\ \A w \in Publishers : WF_vars(PublishCycle(w))
    /\ \A h \in Handlers : SF_vars(InboxStep(h)) /\ WF_vars(Handle(h))
    /\ \A e \in Events : SF_vars(\E h \in Handlers : Deliver(h, e))
    /\ WF_vars(DeclareQueue)

FairSpec == Spec /\ Fairness

-----------------------------------------------------------------------------
(* Properties *)

\* A place is billed at most once, for a program and term that has a price,
\* whatever is sent, delivered and handled twice.
BilledOnce ==
    /\ \A e \in invoiced : place[e] # None /\ KeyOf[place[e]] \in fees
    /\ \A e, f \in invoiced : place[e] = place[f] => e = f

\* The event of an accepted enrollment is never lost: it waits in the outbox, it
\* is with the broker, it is dead-lettered where an operator sees it, or it has
\* become an invoice.
Kept(e) == queue[e] > 0 \/ Unacked(e) # {} \/ dlq[e] > 0 \/ e \in invoiced
NothingLost == \A e \in Enrolled : e \notin published \/ Kept(e)

\* An event is recorded as processed exactly when its invoice exists, so that an
\* event that was dead-lettered for want of a price can be replayed.
InboxMeansInvoiced == inbox = invoiced

\* The pipeline behaves like the abstract Billing.
Bills == INSTANCE Billing WITH
            accepted <- {place[e] : e \in Enrolled},
            priced <- fees,
            bills <- [s \in Places |-> Cardinality({e \in invoiced : place[e] = s})]
BillingIsAbstract == Bills!Spec

\* Once the queue exists, an event in the outbox that no publish cycle has in its
\* hands is billed or dead-lettered in the end.  (One that is sent before the queue
\* exists is lost, see NothingLost.)
Waiting(e) == bound /\ e \in (Enrolled \ published) \ Locked
BilledOrDeadLettered == \A e \in Events : Waiting(e) ~> (e \in invoiced \/ dlq[e] > 0)
=============================================================================
