---------------------- MODULE EnrollmentPipelineProofs ----------------------
(***************************************************************************)
(* Proofs about EnrollmentPipeline, for any number of enrollments,         *)
(* publishers, concurrent handlers and faults.                             *)
(***************************************************************************)
EXTENDS EnrollmentPipeline, FiniteSetTheorems, TLAPS

-----------------------------------------------------------------------------
(* The inductive invariant *)

PlacesUnique == \A e, f \in Enrolled : place[e] = place[f] => e = f

\* Only events of enrollments are under way.
Known ==
    /\ invoiced \subseteq Enrolled /\ published \subseteq Enrolled
    /\ \A w \in Publishers : todo[w] \subseteq Enrolled /\ sent[w] \subseteq Enrolled
    /\ \A e \in Events : queue[e] > 0 \/ dlq[e] > 0 => e \in Enrolled
    /\ \A h \in Handlers : hpc[h] # "idle" => msg[h] \in Enrolled

\* What a handler has established where it stands.
HandlerOK(h) ==
    /\ hpc[h] = "idle" => msg[h] = None /\ ~live[h]
    /\ hpc[h] = "commit" => KeyOf[place[msg[h]]] \in fees
    /\ hpc[h] = "ack" => msg[h] \in invoiced

Priced == \A e \in invoiced : KeyOf[place[e]] \in fees

IInv ==
    /\ TypeOK
    /\ PlacesUnique
    /\ Known
    /\ Priced
    /\ InboxMeansInvoiced
    /\ \A h \in Handlers : HandlerOK(h)

USE DEF HandlerSteps

LEMMA InitIInv == Init => IInv
  BY BoundsAssumption DEF Init, IInv, TypeOK, Enrolled, PlacesUnique, Known, Priced,
     InboxMeansInvoiced, HandlerOK

\* Deliveries that may be acknowledged are counted by a number, which is 0 exactly
\* when there are none.
LEMMA UnackedCount ==
  ASSUME NEW e \in Events
  PROVE  /\ Cardinality(Unacked(e)) \in Nat
         /\ Cardinality(Unacked(e)) = 0 <=> Unacked(e) = {}
<1>1. Unacked(e) \in SUBSET Handlers
  BY DEF Unacked
<1>2. IsFiniteSet(Unacked(e))
  BY <1>1, HandlersAssumption, FS_Subset
<1> QED
  BY <1>2, FS_CardinalityType, FS_EmptySet

LEMMA TypeStep == IInv /\ [Next]_vars => TypeOK'
<1> SUFFICES ASSUME IInv, [Next]_vars PROVE TypeOK'
  OBVIOUS
<1> USE BoundsAssumption
<1>0. TypeOK /\ Known
  BY DEF IInv
<1>1. ASSUME NEW r \in Requests, CreateEnrollment(r) PROVE TypeOK'
  BY <1>0, <1>1 DEF TypeOK, CreateEnrollment, EnrollCheck, Enroll, EnrollConflict, broker, consumer, finance
<1>2. ASSUME NEW w \in Publishers, PublishCycle(w) PROVE TypeOK'
  BY <1>0, <1>2 DEF TypeOK, PublishCycle, Select, Publish, PublishCommit, Enrolled, broker, consumer, finance
<1>3. ASSUME NEW w \in Publishers, PublishFault(w) PROVE TypeOK'
  BY <1>0, <1>3 DEF TypeOK, PublishFault, Fault, broker, consumer, finance
<1>4. ASSUME NEW h \in Handlers, InboxStep(h) PROVE TypeOK'
  BY <1>0, <1>4 DEF TypeOK, InboxStep, InboxDuplicate, InboxInsert, GoOn, academic, broker, finance
<1>5. ASSUME NEW h \in Handlers, Handle(h) PROVE TypeOK'
  <2>1. CASE PriceFound(h) \/ PriceMissing(h)
    BY <1>0, <2>1 DEF TypeOK, PriceFound, PriceMissing, GoOn, academic, broker, finance
  <2>2. CASE InvoiceCommit(h)
    BY <1>0, <2>2 DEF TypeOK, Known, Enrolled, InvoiceCommit, academic, broker
  <2>3. CASE Ack(h)
    BY <1>0, <2>3 DEF TypeOK, Ack, Done, academic, broker, finance
  <2>4. CASE Reject(h)
    BY <1>0, <2>4 DEF TypeOK, Known, Enrolled, Reject, Done, academic, finance
  <2> QED
    BY <1>5, <2>1, <2>2, <2>3, <2>4 DEF Handle
<1>6. ASSUME NEW h \in Handlers, Requeue(h) PROVE TypeOK'
  BY <1>0, <1>6 DEF TypeOK, Known, Enrolled, Requeue, Fault, Done, academic, finance
<1>7. CASE Receive
  BY <1>0, <1>7 DEF TypeOK, Receive, Deliver, academic, finance
<1>8. CASE DeclareQueue
  BY <1>0, <1>8 DEF TypeOK, DeclareQueue, academic, consumer, finance
<1>9. ASSUME NEW e \in Events, Replay(e) \/ ReplayOutbox(e) PROVE TypeOK'
  BY <1>0, <1>9 DEF TypeOK, Replay, ReplayOutbox, Fault, academic, broker, consumer, finance
<1>10. ASSUME NEW k \in Keys, CreateFeeSchedule(k) PROVE TypeOK'
  BY <1>0, <1>10 DEF TypeOK, CreateFeeSchedule, academic, broker, consumer
<1>11. CASE ConnectionLost \/ ConsumerCrash
  <2>1. queue' \in [Events -> Nat]
    BY <1>0, <1>11, UnackedCount DEF TypeOK, ConnectionLost, ConsumerCrash, RequeueUnacked
  <2>2. /\ faults' \in 0..MaxFaults /\ dlq' = dlq /\ bound' = bound
        /\ UNCHANGED <<academic, finance>>
    BY <1>0, <1>11 DEF TypeOK, ConnectionLost, ConsumerCrash, Fault
  <2>3. /\ hpc' \in [Handlers -> HandlerSteps] /\ live' \in [Handlers -> BOOLEAN]
        /\ msg' \in [Handlers -> Events \cup {None}]
    BY <1>0, <1>11 DEF TypeOK, ConnectionLost, ConsumerCrash
  <2> QED
    BY <1>0, <2>1, <2>2, <2>3 DEF TypeOK, academic, finance
<1>12. CASE UNCHANGED vars
  BY <1>0, <1>12 DEF TypeOK, vars, academic, broker, consumer, finance
<1> QED
  BY <1>1, <1>2, <1>3, <1>4, <1>5, <1>6, <1>7, <1>8, <1>9, <1>10, <1>11, <1>12 DEF Next

-----------------------------------------------------------------------------
(* Preservation *)

\* An enrollment: its place was free, and its event was nowhere.
LEMMA EnrollStep ==
  ASSUME IInv, TypeOK', NEW r \in Requests, NEW e \in Events, Enroll(r, e)
  PROVE  IInv'
<1>1. wanted[r] \in Places /\ place' = [place EXCEPT ![e] = wanted[r]] /\ wanted[r] # None
  BY NoneAssumption DEF IInv, TypeOK, Enroll
<1>2. Enrolled' = Enrolled \cup {e} /\ e \notin Enrolled
  BY <1>1 DEF IInv, TypeOK, Enrolled, Enroll
<1>3. PlacesUnique'
  BY <1>1, <1>2 DEF IInv, TypeOK, PlacesUnique, Enrolled, Enroll
<1>4. Known' /\ InboxMeansInvoiced'
  BY <1>2 DEF IInv, Known, InboxMeansInvoiced, Enroll, broker, consumer, finance
<1>5. Priced' /\ (\A h \in Handlers : HandlerOK(h))'
  BY <1>1, <1>2 DEF IInv, TypeOK, Known, Priced, HandlerOK, Enrolled, Enroll, broker, consumer, finance
<1> QED
  BY <1>3, <1>4, <1>5 DEF IInv

\* The publisher and the academic requests write nothing of finance's.
LEMMA AcademicStep ==
  ASSUME IInv, TypeOK', UNCHANGED <<place, dlq, consumer, finance>>,
         (published' \cup UNION {todo'[w] \cup sent'[w] : w \in Publishers}) \subseteq Enrolled,
         \A e \in Events : queue'[e] > 0 => queue[e] > 0 \/ e \in Enrolled
  PROVE  IInv'
<1>1. Enrolled' = Enrolled
  BY DEF Enrolled
<1> QED
  BY <1>1 DEF IInv, Known, PlacesUnique, Priced, InboxMeansInvoiced, HandlerOK, consumer, finance

LEMMA PublisherStep ==
  ASSUME IInv, TypeOK', NEW w \in Publishers, PublishCycle(w) \/ PublishFault(w)
  PROVE  IInv'
<1>0. TypeOK /\ Known
  BY DEF IInv
<1>1. UNCHANGED <<place, dlq, consumer, finance>>
  BY DEF PublishCycle, PublishFault, Select, Publish, PublishCommit, broker
<1>2. published' \subseteq Enrolled
  BY <1>0 DEF Known, PublishCycle, PublishFault, Select, Publish, PublishCommit
<1>3. \A v \in Publishers : todo'[v] \subseteq Enrolled /\ sent'[v] \subseteq Enrolled
  BY <1>0 DEF Known, TypeOK, PublishCycle, PublishFault, Select, Publish, PublishCommit
<1>4. \A e \in Events : queue'[e] > 0 => queue[e] > 0 \/ e \in Enrolled
  BY <1>0 DEF Known, TypeOK, PublishCycle, PublishFault, Select, Publish, PublishCommit, broker
<1> QED
  BY <1>1, <1>2, <1>3, <1>4, AcademicStep

\* A handler's step, whatever it does with the message.
LEMMA HandlerStep ==
  ASSUME IInv, TypeOK', NEW h \in Handlers, InboxStep(h) \/ Handle(h) \/ Requeue(h)
  PROVE  IInv'
<1>0. TypeOK /\ Known
  BY DEF IInv
<1>1. place' = place /\ fees' = fees /\ Enrolled' = Enrolled
  BY DEF InboxStep, Handle, Requeue, InboxDuplicate, InboxInsert, PriceFound, PriceMissing,
     InvoiceCommit, Ack, Reject, GoOn, academic, finance, Enrolled
<1>2. CASE InvoiceCommit(h)
  BY <1>1, <1>2 DEF IInv, TypeOK, PlacesUnique, Known, Priced, InboxMeansInvoiced, HandlerOK,
     InvoiceCommit, academic, broker
<1>3. CASE InboxStep(h) \/ PriceFound(h) \/ PriceMissing(h)
  BY <1>1, <1>3 DEF IInv, TypeOK, PlacesUnique, Known, Priced, InboxMeansInvoiced, HandlerOK,
     InboxStep, InboxDuplicate, InboxInsert, PriceFound, PriceMissing, GoOn, academic, broker, finance
<1>4. CASE Ack(h) \/ Reject(h) \/ Requeue(h)
  <2>1. UNCHANGED <<academic, finance>> /\ Done(h) /\ hpc[h] # "idle"
    BY <1>4 DEF Ack, Reject, Requeue
  <2>2. \A e \in Events : queue'[e] > 0 \/ dlq'[e] > 0 => e \in Enrolled
    BY <1>0, <1>4, <2>1 DEF TypeOK, Known, Ack, Reject, Requeue, broker
  <2> QED
    BY <1>1, <2>1, <2>2 DEF IInv, TypeOK, PlacesUnique, Known, Priced, InboxMeansInvoiced,
       HandlerOK, Done, academic, finance
<1> QED
  BY <1>2, <1>3, <1>4 DEF Handle

\* The broker and the faults around it move copies of known events only.
LEMMA BrokerStep ==
  ASSUME IInv, TypeOK', Receive \/ DeclareQueue \/ ConnectionLost \/ ConsumerCrash
                            \/ \E e \in Events : Replay(e)
  PROVE  IInv'
<1>0. TypeOK /\ Known /\ \A h \in Handlers : HandlerOK(h)
  BY DEF IInv
<1>1. UNCHANGED <<academic, finance>>
  BY DEF Receive, Deliver, DeclareQueue, ConnectionLost, ConsumerCrash, Replay
<1>2. Enrolled' = Enrolled
  BY <1>1 DEF Enrolled, academic
<1>3. \A e \in Events : queue'[e] > 0 \/ dlq'[e] > 0 => e \in Enrolled
  <2>1. CASE ConnectionLost \/ ConsumerCrash
    <3> SUFFICES ASSUME NEW e \in Events, e \notin Enrolled PROVE queue'[e] = 0 /\ dlq'[e] = 0
      OBVIOUS
    <3>1. Unacked(e) = {}
      BY <1>0 DEF Known, HandlerOK, Unacked
    <3>2. Cardinality(Unacked(e)) = 0
      BY <3>1, UnackedCount
    <3> QED
      BY <1>0, <2>1, <3>2 DEF TypeOK, Known, ConnectionLost, ConsumerCrash, RequeueUnacked
  <2>2. CASE ~(ConnectionLost \/ ConsumerCrash)
    BY <1>0, <2>2 DEF TypeOK, Known, Receive, Deliver, DeclareQueue, Replay
  <2> QED
    BY <2>1, <2>2
<1>4. \A h \in Handlers : hpc'[h] # "idle" => msg'[h] \in Enrolled
  BY <1>0 DEF TypeOK, Known, Receive, Deliver, DeclareQueue, ConnectionLost, ConsumerCrash, Replay, consumer
<1>5. (\A h \in Handlers : HandlerOK(h))'
  BY <1>0, <1>1 DEF TypeOK, HandlerOK, Receive, Deliver, DeclareQueue, ConnectionLost, ConsumerCrash,
     Replay, consumer, academic, finance
<1> QED
  BY <1>1, <1>2, <1>3, <1>4, <1>5 DEF IInv, PlacesUnique, Known, Priced, InboxMeansInvoiced, academic, finance

LEMMA NextIInv == IInv /\ [Next]_vars => IInv'
<1> SUFFICES ASSUME IInv, [Next]_vars PROVE IInv'
  OBVIOUS
<1>0. TypeOK'
  BY TypeStep
<1>1. ASSUME NEW r \in Requests, CreateEnrollment(r) PROVE IInv'
  <2>1. CASE \E e \in Events : Enroll(r, e)
    BY <1>0, <2>1, EnrollStep
  <2>2. CASE EnrollConflict(r) \/ \E s \in Places : EnrollCheck(r, s)
    BY <1>0, <2>2 DEF IInv, Known, PlacesUnique, Priced, InboxMeansInvoiced, HandlerOK, Enrolled,
       EnrollConflict, EnrollCheck, broker, consumer, finance
  <2> QED
    BY <1>1, <2>1, <2>2 DEF CreateEnrollment
<1>2. ASSUME NEW w \in Publishers, PublishCycle(w) \/ PublishFault(w) PROVE IInv'
  BY <1>0, <1>2, PublisherStep
<1>3. ASSUME NEW h \in Handlers, InboxStep(h) \/ Handle(h) \/ Requeue(h) PROVE IInv'
  BY <1>0, <1>3, HandlerStep
<1>4. CASE Receive \/ DeclareQueue \/ ConnectionLost \/ ConsumerCrash \/ \E e \in Events : Replay(e)
  BY <1>0, <1>4, BrokerStep
<1>5. ASSUME NEW e \in Events, ReplayOutbox(e) PROVE IInv'
  BY <1>0, <1>5 DEF IInv, Known, PlacesUnique, Priced, InboxMeansInvoiced, HandlerOK, Enrolled,
     ReplayOutbox, broker, consumer, finance
<1>6. ASSUME NEW k \in Keys, CreateFeeSchedule(k) PROVE IInv'
  BY <1>0, <1>6 DEF IInv, Known, PlacesUnique, Priced, InboxMeansInvoiced, HandlerOK, Enrolled,
     CreateFeeSchedule, academic, broker, consumer
<1>7. CASE UNCHANGED vars
  BY <1>0, <1>7 DEF IInv, Known, PlacesUnique, Priced, InboxMeansInvoiced, HandlerOK, Enrolled,
     vars, academic, broker, consumer, finance
<1> QED
  BY <1>1, <1>2, <1>3, <1>4, <1>5, <1>6, <1>7 DEF Next

LEMMA Invariance == Spec => []IInv
  BY InitIInv, NextIInv, PTL DEF Spec

\* Types, for every instance: every copy of a message is of a known event.
THEOREM TypeCorrect == Spec => []TypeOK
  BY Invariance, PTL DEF IInv

\* A place in a program and term is billed at most once, at a configured price,
\* however often its event is sent, delivered and handled.
THEOREM EveryPlaceIsBilledOnce == Spec => []BilledOnce
<1>1. IInv => BilledOnce
  BY DEF IInv, TypeOK, PlacesUnique, Known, Priced, BilledOnce, Enrolled
<1> QED
  BY <1>1, Invariance, PTL

\* An event counts as processed exactly when its invoice exists.
THEOREM ProcessedMeansInvoiced == Spec => []InboxMeansInvoiced
  BY Invariance, PTL DEF IInv

-----------------------------------------------------------------------------
(* Nothing is lost, provided the consumer's queue was there first *)

\* What a publisher has sent and not yet marked is already kept.
SentIsKept == \A w \in Publishers : \A e \in sent[w] : Kept(e)

KInv == IInv /\ bound /\ SentIsKept /\ NothingLost

\* No step gives up an event that is kept: it passes from the queue to a handler,
\* and from the handler to the queue, the dead letters or an invoice.
LEMMA KeptStep ==
  ASSUME KInv, IInv', [Next]_vars, NEW e \in Events, Kept(e)
  PROVE  Kept(e)'
<1>0. TypeOK /\ InboxMeansInvoiced /\ bound /\ \A h \in Handlers : HandlerOK(h)
  BY DEF KInv, IInv
<1>1. ASSUME NEW r \in Requests, CreateEnrollment(r) PROVE Kept(e)'
  BY <1>1 DEF Kept, Unacked, CreateEnrollment, EnrollCheck, Enroll, EnrollConflict, broker, consumer, finance
<1>2. ASSUME NEW w \in Publishers, PublishCycle(w) \/ PublishFault(w) PROVE Kept(e)'
  <2>1. queue[e] > 0 => queue'[e] > 0
    <3>1. ASSUME NEW f \in Events, Publish(w, f), queue[e] > 0 PROVE queue'[e] > 0
      <4>1. queue[e] \in Nat /\ queue[f] \in Nat /\ queue'[e] \in {queue[e], queue[e] + 1}
        BY <1>0, <3>1 DEF TypeOK, Publish
      <4> QED
        BY <3>1, <4>1
    <3>2. CASE ~ \E f \in Events : Publish(w, f)
      BY <1>2, <3>2 DEF PublishCycle, Select, PublishCommit, PublishFault, broker
    <3> QED
      BY <3>1, <3>2
  <2>2. UNCHANGED <<dlq, consumer, finance>>
    BY <1>2 DEF PublishCycle, Select, Publish, PublishCommit, PublishFault, broker
  <2> QED
    BY <2>1, <2>2 DEF Kept, Unacked, consumer, finance
<1>3. ASSUME NEW h \in Handlers, InboxStep(h) PROVE Kept(e)'
  BY <1>3 DEF Kept, Unacked, InboxStep, InboxDuplicate, InboxInsert, GoOn, broker, finance
<1>4. ASSUME NEW h \in Handlers, Handle(h) PROVE Kept(e)'
  <2>1. CASE PriceFound(h) \/ PriceMissing(h)
    BY <2>1 DEF Kept, Unacked, PriceFound, PriceMissing, GoOn, broker, finance
  <2>2. CASE InvoiceCommit(h)
    BY <2>2 DEF Kept, Unacked, InvoiceCommit, broker
  <2>3. CASE Ack(h)
    <3>1. msg[h] \in invoiced
      BY <1>0, <2>3 DEF HandlerOK, Ack
    <3>2. \A g \in Handlers : g # h => (g \in Unacked(e) <=> g \in Unacked(e)')
      BY <1>0, <2>3 DEF TypeOK, Unacked, Ack, Done
    <3> QED
      BY <2>3, <3>1, <3>2 DEF Kept, Unacked, Ack, broker, finance
  <2>4. CASE Reject(h)
    <3>1. h \in Unacked(e) => dlq'[e] > 0
      BY <1>0, <2>4 DEF TypeOK, Unacked, Reject
    <3>2. \A g \in Handlers : g # h => (g \in Unacked(e) <=> g \in Unacked(e)')
      BY <1>0, <2>4 DEF TypeOK, Unacked, Reject, Done
    <3>3. dlq[e] > 0 => dlq'[e] > 0
      BY <1>0, <2>4 DEF TypeOK, Reject
    <3> QED
      BY <2>4, <3>1, <3>2, <3>3 DEF Kept, Unacked, Reject, finance
  <2> QED
    BY <1>4, <2>1, <2>2, <2>3, <2>4 DEF Handle
<1>5. ASSUME NEW h \in Handlers, Requeue(h) PROVE Kept(e)'
  <2>1. h \in Unacked(e) => queue'[e] > 0
    BY <1>0, <1>5 DEF TypeOK, Unacked, Requeue
  <2>2. \A g \in Handlers : g # h => (g \in Unacked(e) <=> g \in Unacked(e)')
    BY <1>0, <1>5 DEF TypeOK, Unacked, Requeue, Done
  <2>3. queue[e] > 0 => queue'[e] > 0
    BY <1>0, <1>5 DEF TypeOK, Requeue
  <2> QED
    BY <1>5, <2>1, <2>2, <2>3 DEF Kept, Unacked, Requeue, finance
<1>6. CASE Receive
  <2> PICK h \in Handlers, f \in Events : Deliver(h, f)
    BY <1>6 DEF Receive
  <2>1. f = e => h \in Unacked(e)'
    BY <1>0 DEF TypeOK, Deliver, Unacked
  <2>2. f # e => queue'[e] = queue[e]
    BY <1>0 DEF TypeOK, Deliver
  <2>3. \A g \in Unacked(e) : g \in Unacked(e)'
    BY <1>0, NoneAssumption DEF TypeOK, Deliver, Unacked, HandlerOK
  <2> QED
    BY <2>1, <2>2, <2>3 DEF Kept, Deliver, finance
<1>7. CASE DeclareQueue
  BY <1>7 DEF Kept, Unacked, DeclareQueue, consumer, finance
<1>8. ASSUME NEW f \in Events, Replay(f) \/ ReplayOutbox(f) PROVE Kept(e)'
  <2>1. queue[e] > 0 \/ dlq[e] > 0 => queue'[e] > 0 \/ dlq'[e] > 0
    <3>1. CASE Replay(f)
      <4>1. /\ queue[e] \in Nat /\ dlq[e] \in Nat
            /\ queue' = [queue EXCEPT ![f] = @ + 1] /\ dlq' = [dlq EXCEPT ![f] = @ - 1]
        BY <1>0, <3>1 DEF TypeOK, Replay
      <4>2. f = e => queue'[e] = queue[e] + 1
        BY <1>0, <4>1 DEF TypeOK
      <4>3. f # e => queue'[e] = queue[e] /\ dlq'[e] = dlq[e]
        BY <1>0, <4>1 DEF TypeOK
      <4> QED
        BY <4>1, <4>2, <4>3
    <3>2. CASE ReplayOutbox(f)
      BY <3>2 DEF ReplayOutbox, broker
    <3> QED
      BY <1>8, <3>1, <3>2
  <2>2. UNCHANGED <<consumer, finance>>
    BY <1>8 DEF Replay, ReplayOutbox
  <2> QED
    BY <2>1, <2>2 DEF Kept, Unacked, consumer, finance
<1>9. ASSUME NEW k \in Keys, CreateFeeSchedule(k) PROVE Kept(e)'
  BY <1>9 DEF Kept, Unacked, CreateFeeSchedule, broker, consumer
<1>10. CASE ConnectionLost \/ ConsumerCrash
  <2>1. queue[e] > 0 \/ Unacked(e) # {} => queue'[e] > 0
    <3>1. queue'[e] = queue[e] + Cardinality(Unacked(e))
      BY <1>10 DEF ConnectionLost, ConsumerCrash, RequeueUnacked
    <3>2. /\ queue[e] \in Nat /\ Cardinality(Unacked(e)) \in Nat
          /\ Unacked(e) # {} => Cardinality(Unacked(e)) # 0
      BY <1>0, UnackedCount DEF TypeOK
    <3> QED
      BY <3>1, <3>2
  <2> QED
    BY <1>10, <2>1 DEF Kept, ConnectionLost, ConsumerCrash, finance
<1>11. CASE UNCHANGED vars
  BY <1>11 DEF Kept, Unacked, vars, broker, consumer, finance
<1> QED
  BY <1>1, <1>2, <1>3, <1>4, <1>5, <1>6, <1>7, <1>8, <1>9, <1>10, <1>11 DEF Next

\* How an event comes to be sent, and how it comes to be marked as published.
LEMMA OutboxMoves ==
  ASSUME TypeOK, [Next]_vars
  PROVE  /\ \A w \in Publishers : \A e \in sent'[w] \ sent[w] : \E v \in Publishers : Publish(v, e)
         /\ \A e \in published' \ published : \E w \in Publishers : e \in sent[w]
<1>1. ASSUME NEW v \in Publishers, PublishCycle(v) \/ PublishFault(v)
      PROVE  /\ \A w \in Publishers : \A e \in sent'[w] \ sent[w] : Publish(v, e)
             /\ published' \subseteq published \cup sent[v]
  <2>1. ASSUME NEW e \in Events, Publish(v, e)
        PROVE  published' = published /\ \A w \in Publishers : sent'[w] \subseteq sent[w] \cup {e}
    BY <2>1 DEF TypeOK, Publish
  <2>2. CASE PublishCommit(v) \/ PublishFault(v) \/ \E batch \in SUBSET Events : Select(v, batch)
    BY <2>2 DEF TypeOK, Select, PublishCommit, PublishFault
  <2> QED
    BY <1>1, <2>1, <2>2 DEF PublishCycle
<1>2. CASE ~ \E v \in Publishers : PublishCycle(v) \/ PublishFault(v)
  <2>1. sent' = sent /\ published' \subseteq published
    BY <1>2 DEF Next, CreateEnrollment, EnrollCheck, Enroll, EnrollConflict, InboxStep, InboxDuplicate,
       InboxInsert, Handle, PriceFound, PriceMissing, InvoiceCommit, Ack, Reject, Requeue, GoOn, Receive,
       Deliver, DeclareQueue, Replay, ReplayOutbox, CreateFeeSchedule, ConnectionLost, ConsumerCrash,
       vars, academic
  <2> QED
    BY <2>1
<1> QED
  BY <1>1, <1>2

LEMMA NextKInv == KInv /\ [Next]_vars => KInv'
<1> SUFFICES ASSUME KInv, [Next]_vars PROVE KInv'
  OBVIOUS
<1>0. IInv' /\ TypeOK /\ Known /\ bound
  BY NextIInv DEF KInv, IInv
<1>1. \A e \in Events : Kept(e) => Kept(e)'
  BY <1>0, KeptStep
<1>2. bound'
  BY <1>0 DEF Next, CreateEnrollment, EnrollCheck, Enroll, EnrollConflict, PublishCycle, Select, Publish,
     PublishCommit, PublishFault, InboxStep, InboxDuplicate, InboxInsert, Handle, PriceFound, PriceMissing,
     InvoiceCommit, Ack, Reject, Requeue, GoOn, Receive, Deliver, DeclareQueue, Replay, ReplayOutbox,
     CreateFeeSchedule, ConnectionLost, ConsumerCrash, vars, broker
<1>3. SentIsKept'
  <2> SUFFICES ASSUME NEW w \in Publishers, NEW e \in sent'[w] PROVE Kept(e)'
    BY DEF SentIsKept
  <2>1. e \in Events
    BY <1>0 DEF IInv, TypeOK
  <2>2. CASE e \in sent[w]
    BY <1>1, <2>1, <2>2 DEF KInv, SentIsKept
  <2>3. CASE e \notin sent[w]
    <3>1. PICK v \in Publishers : Publish(v, e)
      BY <1>0, <2>3, OutboxMoves
    <3>2. queue'[e] > 0
      BY <1>0, <3>1 DEF TypeOK, Publish
    <3> QED
      BY <3>2 DEF Kept
  <2> QED
    BY <2>2, <2>3
<1>4. NothingLost'
  <2> SUFFICES ASSUME NEW e \in Enrolled', e \in published' PROVE Kept(e)'
    BY DEF NothingLost
  <2>1. e \in Events /\ e \in Enrolled'
    BY DEF Enrolled
  <2>2. CASE e \in published
    <3>1. e \in Enrolled
      BY <1>0, <2>2 DEF Known
    <3> QED
      BY <1>1, <2>1, <2>2, <3>1 DEF KInv, NothingLost
  <2>3. CASE e \notin published
    <3>1. \E w \in Publishers : e \in sent[w]
      BY <1>0, <2>3, OutboxMoves
    <3> QED
      BY <1>1, <2>1, <3>1 DEF KInv, SentIsKept
  <2> QED
    BY <2>2, <2>3
<1> QED
  BY <1>0, <1>2, <1>3, <1>4 DEF KInv

\* No accepted enrollment's event is ever lost, through any number of failed
\* publish cycles, lost connections, consumer crashes and replays, if the
\* consumer has declared its queue before the first event is published.
THEOREM NoEventIsLost == BoundAtStart /\ Spec => []NothingLost
<1>1. BoundAtStart /\ Init => KInv
  BY InitIInv DEF KInv, SentIsKept, NothingLost, Enrolled, Init
<1>2. KInv => NothingLost
  BY DEF KInv
<1> QED
  BY <1>1, <1>2, NextKInv, PTL DEF Spec

-----------------------------------------------------------------------------
(* The pipeline implements Billing *)

InvoicesOf(s) == {e \in invoiced : place[e] = s}

\* The steps that Billing sees are three; all others leave what it sees alone.
LEMMA VisibleSteps ==
  ASSUME [Next]_vars
  PROVE  \/ UNCHANGED <<place, fees, invoiced>>
         \/ \E r \in Requests, e \in Events : Enroll(r, e)
         \/ \E k \in Keys : CreateFeeSchedule(k)
         \/ \E h \in Handlers : InvoiceCommit(h)
  BY DEF Next, CreateEnrollment, EnrollCheck, EnrollConflict, PublishCycle, Select, Publish,
     PublishCommit, PublishFault, InboxStep, InboxDuplicate, InboxInsert, Handle, PriceFound, PriceMissing,
     Ack, Reject, Requeue, GoOn, Receive, Deliver, DeclareQueue, Replay, ReplayOutbox,
     ConnectionLost, ConsumerCrash, vars, academic, finance

LEMMA EnrollIsAccept ==
  ASSUME IInv, NEW r \in Requests, NEW e \in Events, Enroll(r, e)
  PROVE  Bills!Next
<1>1. PICK s \in Places :
        /\ place' = [place EXCEPT ![e] = s] /\ place[e] = None /\ s # None
        /\ \A f \in Events : place[f] # s
  BY DEF IInv, TypeOK, Enroll
<1>2. {place[f] : f \in Enrolled}' = {place[f] : f \in Enrolled} \cup {s}
  BY <1>1 DEF IInv, TypeOK, Enrolled
<1>3. s \notin {place[f] : f \in Enrolled}
  BY <1>1 DEF Enrolled
<1>4. \A t \in Places : InvoicesOf(t)' = InvoicesOf(t)
  BY <1>1 DEF IInv, TypeOK, Known, Enrolled, InvoicesOf, Enroll, finance
<1>5. [t \in Places |-> Cardinality(InvoicesOf(t))]' = [t \in Places |-> Cardinality(InvoicesOf(t))]
  BY <1>4
<1>6. fees' = fees
  BY DEF Enroll, finance
<1>7. Bills!Accept(s)
  BY <1>2, <1>3, <1>5, <1>6 DEF Bills!Accept, InvoicesOf
<1> QED
  BY <1>1, <1>7 DEF Bills!Next

LEMMA InvoiceIsBill ==
  ASSUME IInv, NEW h \in Handlers, InvoiceCommit(h)
  PROVE  Bills!Next \/ UNCHANGED <<place, fees, invoiced>>
<1>1. PICK e \in Events, s \in Places :
        /\ e \in Enrolled /\ s = place[e] /\ KeyOf[s] \in fees
        /\ invoiced' = invoiced \cup {e} /\ UNCHANGED <<place, fees>>
  BY DEF IInv, TypeOK, Known, HandlerOK, Enrolled, InvoiceCommit, academic
<1>2. CASE e \in invoiced
  BY <1>1, <1>2
<1>3. CASE e \notin invoiced
  <2>1. InvoicesOf(s) = {} /\ InvoicesOf(s)' = {e}
    BY <1>1, <1>3 DEF IInv, PlacesUnique, Known, InvoicesOf
  <2>2. \A t \in Places \ {s} : InvoicesOf(t)' = InvoicesOf(t)
    BY <1>1 DEF InvoicesOf
  <2>3. Cardinality(InvoicesOf(s)) = 0 /\ Cardinality(InvoicesOf(s)') = 1
    BY <2>1, FS_EmptySet, FS_Singleton
  <2>4. [t \in Places |-> Cardinality(InvoicesOf(t))]'
            = [[t \in Places |-> Cardinality(InvoicesOf(t))] EXCEPT ![s] = 1]
    BY <1>1, <2>2, <2>3
  <2>5. {place[f] : f \in Enrolled}' = {place[f] : f \in Enrolled}
    BY <1>1 DEF Enrolled
  <2>6. Bills!Bill(s)
    BY <1>1, <2>3, <2>4, <2>5 DEF Bills!Bill, InvoicesOf
  <2> QED
    BY <1>1, <2>6 DEF Bills!Next
<1> QED
  BY <1>2, <1>3

\* Outbox, broker, retries and inbox together are Billing: an enrollment is
\* accepted once, billed at most once, and never without a price.
THEOREM PipelineImplementsBilling == Spec => BillingIsAbstract
<1>1. Init => Bills!Init
  <2> SUFFICES ASSUME Init PROVE Bills!Init
    OBVIOUS
  <2>1. {place[e] : e \in Enrolled} = {}
    BY DEF Init, Enrolled
  <2>2. \A s \in Places : {e \in invoiced : place[e] = s} = {}
    BY DEF Init
  <2>3. [s \in Places |-> Cardinality({e \in invoiced : place[e] = s})] = [s \in Places |-> 0]
    BY <2>2, FS_EmptySet
  <2> QED
    BY <2>1, <2>3 DEF Init, Bills!Init
<1>2. IInv /\ [Next]_vars => [Bills!Next]_(Bills!vars)
  <2> SUFFICES ASSUME IInv, [Next]_vars PROVE [Bills!Next]_(Bills!vars)
    OBVIOUS
  <2>1. CASE UNCHANGED <<place, fees, invoiced>>
    BY <2>1 DEF Bills!vars, Enrolled
  <2>2. ASSUME NEW k \in Keys, CreateFeeSchedule(k) PROVE Bills!Next
    <3>1. fees' = fees \cup {k} /\ UNCHANGED <<place, invoiced>>
      BY <2>2 DEF CreateFeeSchedule, academic
    <3>2. Bills!SetFee(k)
      BY <3>1 DEF Bills!SetFee, Enrolled
    <3> QED
      BY <3>2 DEF Bills!Next
  <2> QED
    BY <2>1, <2>2, VisibleSteps, EnrollIsAccept, InvoiceIsBill
<1> QED
  BY <1>1, <1>2, Invariance, PTL DEF Spec, BillingIsAbstract, Bills!Spec
=============================================================================
