------------------------ MODULE ExamSchedulesProofs ------------------------
(***************************************************************************)
(* Proofs about ExamSchedules: the timetable is free of conflicts for any  *)
(* number of offerings, students, rooms and concurrent requests.           *)
(***************************************************************************)
EXTENDS ExamSchedules, TLAPS

-----------------------------------------------------------------------------
(* The inductive invariant *)

\* Only the holder of the lock is about to write; a request to move an exam
\* found one, and exams are never deleted.
LockHeld ==
    /\ \A w \in Workers : work[w].step = "save" => holder = w
    /\ \A w \in Workers : work[w].step # "idle" =>
           /\ work[w].offering \in Offerings
           /\ work[w].slot \in Slots
           /\ work[w].loaded # NoSlot => work[w].offering \in Scheduled

\* Rows that are not exams have no history, and no check has seen a registration
\* that is not there.
HistoryOfExams ==
    /\ mixed \subseteq Scheduled
    /\ \A o \in Offerings : known[o] \subseteq registered
    /\ \A w \in Workers : work[w].seen \subseteq registered

\* The slot that is about to be written suits every other exam, and its check has
\* seen what the earlier ones had.
SlotIsFree(w) ==
    \A p \in Scheduled \ {work[w].offering} :
        /\ known[p] \subseteq work[w].seen
        /\ Overlap(exam[p], work[w].slot) =>
               /\ exam[p].room # work[w].slot.room
               /\ instructor[p] # instructor[work[w].offering]
               /\ ~Shared(work[w].seen, work[w].offering, p)

SavesAreFree == \A w \in Workers : work[w].step = "save" => SlotIsFree(w)

\* Two exams suit each other.
Suit(o, p) ==
    Overlap(exam[o], exam[p]) =>
        /\ exam[o].room # exam[p].room
        /\ instructor[o] # instructor[p]
        /\ ~Shared(known[o] \cup known[p], o, p)

TimetableIsFree == \A o, p \in Scheduled \ mixed : o # p => Suit(o, p)

IInv == TypeOK /\ LockHeld /\ HistoryOfExams /\ SavesAreFree /\ TimetableIsFree

-----------------------------------------------------------------------------
(* Facts about the parts *)

LEMMA OverlapIsSymmetric ==
    ASSUME NEW a \in Slots, NEW b \in Slots
    PROVE Overlap(a, b) <=> Overlap(b, a)
  BY DEF Overlap, Slots

LEMMA NoSlotIsNoSlot == NoSlot \notin Slots
  BY NoneAssumption DEF NoSlot, Slots

\* Shared depends on neither the order of the offerings nor on registrations
\* that are not there.
LEMMA SharedIsSymmetric ==
    ASSUME NEW R, NEW o, NEW p
    PROVE Shared(R, o, p) <=> Shared(R, p, o)
  BY DEF Shared

\* What a row becomes is a slot again.
LEMMA RowIsSlot ==
    ASSUME TypeOK, LockHeld, NEW w \in Workers, work[w].step = "save", work[w].loaded # NoSlot
    PROVE Row(w) \in Slots
<1> DEFINE o == work[w].offering
<1>1. o \in Scheduled /\ work[w].slot \in Slots
  BY DEF LockHeld
<1>2. exam[o] \in Slots
  BY <1>1 DEF TypeOK, Scheduled
<1> QED
  BY <1>1, <1>2 DEF Row, Column, Slots

\* A slot that was checked fits in: the pairs with it suit, and the others are as
\* they were.
LEMMA CheckedSlotFits ==
    ASSUME IInv, NEW w \in Workers, work[w].step = "save",
           NEW o, o = work[w].offering,
           exam' = [exam EXCEPT ![o] = work[w].slot],
           known' = [known EXCEPT ![o] = work[w].seen],
           mixed' \subseteq mixed, mixed \ {o} \subseteq mixed', instructor' = instructor
    PROVE TimetableIsFree'
<1> USE DEF IInv
<1>1. /\ o \in Offerings
      /\ work[w].slot \in Slots
      /\ SlotIsFree(w)
  BY DEF LockHeld, SavesAreFree
<1>2. Scheduled' = Scheduled \cup {o}
  BY <1>1, NoSlotIsNoSlot DEF Scheduled, TypeOK
<1>3. exam'[o] = work[w].slot /\ known'[o] = work[w].seen
  BY <1>1 DEF TypeOK
<1>4. ASSUME NEW p \in Scheduled, p # o PROVE /\ p \in Offerings
                                           /\ exam'[p] = exam[p] /\ known'[p] = known[p]
                                           /\ exam[p] \in Slots
  BY <1>4 DEF TypeOK, Scheduled
<1>5. ASSUME NEW p \in Scheduled, p # o PROVE Suit(o, p)' /\ Suit(p, o)'
  <2>1. /\ known[p] \subseteq work[w].seen
        /\ Overlap(exam[p], work[w].slot) =>
             /\ exam[p].room # work[w].slot.room
             /\ instructor[p] # instructor[o]
             /\ ~Shared(work[w].seen, o, p)
    BY <1>1, <1>5 DEF SlotIsFree
  <2>2. known'[o] \cup known'[p] = work[w].seen /\ known'[p] \cup known'[o] = work[w].seen
    BY <2>1, <1>3, <1>4, <1>5
  <2>3. Overlap(exam[p], work[w].slot) <=> Overlap(work[w].slot, exam[p])
    BY <1>1, <1>4, <1>5, OverlapIsSymmetric
  <2>4. Shared(work[w].seen, o, p) <=> Shared(work[w].seen, p, o)
    BY SharedIsSymmetric
  <2>5. exam'[p] = exam[p] /\ exam'[o] = work[w].slot
    BY <1>3, <1>4, <1>5
  <2>6. Suit(o, p)'
    BY <2>1, <2>2, <2>3, <2>5 DEF Suit
  <2>7. Suit(p, o)'
    BY <2>1, <2>2, <2>4, <2>5 DEF Suit
  <2> QED
    BY <2>6, <2>7
<1>6. ASSUME NEW p \in Scheduled \ mixed, NEW q \in Scheduled \ mixed, p # q, p # o, q # o
      PROVE Suit(p, q)'
  <2>1. Suit(p, q)
    BY <1>6 DEF TimetableIsFree
  <2>2. /\ exam'[p] = exam[p] /\ known'[p] = known[p]
        /\ exam'[q] = exam[q] /\ known'[q] = known[q]
    BY <1>4, <1>6
  <2> QED
    BY <2>1, <2>2 DEF Suit
<1> QED
  <2> SUFFICES ASSUME NEW p \in Scheduled' \ mixed', NEW q \in Scheduled' \ mixed', p # q
               PROVE Suit(p, q)'
    BY DEF TimetableIsFree
  <2>1. CASE p = o
    BY <2>1, <1>2, <1>5
  <2>2. CASE q = o
    BY <2>2, <1>2, <1>5
  <2>3. CASE p # o /\ q # o
    BY <2>3, <1>2, <1>6
  <2> QED
    BY <2>1, <2>2, <2>3

-----------------------------------------------------------------------------
(* Every action preserves the invariant *)

LEMMA InitIInv == Init => IInv
<1> SUFFICES ASSUME Init PROVE IInv
  OBVIOUS
<1>1. Scheduled = {}
  BY DEF Init, Scheduled
<1>2. TypeOK
  BY DEF Init, TypeOK, Work, Free
<1> QED
  BY <1>1, <1>2 DEF Init, IInv, LockHeld, HistoryOfExams, SavesAreFree, TimetableIsFree, Free

\* A registration only adds to what is registered.
LEMMA RegisterStep ==
    ASSUME IInv, NEW s \in Students, NEW o \in Offerings, Register(s, o) PROVE IInv'
<1> USE DEF IInv, Register
<1>1. TypeOK'
  BY DEF TypeOK
<1>2. HistoryOfExams'
  BY DEF HistoryOfExams, Scheduled
<1>3. LockHeld'
  BY DEF LockHeld, Scheduled
<1>4. SavesAreFree' /\ TimetableIsFree'
  BY DEF SavesAreFree, SlotIsFree, TimetableIsFree, Suit, Scheduled
<1> QED
  BY <1>1, <1>2, <1>3, <1>4

\* A request that is not about to write, and leaves the rest alone.
LEMMA RequestStep ==
    ASSUME IInv, NEW w \in Workers, NEW r \in Work, work' = [work EXCEPT ![w] = r],
           r.step # "save", r.seen = {}, work[w].step # "save" \/ holder' = None,
           r.step # "idle" => /\ r.offering \in Offerings /\ r.slot \in Slots
                              /\ r.loaded # NoSlot => r.offering \in Scheduled,
           holder' = holder \/ (holder = w /\ holder' = None),
           UNCHANGED <<instructor, exam, registered, known, mixed>>
    PROVE IInv'
<1> USE DEF IInv
<1>1. Scheduled' = Scheduled
  BY DEF Scheduled
<1>2. \A v \in Workers : v # w => work'[v] = work[v]
  BY DEF TypeOK
<1>3. work'[w] = r
  BY DEF TypeOK
<1>4. TypeOK'
  BY DEF TypeOK
<1>5. LockHeld'
  BY <1>1, <1>2, <1>3 DEF LockHeld
<1>6. HistoryOfExams'
  BY <1>1, <1>2, <1>3 DEF HistoryOfExams
<1>7. SavesAreFree'
  BY <1>1, <1>2, <1>3 DEF SavesAreFree, SlotIsFree
<1>8. TimetableIsFree'
  BY <1>1 DEF TimetableIsFree, Suit
<1> QED
  BY <1>4, <1>5, <1>6, <1>7, <1>8
\* The check of a request that finds no conflict.
LEMMA CheckedStep ==
    ASSUME IInv, NEW w \in Workers, Check(w), ~Conflict(w) PROVE IInv'
<1> USE DEF IInv
<1> DEFINE r == [work[w] EXCEPT !.step = "save", !.seen = registered]
<1>1. /\ work[w].step = "check" /\ holder = None
      /\ work' = [work EXCEPT ![w] = r] /\ holder' = w
      /\ UNCHANGED <<instructor, exam, registered, known, mixed>>
  BY DEF Check
<1>2. Scheduled' = Scheduled
  BY <1>1 DEF Scheduled
<1>3. work'[w] = r /\ \A v \in Workers : v # w => work'[v] = work[v]
  BY <1>1 DEF TypeOK
<1>4. /\ r.step = "save" /\ r.seen = registered /\ r.offering = work[w].offering
      /\ r.slot = work[w].slot /\ r.loaded = work[w].loaded /\ r \in Work
  BY DEF TypeOK, Work
<1>5. \A v \in Workers : work[v].step # "save"
  BY <1>1, NoneAssumption DEF LockHeld
<1>6. TypeOK'
  BY <1>1, <1>4 DEF TypeOK
<1>7. LockHeld'
  BY <1>1, <1>2, <1>3, <1>4, <1>5 DEF LockHeld
<1>8. HistoryOfExams'
  BY <1>1, <1>2, <1>3, <1>4 DEF HistoryOfExams
<1>9. SlotIsFree(w)'
  <2> SUFFICES ASSUME NEW p \in Scheduled, p # work[w].offering
               PROVE /\ known[p] \subseteq registered
                     /\ Overlap(exam[p], work[w].slot) =>
                          /\ exam[p].room # work[w].slot.room
                          /\ instructor[p] # instructor[work[w].offering]
                          /\ ~Shared(registered, work[w].offering, p)
    <3>1. /\ work'[w].offering = work[w].offering /\ work'[w].slot = work[w].slot
          /\ work'[w].seen = registered
      BY <1>3, <1>4
    <3> QED
      BY <1>1, <1>2, <3>1 DEF SlotIsFree
  <2>1. known[p] \subseteq registered
    BY DEF HistoryOfExams, Scheduled
  <2> QED
    BY <2>1 DEF Conflict
<1>10. SavesAreFree'
  BY <1>3, <1>5, <1>9 DEF SavesAreFree
<1>11. TimetableIsFree'
  BY <1>1, <1>2 DEF TimetableIsFree, Suit
<1> QED
  BY <1>6, <1>7, <1>8, <1>10, <1>11

\* A request that writes: it is the only one that could, and leaves the lock.
LEMMA WriteStep ==
    ASSUME IInv, NEW w \in Workers, work[w].step = "save", EndTransaction(w),
           NEW o, o = work[w].offering, NEW row \in Slots,
           exam' = [exam EXCEPT ![o] = row], known' = [known EXCEPT ![o] = work[w].seen],
           mixed' \subseteq mixed \cup {o}, mixed \ {o} \subseteq mixed',
           o \notin mixed' => row = work[w].slot /\ mixed' \subseteq mixed,
           UNCHANGED <<instructor, registered>>
    PROVE IInv'
<1> USE DEF IInv
<1>1. o \in Offerings /\ work[w].slot \in Slots /\ holder = w
  BY DEF LockHeld
<1>2. work'[w] = Free /\ holder' = None /\ \A v \in Workers : v # w => work'[v] = work[v]
  BY <1>1 DEF TypeOK, EndTransaction
<1>3. \A v \in Workers : work'[v].step # "save"
  BY <1>1, <1>2 DEF LockHeld, Free
<1>4. Scheduled' = Scheduled \cup {o}
  BY <1>1, NoSlotIsNoSlot DEF Scheduled, TypeOK
<1>5. TypeOK'
  <2>1. work' \in [Workers -> Work] /\ holder' \in Workers \cup {None}
    BY <1>2 DEF TypeOK, EndTransaction, Free, Work
  <2>2. work[w].seen \subseteq Students \X Offerings
    BY DEF TypeOK, Work
  <2>3. exam' \in [Offerings -> Slots \cup {NoSlot}]
    BY DEF TypeOK
  <2>4. known' \in [Offerings -> SUBSET (Students \X Offerings)]
    BY <2>2 DEF TypeOK
  <2>5. mixed' \subseteq Offerings
    BY <1>1 DEF TypeOK
  <2> QED
    BY <2>1, <2>3, <2>4, <2>5 DEF TypeOK
<1>6. LockHeld'
  BY <1>2, <1>3, <1>4 DEF LockHeld, Free
<1>7. HistoryOfExams'
  <2>1. known'[o] = work[w].seen /\ \A p \in Offerings : p # o => known'[p] = known[p]
    BY <1>1 DEF TypeOK
  <2> QED
    BY <1>2, <1>4, <2>1 DEF HistoryOfExams, Free
<1>8. SavesAreFree'
  BY <1>3 DEF SavesAreFree
<1>9. TimetableIsFree'
  <2>1. CASE o \notin mixed'
    BY <2>1, CheckedSlotFits
  <2>2. CASE o \in mixed'
    <3>1. ASSUME NEW p \in Scheduled' \ mixed'
          PROVE /\ p \in Scheduled \ mixed
                /\ exam'[p] = exam[p] /\ known'[p] = known[p]
      BY <2>2, <3>1, <1>1, <1>4 DEF TypeOK, Scheduled
    <3> QED
      BY <3>1 DEF TimetableIsFree, Suit
  <2> QED
    BY <2>1, <2>2
<1> QED
  BY <1>5, <1>6, <1>7, <1>8, <1>9

LEMMA IInvStep == IInv /\ [Next]_vars => IInv'
<1> SUFFICES ASSUME IInv, [Next]_vars PROVE IInv'
  OBVIOUS
<1> USE DEF IInv
<1>1. ASSUME NEW s \in Students, NEW o \in Offerings, Register(s, o) PROVE IInv'
  BY <1>1, RegisterStep
<1>2. ASSUME NEW w \in Workers, Ask(w) PROVE IInv'
  <2>1. PICK o \in Offerings, room \in Rooms, t \in Times :
          AskSchedule(w, o, room, t) \/ AskReschedule(w, o, room, t)
    BY <1>2 DEF Ask
  <2>2. [room |-> room, from |-> t[1], to |-> t[2]] \in Slots
    BY TimesAssumption DEF Slots
  <2>3. CASE AskSchedule(w, o, room, t)
    <3> DEFINE r == [Free EXCEPT !.step = "check", !.offering = o,
                         !.slot = [room |-> room, from |-> t[1], to |-> t[2]]]
    <3>1. /\ r \in Work /\ r.step = "check" /\ r.seen = {} /\ r.offering = o
          /\ r.slot \in Slots /\ r.loaded = NoSlot
      BY <2>2 DEF Free, Work
    <3>2. work[w].step # "save"
      BY <2>3 DEF AskSchedule, Free
    <3> QED
      BY <2>3, <3>1, <3>2, RequestStep DEF AskSchedule
  <2>4. CASE AskReschedule(w, o, room, t)
    <3> DEFINE r == [Free EXCEPT !.step = "check", !.offering = o,
                         !.slot = [room |-> room, from |-> t[1], to |-> t[2]],
                         !.loaded = exam[o]]
    <3>1. exam[o] \in Slots \cup {NoSlot}
      BY DEF TypeOK
    <3>2. /\ r \in Work /\ r.step = "check" /\ r.seen = {} /\ r.offering = o
          /\ r.slot \in Slots
      BY <2>2, <3>1 DEF Free, Work
    <3>3. work[w].step # "save" /\ o \in Scheduled
      BY <2>4 DEF AskReschedule, Free
    <3> QED
      BY <2>4, <3>2, <3>3, RequestStep DEF AskReschedule
  <2> QED
    BY <2>1, <2>3, <2>4
<1> DEFINE Freed == /\ Free \in Work /\ Free.step = "idle" /\ Free.seen = {}
<1>3. Freed
  BY DEF Free, Work
<1>4. ASSUME NEW w \in Workers, Check(w) PROVE IInv'
  <2>1. CASE Conflict(w)
    <3>1. /\ work' = [work EXCEPT ![w] = Free] /\ work[w].step # "save"
          /\ UNCHANGED <<holder, instructor, exam, registered, known, mixed>>
      BY <1>4, <2>1 DEF Check
    <3> QED
      BY <1>3, <3>1, RequestStep
  <2>2. CASE ~Conflict(w)
    BY <1>4, <2>2, CheckedStep
  <2> QED
    BY <2>1, <2>2
<1>5. ASSUME NEW w \in Workers, Insert(w) PROVE IInv'
  <2> DEFINE o == work[w].offering
  <2>1. CASE o \in Scheduled
    <3>1. /\ work' = [work EXCEPT ![w] = Free] /\ holder = w /\ holder' = None
          /\ UNCHANGED <<instructor, exam, registered, known, mixed>>
      BY <1>5, <2>1 DEF Insert, EndTransaction, LockHeld
    <3> QED
      BY <1>3, <3>1, RequestStep
  <2>2. CASE o \notin Scheduled
    <3>1. /\ work[w].step = "save" /\ EndTransaction(w) /\ o \notin mixed
          /\ exam' = [exam EXCEPT ![o] = work[w].slot]
          /\ known' = [known EXCEPT ![o] = work[w].seen]
          /\ UNCHANGED <<instructor, registered, mixed>>
      BY <1>5, <2>2 DEF Insert, HistoryOfExams
    <3>2. work[w].slot \in Slots
      BY <3>1 DEF LockHeld
    <3> QED
      BY <3>1, <3>2, WriteStep
  <2> QED
    BY <2>1, <2>2
<1>6. ASSUME NEW w \in Workers, Update(w) PROVE IInv'
  <2>1. Row(w) \in Slots
    BY <1>6, RowIsSlot DEF Update
  <2>2. /\ mixed' \subseteq mixed \cup {work[w].offering}
        /\ mixed \ {work[w].offering} \subseteq mixed'
        /\ work[w].offering \notin mixed' => Row(w) = work[w].slot /\ mixed' \subseteq mixed
    BY <1>6 DEF Update
  <2> QED
    BY <1>6, <2>1, <2>2, WriteStep DEF Update
<1>7. ASSUME NEW w \in Workers, Crash(w) PROVE IInv'
  <2>1. /\ work' = [work EXCEPT ![w] = Free]
        /\ work[w].step # "save" \/ holder' = None
        /\ holder' = holder \/ (holder = w /\ holder' = None)
        /\ UNCHANGED <<instructor, exam, registered, known, mixed>>
    BY <1>7 DEF Crash, EndTransaction, LockHeld
  <2> QED
    BY <1>3, <2>1, RequestStep
<1>8. CASE UNCHANGED vars
  BY <1>8 DEF vars, TypeOK, LockHeld, HistoryOfExams, SavesAreFree, SlotIsFree,
              TimetableIsFree, Suit, Scheduled
<1> QED
  BY <1>1, <1>2, <1>4, <1>5, <1>6, <1>7, <1>8 DEF Next

LEMMA IInvAlways == Spec => []IInv
  BY InitIInv, IInvStep, PTL DEF Spec

-----------------------------------------------------------------------------
(* Theorems *)

\* Exams with an hour in common are found to overlap.
LEMMA TogetherOverlap ==
    ASSUME TypeOK, NEW o \in Scheduled, NEW p \in Scheduled, Hours(o) \cap Hours(p) # {}
    PROVE Overlap(exam[o], exam[p])
<1>1. exam[o] \in Slots /\ exam[p] \in Slots
  BY DEF TypeOK, Scheduled
<1>2. PICK h : h \in exam[o].from .. (exam[o].to - 1) /\ h \in exam[p].from .. (exam[p].to - 1)
  BY DEF Hours
<1> QED
  BY <1>1, <1>2 DEF Overlap, Slots

\* Every variable keeps its type: above all, what two moves of one exam leave is
\* still a room and two times.
THEOREM TypeCorrect == Spec => []TypeOK
<1>1. IInv => TypeOK
  BY DEF IInv
<1> QED
  BY <1>1, IInvAlways, PTL

\* No two exams at one time share a room or an instructor, however many requests
\* run at the same time and wherever they crash (_lock_term_schedule before
\* _find_conflict, held until the commit).
THEOREM StaffAndRoomsAreFree == Spec => []StaffAndRoomsFree
<1>1. IInv => StaffAndRoomsFree
  BY TogetherOverlap DEF IInv, TimetableIsFree, Suit, StaffAndRoomsFree, Together
<1> QED
  BY <1>1, IInvAlways, PTL

\* The check for students in common is as good as what it read: only a later
\* registration gives a student two exams at one time.
THEOREM StudentsAreFree == Spec => []StudentsCanSit
<1>1. IInv => StudentsCanSit
  BY TogetherOverlap DEF IInv, TimetableIsFree, Suit, StudentsCanSit, Together
<1> QED
  BY <1>1, IInvAlways, PTL
=============================================================================
