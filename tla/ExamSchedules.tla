---------------------------- MODULE ExamSchedules ----------------------------
(***************************************************************************)
(* The exam timetable of one term: exams are scheduled and moved while     *)
(* students go on registering for courses (services/academic/app/routers/  *)
(* exams.py; create_course_registration in courses.py).                    *)
(*                                                                         *)
(* Scheduling holds an advisory lock from its conflict checks to its       *)
(* commit.  Moving an exam loads its row before it waits for that lock,    *)
(* and the ORM writes a column only if it differs from the value loaded    *)
(* then.  An offering has at most one exam, so its exam goes by its name.  *)
(***************************************************************************)
EXTENDS Naturals

CONSTANTS Offerings,    \* course offerings of the term
          Instructors,
          Students,
          Rooms,
          Times,        \* pairs of a start and an end a request may ask for
          Workers,      \* requests handled at the same time
          None

ASSUME TimesAssumption == \A t \in Times : t \in Nat \X Nat /\ t[1] < t[2]
ASSUME NoneAssumption == None \notin Workers \cup Offerings \cup Rooms

VARIABLES
    instructor,    \* course_offerings.instructor_id, never changed
    exam,          \* exam_schedules: room, from and to of an offering's exam
    registered,    \* course_registrations: pairs of a student and an offering
    holder,        \* who holds pg_advisory_xact_lock for the term
    work,          \* per worker: the request it serves
    known,         \* history, per exam: the registrations its check has seen
    mixed          \* history: exams whose row is not the slot last checked

vars == <<instructor, exam, registered, holder, work, known, mixed>>

Slots == [room : Rooms, from : Nat, to : Nat]
NoSlot == [room |-> None, from |-> 0, to |-> 0]

\* loaded: the exam as the request found it, NoSlot for a new one; seen: the
\* registrations the request has checked against.
Free == [step |-> "idle", offering |-> None, slot |-> NoSlot, loaded |-> NoSlot,
         seen |-> {}]

Work == [step : {"idle", "check", "save"}, offering : Offerings \cup {None},
         slot : Slots \cup {NoSlot}, loaded : Slots \cup {NoSlot},
         seen : SUBSET (Students \X Offerings)]

TypeOK ==
    /\ instructor \in [Offerings -> Instructors]
    /\ exam \in [Offerings -> Slots \cup {NoSlot}]
    /\ registered \subseteq Students \X Offerings
    /\ holder \in Workers \cup {None}
    /\ work \in [Workers -> Work]
    /\ known \in [Offerings -> SUBSET (Students \X Offerings)]
    /\ mixed \subseteq Offerings

Init ==
    /\ instructor \in [Offerings -> Instructors]
    /\ exam = [o \in Offerings |-> NoSlot]
    /\ registered = {}
    /\ holder = None
    /\ work = [w \in Workers |-> Free]
    /\ known = [o \in Offerings |-> {}]
    /\ mixed = {}

Scheduled == {o \in Offerings : exam[o] # NoSlot}

\* Exams that only touch do not overlap.
Overlap(a, b) == a.from < b.to /\ a.to > b.from

\* A student is registered for both offerings.
Shared(regs, o, p) == \E s \in Students : <<s, o>> \in regs /\ <<s, p>> \in regs

-----------------------------------------------------------------------------
\* create_course_registration: one insert, the unique constraint behind it.  It
\* does not look at exams; which offerings a student may take is left open.
Register(s, o) ==
    /\ <<s, o>> \notin registered
    /\ registered' = registered \cup {<<s, o>>}
    /\ UNCHANGED <<instructor, exam, holder, work, known, mixed>>

\* POST /exam-schedules: a request for a new exam.
AskSchedule(w, o, room, t) ==
    /\ work[w] = Free
    /\ work' = [work EXCEPT ![w] = [Free EXCEPT !.step = "check", !.offering = o,
                    !.slot = [room |-> room, from |-> t[1], to |-> t[2]]]]
    /\ UNCHANGED <<instructor, exam, registered, holder, known, mixed>>

\* PUT /exam-schedules/{id} loads the exam, before the lock.
AskReschedule(w, o, room, t) ==
    /\ work[w] = Free
    /\ o \in Scheduled
    /\ work' = [work EXCEPT ![w] = [Free EXCEPT !.step = "check", !.offering = o,
                    !.slot = [room |-> room, from |-> t[1], to |-> t[2]],
                    !.loaded = exam[o]]]
    /\ UNCHANGED <<instructor, exam, registered, holder, known, mixed>>

\* Variant: students are not looked at.
ConflictOfStaff(w) ==
    LET o == work[w].offering IN
    \E p \in Scheduled :
        /\ work[w].loaded # NoSlot => p # o
        /\ Overlap(exam[p], work[w].slot)
        /\ exam[p].room = work[w].slot.room \/ instructor[p] = instructor[o]

\* _find_conflict: another exam (for a new one: any) at the time in the room, of
\* the instructor, or with a student in common.
Conflict(w) ==
    LET o == work[w].offering IN
    \E p \in Scheduled :
        /\ work[w].loaded # NoSlot => p # o
        /\ Overlap(exam[p], work[w].slot)
        /\ \/ exam[p].room = work[w].slot.room
           \/ instructor[p] = instructor[o]
           \/ Shared(registered, o, p)

\* Variant: without _lock_term_schedule.
CheckUnlocked(w) ==
    /\ work[w].step = "check"
    /\ work' = [work EXCEPT ![w] = IF Conflict(w) THEN Free
                                   ELSE [@ EXCEPT !.step = "save", !.seen = registered]]
    /\ UNCHANGED <<instructor, exam, registered, holder, known, mixed>>

\* The advisory lock is waited for, then the checks (the lock keeps the exams as
\* they are from the first query to the last, and only the last one reads
\* registrations); a conflict is a 409 and ends the transaction.
Check(w) ==
    /\ work[w].step = "check"
    /\ holder = None
    /\ IF Conflict(w)
       THEN /\ work' = [work EXCEPT ![w] = Free]
            /\ UNCHANGED holder
       ELSE /\ work' = [work EXCEPT ![w] = [@ EXCEPT !.step = "save", !.seen = registered]]
            /\ holder' = w
    /\ UNCHANGED <<instructor, exam, registered, known, mixed>>

EndTransaction(w) ==
    /\ work' = [work EXCEPT ![w] = Free]
    /\ holder' = IF holder = w THEN None ELSE holder

\* The insert of a new exam; uq_exam_schedules_course_offering refuses a second
\* one for the offering (409).
Insert(w) ==
    LET o == work[w].offering IN
    /\ work[w].step = "save" /\ work[w].loaded = NoSlot
    /\ IF o \in Scheduled THEN UNCHANGED <<exam, known>>
       ELSE /\ exam' = [exam EXCEPT ![o] = work[w].slot]
            /\ known' = [known EXCEPT ![o] = work[w].seen]
    /\ EndTransaction(w)
    /\ UNCHANGED <<instructor, registered, mixed>>

\* A column is written if the new value is not the one that was loaded.
Column(new, loaded, row) == IF new = loaded THEN row ELSE new

\* The row that reschedule_exam leaves: mixed if it is not the slot it checked.
Row(w) ==
    LET new == work[w].slot
        old == work[w].loaded
        row == exam[work[w].offering]
    IN [room |-> Column(new.room, old.room, row.room),
        from |-> Column(new.from, old.from, row.from),
        to |-> Column(new.to, old.to, row.to)]

Update(w) ==
    LET o == work[w].offering IN
    /\ work[w].step = "save" /\ work[w].loaded # NoSlot
    /\ exam' = [exam EXCEPT ![o] = Row(w)]
    /\ known' = [known EXCEPT ![o] = work[w].seen]
    /\ mixed' = IF Row(w) = work[w].slot THEN mixed \ {o} ELSE mixed \cup {o}
    /\ EndTransaction(w)
    /\ UNCHANGED <<instructor, registered>>

\* A process dies or a client disconnects: the lock goes with the transaction.
Crash(w) ==
    /\ work[w] # Free
    /\ EndTransaction(w)
    /\ UNCHANGED <<instructor, exam, registered, known, mixed>>

Ask(w) ==
    \E o \in Offerings, room \in Rooms, t \in Times :
        AskSchedule(w, o, room, t) \/ AskReschedule(w, o, room, t)

Next ==
    \/ \E s \in Students, o \in Offerings : Register(s, o)
    \/ \E w \in Workers : Ask(w) \/ Check(w) \/ Insert(w) \/ Update(w) \/ Crash(w)

Spec == Init /\ [][Next]_vars

-----------------------------------------------------------------------------
(* Properties *)

\* The hours of an exam, and the pairs of exams of a set with an hour in common.
Hours(o) == exam[o].from .. (exam[o].to - 1)
Together(exams) == {pair \in exams \X exams :
                        pair[1] # pair[2] /\ Hours(pair[1]) \cap Hours(pair[2]) # {}}

\* Two exams at the same time are in different rooms and have different
\* instructors (_lock_term_schedule and _find_conflict), unless two moves of one
\* exam left a row that is the slot of neither.
StaffAndRoomsFree ==
    \A pair \in Together(Scheduled \ mixed) :
        /\ exam[pair[1]].room # exam[pair[2]].room
        /\ instructor[pair[1]] # instructor[pair[2]]

\* Nobody has two exams at the same time, except a student who registered after
\* the later of the two checks: registration does not look at the timetable.
\* (known grows from check to check, so the union is what the later one saw.)
StudentsCanSit ==
    \A pair \in Together(Scheduled \ mixed) :
        ~Shared(known[pair[1]] \cup known[pair[2]], pair[1], pair[2])

\* A room is never used by two exams at the same time (the conflict checks are
\* serialised so that overlapping requests cannot both pass them).
RoomsFree == \A pair \in Together(Scheduled) : exam[pair[1]].room # exam[pair[2]].room
=============================================================================
