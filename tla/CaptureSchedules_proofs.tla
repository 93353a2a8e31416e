------------------------ MODULE CaptureSchedules_proofs ------------------------
(***************************************************************************)
(* Proofs about CaptureSchedules: that its safety properties hold for any  *)
(* number of schedules, devices and runs, however the runs overlap and     *)
(* whatever operators edit or delete meanwhile.                            *)
(***************************************************************************)
EXTENDS CaptureSchedules, FiniteSetTheorems, TLAPS

(***************************************************************************)
(* Type correctness.                                                       *)
(***************************************************************************)
RunStates == {"idle", "loop", "matched", "enqueue", "stamp", "done", "failed", "crashed"}

Copies == UNION {[listed -> SUBSET Devices] : listed \in SUBSET Schedules}

Locals == [pc: RunStates, recurring: BOOLEAN, fetched: Copies, todo: SUBSET Schedules,
           hand: Schedules \cup {NoSchedule}, batch: Batches \cup {NoBatch},
           dispatched: Nat, skipped: SUBSET Schedules]

Columns == [filter: SUBSET Devices, enabled: BOOLEAN, last: {Blank} \cup Runs, next: Nat]

Origins == [run: Runs, schedule: Schedules \cup {NoSchedule}]

DispatchTypeOK ==
  /\ devices \subseteq Devices
  /\ asked \in [Batches -> [Devices -> Nat]]
  /\ web \in [Batches -> WebStates]
  /\ schedules \subseteq Schedules
  /\ schedule \in [Schedules -> Columns]
  /\ edit \in [Schedules -> Columns \cup {NoEdit}]
  /\ clock \in 0..MaxRuns
  /\ dispatcher \in [Runs -> Locals]
  /\ origin \in [Batches -> Origins \cup {NoBatch}]

LEMMA CopiesAre ==
  /\ \A f \in Copies : DOMAIN f \subseteq Schedules /\ \A s \in DOMAIN f : f[s] \subseteq Devices
  /\ \A listed \in SUBSET Schedules : [listed -> SUBSET Devices] \subseteq Copies
BY DEF Copies

LEMMA DispatchTypeInit == Init => DispatchTypeOK
<1> SUFFICES ASSUME Init PROVE DispatchTypeOK
  OBVIOUS
<1> USE ScheduleAssumption, BatchAssumption DEF Init, BatchInit, ScheduleInit
<1>1. [s \in {} |-> {}] \in Copies
  <2>1. [s \in {} |-> {}] \in [{} -> SUBSET Devices]
    OBVIOUS
  <2> QED
    BY <2>1, CopiesAre
<1>2. dispatcher \in [Runs -> Locals]
  BY <1>1 DEF Locals, RunStates
<1>3. schedule \in [Schedules -> Columns]
  BY DEF ScheduleRow, Columns, Blank, Runs
<1>4. asked \in [Batches -> [Devices -> Nat]] /\ web \in [Batches -> WebStates]
  BY DEF Nothing, WebStates
<1>5. /\ devices \subseteq Devices /\ schedules \subseteq Schedules
      /\ edit \in [Schedules -> Columns \cup {NoEdit}]
      /\ origin \in [Batches -> Origins \cup {NoBatch}]
  OBVIOUS
<1>6. clock \in 0..MaxRuns
  OBVIOUS
<1> QED
  BY <1>2, <1>3, <1>4, <1>5, <1>6 DEF DispatchTypeOK

\* What an assignment to the locals of a run does.
LEMMA Became ==
  ASSUME DispatchTypeOK, NEW r \in Runs, NEW locals, Become(r, locals)
  PROVE  /\ dispatcher'[r] = locals
         /\ \A q \in Runs \ {r} : dispatcher'[q] = dispatcher[q]
         /\ locals \in Locals => dispatcher' \in [Runs -> Locals]
BY DEF DispatchTypeOK, Become

\* A run that starts is the next one, and fetches what is enabled.
LEMMA Started ==
  ASSUME DispatchTypeOK, NEW recurring \in BOOLEAN, StartRun(recurring)
  PROVE  /\ clock + 1 \in Runs /\ clock' = clock + 1
         /\ dispatcher'[clock + 1] \in Locals
         /\ dispatcher'[clock + 1].pc = "loop"
         /\ dispatcher'[clock + 1].todo = DOMAIN dispatcher'[clock + 1].fetched
         /\ dispatcher'[clock + 1].skipped = dispatcher[clock + 1].skipped
         /\ dispatcher'[clock + 1].dispatched = dispatcher[clock + 1].dispatched
         /\ \A q \in Runs \ {clock + 1} : dispatcher'[q] = dispatcher[q]
         /\ dispatcher' \in [Runs -> Locals]
<1> DEFINE enabled == {s \in schedules : schedule[s].enabled}
           r == clock + 1
           copies == [s \in enabled |-> schedule[s].filter]
           locals == [dispatcher[r] EXCEPT !.pc = "loop", !.recurring = recurring,
                        !.todo = enabled, !.fetched = copies]
<1>1. r \in Runs /\ clock' = r
  BY ScheduleAssumption DEF StartRun, Runs, DispatchTypeOK
<1>2. Become(r, locals)
  BY DEF StartRun
<1>3. copies \in Copies
  <2>1. enabled \in SUBSET Schedules
    BY DEF DispatchTypeOK
  <2>2. copies \in [enabled -> SUBSET Devices]
    BY DEF DispatchTypeOK, Columns
  <2> QED
    BY <2>1, <2>2, CopiesAre
<1>4. dispatcher[r] \in Locals
  BY <1>1 DEF DispatchTypeOK
<1>5. enabled \subseteq Schedules
  BY DEF DispatchTypeOK
<1> HIDE DEF copies
<1>6. locals \in Locals
  BY <1>3, <1>4, <1>5 DEF Locals, RunStates
<1>7. DOMAIN copies = enabled
  BY DEF copies
<1>8. /\ locals.pc = "loop" /\ locals.todo = enabled /\ locals.fetched = copies
      /\ locals.skipped = dispatcher[r].skipped
      /\ locals.dispatched = dispatcher[r].dispatched
  BY <1>4 DEF Locals
<1> HIDE DEF locals
<1>9. dispatcher'[r] = locals /\ (\A q \in Runs \ {r} : dispatcher'[q] = dispatcher[q])
      /\ dispatcher' \in [Runs -> Locals]
  BY <1>1, <1>2, <1>6, Became
<1> QED
  BY <1>1, <1>6, <1>7, <1>8, <1>9

LEMMA DispatcherTypes ==
  ASSUME DispatchTypeOK, NEW r \in Runs, DispatcherStep(r) \/ CrashRun(r)
  PROVE  DispatchTypeOK'
<1> USE DEF At
<1>0. dispatcher[r] \in Locals
  BY DEF DispatchTypeOK
<1>2. ASSUME NEW s \in Schedules, TakeSchedule(r, s)
      PROVE  DispatchTypeOK'
  <2> DEFINE skip == [dispatcher[r] EXCEPT !.pc = "stamp", !.hand = s, !.todo = @ \ {s},
                                           !.skipped = @ \cup {s}]
             take == [dispatcher[r] EXCEPT !.pc = "matched", !.hand = s, !.todo = @ \ {s}]
  <2>1. skip \in Locals /\ take \in Locals
    BY <1>0 DEF Locals, RunStates
  <2>2. Become(r, skip) \/ Become(r, take)
    BY <1>2 DEF TakeSchedule
  <2> HIDE DEF skip, take
  <2>3. dispatcher' \in [Runs -> Locals]
    BY <2>1, <2>2, Became
  <2> QED
    BY <1>2, <2>3 DEF TakeSchedule, DispatchTypeOK, batchVars
<1>3. ASSUME NEW b \in Batches, Dispatch(r, b)
      PROVE  DispatchTypeOK'
  <2>1. dispatcher' \in [Runs -> Locals]
    BY <1>0, <1>3, Became DEF Dispatch, Locals, RunStates
  <2>2. Returned(Matched(r, dispatcher[r].hand)) \subseteq [Devices -> Nat]
    BY BatchAssumption DEF Returned
  <2>3. asked' \in [Batches -> [Devices -> Nat]] /\ web' \in [Batches -> WebStates]
    BY <1>3, <2>2 DEF Dispatch, CreateBatchJob, DispatchTypeOK, WebStates
  <2>4. origin' \in [Batches -> Origins \cup {NoBatch}]
    BY <1>0, <1>3 DEF Dispatch, DispatchTypeOK, Origins, Locals
  <2> QED
    BY <1>3, <2>1, <2>3, <2>4 DEF Dispatch, CreateBatchJob, DispatchTypeOK
<1>4. CASE EnqueueDispatched(r)
  <2>1. web' \in [Batches -> WebStates] /\ devices' = devices /\ asked' = asked
    BY <1>4 DEF EnqueueDispatched, BatchWebStep, EnqueueBatch, EnqueueBatchFails, LinkBatch,
                DispatchTypeOK, WebStates
  <2> QED
    BY <1>4, <2>1 DEF EnqueueDispatched, DispatchTypeOK, scheduleVars
<1>5. CASE BatchEnqueued(r)
  <2> DEFINE next == [dispatcher[r] EXCEPT !.pc = "stamp", !.dispatched = @ + 1]
  <2>0. dispatcher[r].dispatched + 1 \in Nat
    BY <1>0 DEF Locals
  <2>1. next \in Locals
    BY <1>0, <2>0 DEF Locals, RunStates
  <2>2. Become(r, next)
    BY <1>5 DEF BatchEnqueued
  <2> HIDE DEF next
  <2>3. dispatcher' \in [Runs -> Locals]
    BY <2>1, <2>2, Became
  <2> QED
    BY <1>5, <2>3 DEF BatchEnqueued, DispatchTypeOK, batchVars
<1>6. ASSUME NEW outcome \in RunStates, Over(r, outcome)
      PROVE  dispatcher' \in [Runs -> Locals]
  BY <1>0, <1>6, Became DEF Over, Locals
<1>7. CASE EnqueueRaises(r) \/ StampFails(r) \/ EndRun(r) \/ CrashRun(r)
  <2>1. dispatcher' \in [Runs -> Locals]
    BY <1>6, <1>7 DEF EnqueueRaises, StampFails, EndRun, CrashRun, RunStates
  <2> QED
    BY <1>7, <2>1 DEF EnqueueRaises, StampFails, EndRun, CrashRun, DispatchTypeOK, batchVars
<1>8. CASE Stamp(r)
  <2>1. dispatcher' \in [Runs -> Locals]
    BY <1>0, <1>8, Became DEF Stamp, Locals, RunStates
  <2>2. NextRunAt(r) \in Nat /\ r \in {Blank} \cup Runs
    BY ScheduleAssumption DEF NextRunAt, Blank, Runs
  <2> DEFINE hand == dispatcher[r].hand
             stamped == [schedule[hand] EXCEPT !.last = r, !.next = NextRunAt(r)]
  <2>3. schedule \in [Schedules -> Columns] /\ hand \in Schedules
    BY <1>8 DEF Stamp, DispatchTypeOK
  <2>4. stamped \in Columns
    BY <2>2, <2>3 DEF Columns
  <2>5. schedule' = [schedule EXCEPT ![hand] = stamped]
    BY <1>8, <2>3 DEF Stamp
  <2> HIDE DEF hand, stamped
  <2>6. schedule' \in [Schedules -> Columns]
    BY <2>3, <2>4, <2>5
  <2> QED
    BY <1>8, <2>1, <2>6 DEF Stamp, DispatchTypeOK, batchVars
<1> QED
  BY <1>2, <1>3, <1>4, <1>5, <1>7, <1>8 DEF DispatcherStep

LEMMA DispatchTypeStep == DispatchTypeOK /\ [Next]_vars => DispatchTypeOK'
<1> SUFFICES ASSUME DispatchTypeOK, [Next]_vars PROVE DispatchTypeOK'
  OBVIOUS
<1>1. ASSUME NEW recurring \in BOOLEAN, StartRun(recurring)
      PROVE  DispatchTypeOK'
  <2>1. dispatcher' \in [Runs -> Locals] /\ clock' \in Runs
    BY <1>1, Started
  <2>2. Runs \subseteq 0..MaxRuns
    BY ScheduleAssumption DEF Runs
  <2> QED
    BY <1>1, <2>1, <2>2 DEF StartRun, DispatchTypeOK, batchVars
<1>2. ASSUME NEW r \in Runs, DispatcherStep(r) \/ CrashRun(r)
      PROVE  DispatchTypeOK'
  BY <1>2, DispatcherTypes
<1>3. ASSUME NEW s \in Schedules, OpenEdit(s) \/ DeleteSchedule(s)
      PROVE  DispatchTypeOK'
  BY <1>3 DEF OpenEdit, DeleteSchedule, DispatchTypeOK, batchVars
<1>4. ASSUME NEW s \in Schedules, NEW filter \in SUBSET Devices, NEW enabled \in BOOLEAN,
             SaveEdit(s, filter, enabled)
      PROVE  DispatchTypeOK'
  <2>1. edit[s] \in Columns
    BY <1>4 DEF SaveEdit, DispatchTypeOK
  <2>2. [edit[s] EXCEPT !.filter = filter, !.enabled = enabled] \in Columns
    BY <2>1 DEF Columns
  <2>3. schedule' \in [Schedules -> Columns] /\ edit' \in [Schedules -> Columns \cup {NoEdit}]
    BY <1>4, <2>2 DEF SaveEdit, DispatchTypeOK
  <2> QED
    BY <1>4, <2>3 DEF SaveEdit, DispatchTypeOK, batchVars
<1>5. CASE DevicesGo
  BY <1>5 DEF DevicesGo, DeleteDevice, DispatchTypeOK, scheduleVars
<1>6. CASE UNCHANGED vars
  BY <1>6 DEF vars, batchVars, scheduleVars, DispatchTypeOK
<1> QED
  BY <1>1, <1>2, <1>3, <1>4, <1>5, <1>6 DEF Next, OperatorStep

\* Every variable of the dispatcher and of the batches it reads keeps its type.
THEOREM DispatchTypeCorrect == Spec => []DispatchTypeOK
<1>1. Init => DispatchTypeOK
  BY DispatchTypeInit
<1>2. DispatchTypeOK /\ [Next]_vars => DispatchTypeOK'
  BY DispatchTypeStep
<1> QED
  BY <1>1, <1>2, PTL DEF Spec
-----------------------------------------------------------------------------
(***************************************************************************)
(* The inductive invariant.  What a run has still to do is in its locals,  *)
(* what it has done is in the batches: the invariant keeps the two apart   *)
(* at every statement of the loop.                                         *)
(***************************************************************************)
IsOf(b, r, s) == origin[b] = [run |-> r, schedule |-> s]

\* The schedules that run r has enqueued a batch for.
Sent(r) == {s \in Schedules : \E b \in Batches : IsOf(b, r, s)}

\* What a stamp of run r on schedule s says.
Real(r, s) ==
  \/ s \in dispatcher[r].skipped
  \/ \E b \in Batches : IsOf(b, r, s) /\ web[b] = "linked"

InHandStates == {"matched", "enqueue", "stamp"}

RunInv(r) ==
  LET l == dispatcher[r]
  IN  /\ l.pc = "idle" <=> r > clock
      /\ l.pc = "idle" => l.skipped = {} /\ l.dispatched = 0
      /\ l.todo \subseteq Listed(r)
      /\ l.skipped \subseteq Listed(r) \ l.todo
      /\ l.pc \in InHandStates => l.hand \in Listed(r) \ l.todo
      /\ l.pc \in {"matched", "enqueue"} => l.hand \notin l.skipped
      /\ l.pc = "enqueue" => l.batch \in Batches /\ IsOf(l.batch, r, l.hand)
      /\ l.pc = "stamp" => Real(r, l.hand)

\* Every schedule fetched is to do, in hand, skipped or sent.
CoverInv(r) ==
  LET l == dispatcher[r]
  IN  /\ l.pc \in {"loop", "enqueue", "stamp", "done"} =>
           Listed(r) \subseteq l.todo \cup l.skipped \cup Sent(r)
      /\ l.pc = "matched" => Listed(r) \subseteq l.todo \cup l.skipped \cup Sent(r) \cup {l.hand}
      /\ l.pc = "done" => l.todo = {}

\* The counter is one behind while a batch is being enqueued.
CountInv(r) ==
  /\ IsFiniteSet(Sent(r))
  /\ dispatcher[r].pc \in {"idle", "loop", "matched", "stamp", "done"} =>
       dispatcher[r].dispatched = Cardinality(Sent(r))
  /\ dispatcher[r].pc = "enqueue" => dispatcher[r].dispatched + 1 = Cardinality(Sent(r))

\* A batch belongs to a run that has started, and to a schedule that the run
\* has dealt with.
BatchInv(b) ==
  origin[b] # NoBatch =>
    LET r == origin[b].run
        s == origin[b].schedule
    IN  /\ r <= clock
        /\ s \in Listed(r) \ (dispatcher[r].todo \cup dispatcher[r].skipped)
        /\ dispatcher[r].pc = "matched" => s # dispatcher[r].hand
        /\ web[b] # "idle"
        /\ \A d \in Devices : asked[b][d] > 0 => d \in dispatcher[r].fetched[s]

OriginsDiffer ==
  \A b, c \in Batches : origin[b] # NoBatch /\ origin[b] = origin[c] => b = c

\* A stamp is real in the row, and in the copy an edit form will save.
StampInv(s) ==
  /\ schedule[s].last # Blank => Real(schedule[s].last, s)
  /\ edit[s] # NoEdit /\ edit[s].last # Blank => Real(edit[s].last, s)

DispatchInv ==
  /\ \A r \in Runs : RunInv(r) /\ CoverInv(r) /\ CountInv(r)
  /\ \A b \in Batches : BatchInv(b)
  /\ OriginsDiffer
  /\ \A s \in Schedules : StampInv(s)

LEMMA DispatchInvInit == Init => DispatchInv
<1> SUFFICES ASSUME Init PROVE DispatchInv
  OBVIOUS
<1> USE ScheduleAssumption DEF Init, ScheduleInit
<1>1. \A b \in Batches, r \in Runs, s \in Schedules :
        ~IsOf(b, r, s) \/ NoBatch = [run |-> r, schedule |-> s]
  BY DEF IsOf
<1>2. \A r \in Runs, s \in Schedules : NoBatch # [run |-> r, schedule |-> s]
  BY DEF Runs
<1>3. \A r \in Runs : Sent(r) = {}
  BY <1>1, <1>2 DEF Sent
<1>4. ASSUME NEW r \in Runs
      PROVE  RunInv(r) /\ CoverInv(r) /\ CountInv(r)
  <2>1. dispatcher[r].pc = "idle" /\ dispatcher[r].skipped = {} /\ dispatcher[r].todo = {}
        /\ dispatcher[r].dispatched = 0
    OBVIOUS
  <2>2. r > clock
    BY DEF Runs
  <2>3. CountInv(r)
    BY <1>3, <2>1, FS_EmptySet DEF CountInv
  <2> QED
    BY <2>1, <2>2, <2>3 DEF RunInv, CoverInv, InHandStates
<1>5. \A b \in Batches : origin[b] = NoBatch
  OBVIOUS
<1>6. \A s \in Schedules : StampInv(s)
  BY DEF StampInv, ScheduleRow
<1> QED
  BY <1>4, <1>5, <1>6 DEF DispatchInv, BatchInv, OriginsDiffer

\* A step of run r on its own locals, by which it gives up no schedule it has
\* done and takes up none.
Quiet(r) ==
  /\ UNCHANGED <<web, asked, origin, clock>>
  /\ \A q \in Runs \ {r} : dispatcher'[q] = dispatcher[q]
  /\ dispatcher[r].pc # "idle" /\ dispatcher'[r].pc # "idle"
  /\ dispatcher'[r].fetched = dispatcher[r].fetched
  /\ dispatcher'[r].todo \subseteq dispatcher[r].todo
  /\ dispatcher[r].skipped \subseteq dispatcher'[r].skipped
  /\ dispatcher'[r].skipped \cap Sent(r) = {}
  /\ dispatcher'[r].pc = "matched" => dispatcher'[r].hand \notin Sent(r)

\* A batch that was enqueued is one of those sent.
LEMMA OriginIsSent ==
  ASSUME DispatchTypeOK, DispatchInv, NEW b \in Batches, origin[b] # NoBatch
  PROVE  /\ origin[b].run \in Runs /\ origin[b].schedule \in Schedules
         /\ IsOf(b, origin[b].run, origin[b].schedule)
         /\ origin[b].schedule \in Sent(origin[b].run)
<1>1. origin[b] \in Origins
  BY DEF DispatchTypeOK
<1>2. dispatcher[origin[b].run] \in Locals
  BY <1>1 DEF DispatchTypeOK, Origins
<1>3. dispatcher[origin[b].run].fetched \in Copies
  BY <1>2 DEF Locals
<1>4. origin[b].schedule \in Listed(origin[b].run)
  BY DEF DispatchInv, BatchInv
<1>5. origin[b].schedule \in Schedules
  BY <1>3, <1>4, CopiesAre DEF Listed
<1> QED
  BY <1>1, <1>5 DEF Origins, IsOf, Sent

\* And the other way round.
LEMMA SentHasOrigin ==
  ASSUME NEW b \in Batches, NEW r \in Runs, NEW s \in Schedules, IsOf(b, r, s)
  PROVE  origin[b] # NoBatch /\ origin[b].run = r /\ origin[b].schedule = s
BY ScheduleAssumption DEF IsOf, Runs

\* No schedule is both sent and still to do, skipped, or not fetched.
LEMMA SentIsDone ==
  ASSUME DispatchTypeOK, DispatchInv, NEW r \in Runs
  PROVE  /\ Sent(r) \subseteq Listed(r) \ (dispatcher[r].todo \cup dispatcher[r].skipped)
         /\ dispatcher[r].pc = "matched" => dispatcher[r].hand \notin Sent(r)
BY SentHasOrigin DEF Sent, DispatchInv, BatchInv

LEMMA QuietKeeps ==
  ASSUME DispatchTypeOK, DispatchInv, NEW r \in Runs, Quiet(r)
  PROVE  /\ \A q \in Runs \ {r} : RunInv(q)' /\ CoverInv(q)' /\ CountInv(q)'
         /\ \A b \in Batches : BatchInv(b)'
         /\ OriginsDiffer'
         /\ \A q \in Runs : Sent(q)' = Sent(q)
         /\ \A q \in Runs, s \in Schedules : Real(q, s) => Real(q, s)'
<1>1. \A q \in Runs : Sent(q)' = Sent(q)
  BY DEF Quiet, Sent, IsOf
<1>2. \A q \in Runs : \A s : Real(q, s) => Real(q, s)'
  BY DEF Quiet, Real, IsOf
<1>3. OriginsDiffer'
  BY DEF Quiet, DispatchInv, OriginsDiffer
<1>4. ASSUME NEW q \in Runs \ {r}
      PROVE  RunInv(q)' /\ CoverInv(q)' /\ CountInv(q)'
  <2>1. dispatcher'[q] = dispatcher[q] /\ Listed(q)' = Listed(q) /\ clock' = clock
        /\ \A b, s : IsOf(b, q, s)' = IsOf(b, q, s)
    BY DEF Quiet, Listed, IsOf
  <2>2. RunInv(q) /\ CoverInv(q) /\ CountInv(q)
    BY DEF DispatchInv
  <2>3. RunInv(q)'
    BY <1>2, <2>1, <2>2 DEF RunInv
  <2> QED
    BY <1>1, <2>1, <2>2, <2>3 DEF CoverInv, CountInv
<1>5. ASSUME NEW b \in Batches, origin[b] # NoBatch
      PROVE  BatchInv(b)'
  <2>1. BatchInv(b)
    BY DEF DispatchInv
  <2>2. CASE origin[b].run = r
    <3>1. origin[b].schedule \in Sent(r)
      BY <1>5, <2>2, OriginIsSent
    <3> QED
      BY <1>5, <2>1, <2>2, <3>1 DEF BatchInv, Quiet, Listed
  <2>3. CASE origin[b].run # r
    <3>1. origin[b].run \in Runs \ {r}
      BY <1>5, <2>3, OriginIsSent
    <3> QED
      BY <1>5, <2>1, <3>1 DEF BatchInv, Quiet, Listed
  <2> QED
    BY <2>2, <2>3
<1>6. \A b \in Batches : BatchInv(b)'
  BY <1>5 DEF BatchInv, Quiet
<1> QED
  BY <1>1, <1>2, <1>3, <1>4, <1>6

\* What run r knows of itself, whatever step it takes.
LEMMA RunFacts ==
  ASSUME DispatchTypeOK, DispatchInv, NEW r \in Runs
  PROVE  /\ dispatcher[r] \in Locals
         /\ Listed(r) \subseteq Schedules
         /\ RunInv(r) /\ CoverInv(r) /\ CountInv(r)
<1>1. dispatcher[r] \in Locals /\ dispatcher[r].fetched \in Copies
  BY DEF DispatchTypeOK, Locals
<1> QED
  BY <1>1, CopiesAre DEF DispatchInv, Listed

LEMMA TakeScheduleKeeps ==
  ASSUME DispatchTypeOK, DispatchInv, NEW r \in Runs, NEW s \in Schedules, TakeSchedule(r, s)
  PROVE  Quiet(r) /\ RunInv(r)' /\ CoverInv(r)' /\ CountInv(r)'
<1> DEFINE skip == [dispatcher[r] EXCEPT !.pc = "stamp", !.hand = s, !.todo = @ \ {s},
                                         !.skipped = @ \cup {s}]
           take == [dispatcher[r] EXCEPT !.pc = "matched", !.hand = s, !.todo = @ \ {s}]
<1>1. dispatcher[r] \in Locals /\ dispatcher[r].pc = "loop" /\ s \in dispatcher[r].todo
  BY RunFacts DEF TakeSchedule, IsNext, At
<1>2. RunInv(r) /\ CoverInv(r) /\ CountInv(r) /\ s \in Listed(r)
  BY <1>1, RunFacts DEF RunInv
<1>3. s \notin Sent(r) /\ Sent(r) \cap dispatcher[r].skipped = {}
  BY <1>1, SentIsDone
<1>4. UNCHANGED <<web, asked, origin, clock>>
  BY DEF TakeSchedule, batchVars
<1>5. CASE Become(r, skip)
  <2>1. /\ skip.pc = "stamp" /\ skip.hand = s /\ skip.fetched = dispatcher[r].fetched
        /\ skip.todo = dispatcher[r].todo \ {s}
        /\ skip.skipped = dispatcher[r].skipped \cup {s}
        /\ skip.dispatched = dispatcher[r].dispatched
    BY <1>1 DEF Locals
  <2> HIDE DEF skip
  <2>2. dispatcher'[r] = skip /\ \A q \in Runs \ {r} : dispatcher'[q] = dispatcher[q]
    BY <1>5, Became
  <2>3. Quiet(r)
    BY <1>1, <1>3, <1>4, <2>1, <2>2 DEF Quiet
  <2>4. Listed(r)' = Listed(r) /\ Sent(r)' = Sent(r)
    BY <2>1, <2>2, <2>3, QuietKeeps DEF Listed
  <2>5. RunInv(r)'
    BY <1>1, <1>2, <1>4, <2>1, <2>2, <2>4 DEF RunInv, Real
  <2> QED
    BY <1>1, <1>2, <2>1, <2>2, <2>3, <2>4, <2>5 DEF CoverInv, CountInv
<1>6. CASE Become(r, take)
  <2>1. /\ take.pc = "matched" /\ take.hand = s /\ take.fetched = dispatcher[r].fetched
        /\ take.todo = dispatcher[r].todo \ {s}
        /\ take.skipped = dispatcher[r].skipped
        /\ take.dispatched = dispatcher[r].dispatched
    BY <1>1 DEF Locals
  <2> HIDE DEF take
  <2>2. dispatcher'[r] = take /\ \A q \in Runs \ {r} : dispatcher'[q] = dispatcher[q]
    BY <1>6, Became
  <2>3. Quiet(r)
    BY <1>1, <1>3, <1>4, <2>1, <2>2 DEF Quiet
  <2>4. Listed(r)' = Listed(r) /\ Sent(r)' = Sent(r)
    BY <2>1, <2>2, <2>3, QuietKeeps DEF Listed
  <2>5. RunInv(r)'
    BY <1>1, <1>2, <1>4, <2>1, <2>2, <2>4 DEF RunInv, InHandStates
  <2> QED
    BY <1>1, <1>2, <2>1, <2>2, <2>3, <2>4, <2>5 DEF CoverInv, CountInv
<1> QED
  BY <1>5, <1>6 DEF TakeSchedule

LEMMA BatchEnqueuedKeeps ==
  ASSUME DispatchTypeOK, DispatchInv, NEW r \in Runs, BatchEnqueued(r)
  PROVE  Quiet(r) /\ RunInv(r)' /\ CoverInv(r)' /\ CountInv(r)'
<1> DEFINE next == [dispatcher[r] EXCEPT !.pc = "stamp", !.dispatched = @ + 1]
<1>1. dispatcher[r] \in Locals /\ dispatcher[r].pc = "enqueue"
      /\ web[dispatcher[r].batch] = "linked" /\ UNCHANGED <<web, asked, origin, clock>>
  BY RunFacts DEF BatchEnqueued, At, batchVars
<1>2. RunInv(r) /\ CoverInv(r) /\ CountInv(r)
  BY RunFacts
<1>3. Sent(r) \cap dispatcher[r].skipped = {}
  BY SentIsDone
<1>4. /\ next.pc = "stamp" /\ next.hand = dispatcher[r].hand
      /\ next.fetched = dispatcher[r].fetched
      /\ next.todo = dispatcher[r].todo
      /\ next.skipped = dispatcher[r].skipped
      /\ next.dispatched = dispatcher[r].dispatched + 1
  BY <1>1 DEF Locals
<1>5. Become(r, next)
  BY DEF BatchEnqueued
<1> HIDE DEF next
<1>6. dispatcher'[r] = next /\ \A q \in Runs \ {r} : dispatcher'[q] = dispatcher[q]
  BY <1>5, Became
<1>7. Quiet(r)
  BY <1>1, <1>3, <1>4, <1>6 DEF Quiet
<1>8. Listed(r)' = Listed(r) /\ Sent(r)' = Sent(r)
  BY <1>4, <1>6, <1>7, QuietKeeps DEF Listed
<1>9. Real(r, dispatcher[r].hand)
  BY <1>1, <1>2 DEF RunInv, Real
<1>10. Real(r, dispatcher[r].hand)'
  <2>1. dispatcher[r].hand \in Schedules
    BY <1>1, <1>2, RunFacts DEF RunInv, InHandStates
  <2> QED
    BY <1>7, <1>9, <2>1, <1>4, <1>6, <1>1 DEF Real, IsOf
<1>11. RunInv(r)'
  BY <1>1, <1>2, <1>4, <1>6, <1>8, <1>10 DEF RunInv, InHandStates
<1> QED
  BY <1>1, <1>2, <1>4, <1>6, <1>7, <1>8, <1>11 DEF CoverInv, CountInv

\* EnqueueRaises, StampFails, EndRun and CrashRun end a run.
LEMMA OverKeeps ==
  ASSUME DispatchTypeOK, DispatchInv, NEW r \in Runs, dispatcher[r].pc # "idle",
         NEW outcome \in {"done", "failed", "crashed"}, Over(r, outcome),
         outcome = "done" => dispatcher[r].pc = "loop" /\ dispatcher[r].todo = {},
         UNCHANGED <<web, asked, origin, clock>>
  PROVE  Quiet(r) /\ RunInv(r)' /\ CoverInv(r)' /\ CountInv(r)'
<1>1. dispatcher[r] \in Locals /\ RunInv(r) /\ CoverInv(r) /\ CountInv(r)
  BY RunFacts
<1>2. Sent(r) \cap dispatcher[r].skipped = {}
  BY SentIsDone
<1>3. /\ dispatcher'[r].pc = outcome /\ dispatcher'[r].todo = {}
      /\ dispatcher'[r].fetched = dispatcher[r].fetched
      /\ dispatcher'[r].skipped = dispatcher[r].skipped
      /\ outcome = "done" => dispatcher'[r].dispatched = dispatcher[r].dispatched
      /\ \A q \in Runs \ {r} : dispatcher'[q] = dispatcher[q]
  <2> DEFINE last == [dispatcher[r] EXCEPT !.pc = outcome, !.todo = {}, !.hand = NoSchedule,
                                           !.batch = NoBatch,
                                           !.dispatched = IF outcome = "done" THEN @ ELSE 0]
  <2>1. /\ last.pc = outcome /\ last.todo = {} /\ last.fetched = dispatcher[r].fetched
        /\ last.skipped = dispatcher[r].skipped
        /\ outcome = "done" => last.dispatched = dispatcher[r].dispatched
    BY <1>1 DEF Locals
  <2>2. Become(r, last)
    BY DEF Over
  <2> HIDE DEF last
  <2> QED
    BY <2>1, <2>2, Became
<1>4. Quiet(r)
  BY <1>2, <1>3 DEF Quiet
<1>5. Listed(r)' = Listed(r) /\ Sent(r)' = Sent(r)
  BY <1>3, <1>4, QuietKeeps DEF Listed
<1>6. RunInv(r)'
  BY <1>1, <1>3, <1>5 DEF RunInv, InHandStates
<1> QED
  BY <1>1, <1>3, <1>4, <1>5, <1>6 DEF CoverInv, CountInv

LEMMA StampKeeps ==
  ASSUME DispatchTypeOK, DispatchInv, NEW r \in Runs, Stamp(r)
  PROVE  Quiet(r) /\ RunInv(r)' /\ CoverInv(r)' /\ CountInv(r)'
<1>1. dispatcher[r] \in Locals /\ RunInv(r) /\ CoverInv(r) /\ CountInv(r)
      /\ dispatcher[r].pc = "stamp" /\ UNCHANGED <<web, asked, origin, clock>>
  BY RunFacts DEF Stamp, At, batchVars
<1>2. Sent(r) \cap dispatcher[r].skipped = {}
  BY SentIsDone
<1>3. /\ dispatcher'[r].pc = "loop" /\ dispatcher'[r].todo = dispatcher[r].todo
      /\ dispatcher'[r].fetched = dispatcher[r].fetched
      /\ dispatcher'[r].skipped = dispatcher[r].skipped
      /\ dispatcher'[r].dispatched = dispatcher[r].dispatched
      /\ \A q \in Runs \ {r} : dispatcher'[q] = dispatcher[q]
  <2> DEFINE next == [dispatcher[r] EXCEPT !.pc = "loop", !.hand = NoSchedule, !.batch = NoBatch]
  <2>1. /\ next.pc = "loop" /\ next.todo = dispatcher[r].todo
        /\ next.fetched = dispatcher[r].fetched
        /\ next.skipped = dispatcher[r].skipped
        /\ next.dispatched = dispatcher[r].dispatched
    BY <1>1 DEF Locals
  <2>2. Become(r, next)
    BY DEF Stamp
  <2> HIDE DEF next
  <2> QED
    BY <2>1, <2>2, Became
<1>4. Quiet(r)
  BY <1>1, <1>2, <1>3 DEF Quiet
<1>5. Listed(r)' = Listed(r) /\ Sent(r)' = Sent(r)
  BY <1>3, <1>4, QuietKeeps DEF Listed
<1>6. RunInv(r)'
  BY <1>1, <1>3, <1>5 DEF RunInv, InHandStates
<1> QED
  BY <1>1, <1>3, <1>4, <1>5, <1>6 DEF CoverInv, CountInv
\* A new batch is the only one of its run and schedule.
LEMMA DispatchKeeps ==
  ASSUME DispatchTypeOK, DispatchInv, NEW r \in Runs, NEW b \in Batches, Dispatch(r, b)
  PROVE  DispatchInv'
<1> DEFINE s == dispatcher[r].hand
           next == [dispatcher[r] EXCEPT !.pc = "enqueue", !.batch = b]
<1>1. dispatcher[r] \in Locals /\ RunInv(r) /\ CoverInv(r) /\ CountInv(r)
      /\ dispatcher[r].pc = "matched" /\ web[b] = "idle"
  BY RunFacts DEF Dispatch, At, CreateBatchJob
<1>2. s \in Listed(r) \ dispatcher[r].todo /\ s \notin dispatcher[r].skipped /\ s \in Schedules
  BY <1>1, RunFacts DEF RunInv, InHandStates
<1>3. s \notin Sent(r) /\ Sent(r) \subseteq Listed(r) \ (dispatcher[r].todo \cup dispatcher[r].skipped)
  BY <1>1, SentIsDone
<1>4. origin[b] = NoBatch
  BY <1>1 DEF DispatchInv, BatchInv
<1>5. /\ next.pc = "enqueue" /\ next.batch = b /\ next.hand = s
      /\ next.fetched = dispatcher[r].fetched /\ next.todo = dispatcher[r].todo
      /\ next.skipped = dispatcher[r].skipped /\ next.dispatched = dispatcher[r].dispatched
  BY <1>1 DEF Locals
<1>6. Become(r, next)
  BY DEF Dispatch
<1> HIDE DEF next
<1>7. dispatcher'[r] = next /\ \A q \in Runs \ {r} : dispatcher'[q] = dispatcher[q]
  BY <1>6, Became
<1>8. /\ origin'[b] = [run |-> r, schedule |-> s]
      /\ \A c \in Batches \ {b} : origin'[c] = origin[c]
      /\ web'[b] = "created"
      /\ \A c \in Batches \ {b} : web'[c] = web[c] /\ asked'[c] = asked[c]
  BY DEF Dispatch, CreateBatchJob, DispatchTypeOK
<1>9. clock' = clock /\ schedule' = schedule /\ edit' = edit
  BY DEF Dispatch
<1>10. \A d \in Devices : asked'[b][d] > 0 => d \in dispatcher[r].fetched[s]
  <2>1. PICK ids \in Returned(Matched(r, s)) : asked' = [asked EXCEPT ![b] = ids]
    BY DEF Dispatch, CreateBatchJob
  <2>2. asked'[b] = ids
    BY <2>1 DEF DispatchTypeOK
  <2> QED
    BY <2>2 DEF Returned, Matched
<1>11. origin'[b] # NoBatch /\ origin'[b].run = r /\ origin'[b].schedule = s
  BY <1>2, <1>8, ScheduleAssumption DEF Runs
<1>12. \A q \in Runs : Listed(q)' = Listed(q)
  BY <1>5, <1>7 DEF Listed
<1>13. \A c \in Batches, q \in Runs, t \in Schedules :
         IsOf(c, q, t)' <=> IsOf(c, q, t) \/ (c = b /\ q = r /\ t = s)
  <2>1. \A q \in Runs, t \in Schedules : ~IsOf(b, q, t)
    BY <1>4, SentHasOrigin
  <2>2. ASSUME NEW q \in Runs, NEW t \in Schedules
        PROVE  origin'[b] = [run |-> q, schedule |-> t] <=> q = r /\ t = s
    BY <1>8, <1>11
  <2>3. \A q \in Runs, t \in Schedules : IsOf(b, q, t)' <=> q = r /\ t = s
    BY <2>2 DEF IsOf
  <2>4. \A c \in Batches \ {b} : \A q, t : IsOf(c, q, t)' <=> IsOf(c, q, t)
    BY <1>8 DEF IsOf
  <2> QED
    BY <2>1, <2>3, <2>4
<1>14. Sent(r)' = Sent(r) \cup {s} /\ \A q \in Runs \ {r} : Sent(q)' = Sent(q)
  BY <1>2, <1>13 DEF Sent
<1>15. \A q \in Runs, t \in Schedules : Real(q, t) => Real(q, t)'
  BY <1>1, <1>5, <1>7, <1>8, <1>13 DEF Real
<1>16. ASSUME NEW q \in Runs \ {r}
       PROVE  RunInv(q)' /\ CoverInv(q)' /\ CountInv(q)'
  <2>1. RunInv(q) /\ CoverInv(q) /\ CountInv(q) /\ Listed(q) \subseteq Schedules
    BY RunFacts
  <2>2. RunInv(q)'
    BY <1>7, <1>9, <1>12, <1>13, <1>15, <2>1 DEF RunInv, InHandStates
  <2> QED
    BY <1>7, <1>12, <1>14, <2>1, <2>2 DEF CoverInv, CountInv
<1>17. RunInv(r)'
  BY <1>1, <1>2, <1>5, <1>7, <1>9, <1>12, <1>13 DEF RunInv, InHandStates
<1>18. CoverInv(r)'
  BY <1>1, <1>5, <1>7, <1>12, <1>14 DEF CoverInv
<1>19. CountInv(r)'
  <2>1. IsFiniteSet(Sent(r)) /\ dispatcher[r].dispatched = Cardinality(Sent(r))
    BY <1>1 DEF CountInv
  <2>2. IsFiniteSet(Sent(r)')  /\ Cardinality(Sent(r)') = Cardinality(Sent(r)) + 1
    BY <1>3, <1>14, <2>1, FS_AddElement, SMTT(30)
  <2> QED
    BY <1>5, <1>7, <2>1, <2>2 DEF CountInv
<1>20. \A c \in Batches : BatchInv(c)'
  <2>0. r <= clock'
    BY <1>1, <1>9, ScheduleAssumption DEF RunInv, DispatchTypeOK, Runs
  <2>1. BatchInv(b)'
    <3>1. s \in Listed(r)' \ (dispatcher'[r].todo \cup dispatcher'[r].skipped)
      BY <1>2, <1>5, <1>7, <1>12
    <3>2. dispatcher'[r].pc = "enqueue" /\ dispatcher'[r].fetched = dispatcher[r].fetched
      BY <1>5, <1>7
    <3> QED
      BY <2>0, <3>1, <3>2, <1>8, <1>10, <1>11 DEF BatchInv
  <2>2. ASSUME NEW c \in Batches \ {b}, origin[c] # NoBatch
        PROVE  BatchInv(c)'
    <3>1. BatchInv(c) /\ origin[c].run \in Runs
      BY <2>2, OriginIsSent DEF DispatchInv
    <3> QED
      BY <2>2, <3>1, <1>5, <1>7, <1>8, <1>9, <1>12 DEF BatchInv
  <2> QED
    BY <2>1, <2>2, <1>8 DEF BatchInv
<1>21. OriginsDiffer'
  <2>1. ASSUME NEW c \in Batches \ {b} PROVE origin[c] # origin'[b]
    BY <1>3, <1>11, <2>1, OriginIsSent
  <2> QED
    BY <1>8, <2>1 DEF OriginsDiffer, DispatchInv
<1>22. ASSUME NEW t \in Schedules PROVE StampInv(t)'
  <2>1. StampInv(t)
    BY DEF DispatchInv
  <2>2. schedule[t] \in Columns /\ (edit[t] # NoEdit => edit[t] \in Columns)
    BY DEF DispatchTypeOK
  <2> QED
    BY <1>9, <1>15, <2>1, <2>2 DEF StampInv, Columns
<1> QED
  BY <1>16, <1>17, <1>18, <1>19, <1>20, <1>21, <1>22 DEF DispatchInv

LEMMA StartRunKeeps ==
  ASSUME DispatchTypeOK, DispatchInv, NEW recurring \in BOOLEAN, StartRun(recurring)
  PROVE  DispatchInv'
<1>0. PICK r \in Runs : r = clock + 1
  BY Started
<1>1. /\ r = clock + 1 /\ clock' = r /\ clock \in Nat
      /\ dispatcher'[r].pc = "loop" /\ dispatcher'[r].todo = Listed(r)'
      /\ dispatcher'[r].skipped = dispatcher[r].skipped
      /\ dispatcher'[r].dispatched = dispatcher[r].dispatched
      /\ \A q \in Runs \ {r} : dispatcher'[q] = dispatcher[q]
  BY <1>0, Started DEF Listed, DispatchTypeOK
<1>2. RunInv(r) /\ CoverInv(r) /\ CountInv(r)
  BY <1>1, RunFacts
<1>3. dispatcher[r].pc = "idle" /\ dispatcher[r].skipped = {}
      /\ r \in Nat /\ ~(r > clock')
  BY <1>1, <1>2 DEF RunInv
<1>4. UNCHANGED <<web, asked, origin, schedule, edit>>
  BY DEF StartRun, batchVars
<1>5. \A q : Sent(q)' = Sent(q)
  BY <1>4 DEF Sent, IsOf
<1>6. RunInv(r)' /\ CoverInv(r)' /\ CountInv(r)'
  <2>1. RunInv(r)'
    BY <1>1, <1>3 DEF RunInv, InHandStates
  <2>2. CoverInv(r)' /\ CountInv(r)'
    BY <1>1, <1>2, <1>3, <1>5 DEF CoverInv, CountInv
  <2> QED
    BY <2>1, <2>2
<1>7. \A q \in Runs, s \in Schedules : Real(q, s) => Real(q, s)'
  BY <1>1, <1>3, <1>4 DEF Real, IsOf
<1>8. ASSUME NEW q \in Runs \ {r}
      PROVE  RunInv(q)' /\ CoverInv(q)' /\ CountInv(q)'
  <2>1. RunInv(q) /\ CoverInv(q) /\ CountInv(q) /\ Listed(q) \subseteq Schedules
        /\ Listed(q)' = Listed(q)
    BY <1>1, RunFacts DEF Listed
  <2>2. q > clock' <=> q > clock
    BY <1>1 DEF Runs
  <2>3. RunInv(q)'
    BY <1>1, <1>4, <1>7, <2>1, <2>2 DEF RunInv, IsOf, InHandStates
  <2> QED
    BY <1>1, <1>5, <2>1, <2>3 DEF CoverInv, CountInv
<1>9. ASSUME NEW b \in Batches, origin[b] # NoBatch
      PROVE  BatchInv(b)'
  <2>1. BatchInv(b) /\ origin[b].run \in Runs
    BY <1>9, OriginIsSent DEF DispatchInv
  <2>2. origin[b].run <= clock /\ origin[b].run # r
    BY <1>1, <1>9, <2>1 DEF BatchInv, Runs
  <2>3. origin[b].run <= clock'
    BY <1>1, <2>1, <2>2 DEF Runs
  <2>4. dispatcher'[origin[b].run] = dispatcher[origin[b].run]
    BY <1>1, <2>1, <2>2
  <2> QED
    BY <1>4, <2>1, <2>3, <2>4 DEF BatchInv, Listed
<1>10. \A b \in Batches : BatchInv(b)'
  BY <1>4, <1>9 DEF BatchInv
<1>11. ASSUME NEW s \in Schedules PROVE StampInv(s)'
  <2>1. StampInv(s) /\ schedule[s] \in Columns /\ (edit[s] # NoEdit => edit[s] \in Columns)
    BY DEF DispatchInv, DispatchTypeOK
  <2> QED
    BY <1>4, <1>7, <2>1 DEF StampInv, Columns
<1>12. OriginsDiffer'
  BY <1>4 DEF DispatchInv, OriginsDiffer
<1> QED
  BY <1>6, <1>8, <1>10, <1>11, <1>12 DEF DispatchInv
\* A step that leaves the runs alone, takes no batch back to "idle" and no
\* link from it.
LEMMA RunsLeftAlone ==
  ASSUME DispatchTypeOK, DispatchInv, UNCHANGED <<dispatcher, origin, asked, clock>>,
         \A b \in Batches : /\ web[b] # "idle" => web'[b] # "idle"
                            /\ web[b] = "linked" => web'[b] = "linked"
  PROVE  /\ \A r \in Runs : RunInv(r)' /\ CoverInv(r)' /\ CountInv(r)'
         /\ \A b \in Batches : BatchInv(b)'
         /\ OriginsDiffer'
         /\ \A r \in Runs, s \in Schedules : Real(r, s) => Real(r, s)'
<1>1. \A r, s : Real(r, s) => Real(r, s)'
  BY DEF Real, IsOf
<1>2. \A r : Listed(r)' = Listed(r) /\ Sent(r)' = Sent(r)
  BY DEF Listed, Sent, IsOf
<1>3. \A b, r, s : IsOf(b, r, s)' = IsOf(b, r, s)
  BY DEF IsOf
<1>4. ASSUME NEW r \in Runs
      PROVE  RunInv(r)' /\ CoverInv(r)' /\ CountInv(r)'
  <2>1. RunInv(r) /\ CoverInv(r) /\ CountInv(r)
    BY RunFacts
  <2>2. RunInv(r)'
    BY <1>1, <1>2, <1>3, <2>1 DEF RunInv
  <2> QED
    BY <1>2, <2>1, <2>2 DEF CoverInv, CountInv
<1>5. \A b \in Batches : BatchInv(b)'
  BY <1>2 DEF DispatchInv, BatchInv
<1>6. OriginsDiffer'
  BY DEF DispatchInv, OriginsDiffer
<1> QED
  BY <1>1, <1>4, <1>5, <1>6

\* Stamps stay real while no stamp and no edit form changes.
LEMMA StampsStay ==
  ASSUME DispatchTypeOK, DispatchInv, UNCHANGED <<schedule, edit>>,
         \A r \in Runs, s \in Schedules : Real(r, s) => Real(r, s)'
  PROVE  \A s \in Schedules : StampInv(s)'
<1> TAKE s \in Schedules
<1>1. StampInv(s) /\ schedule[s] \in Columns /\ (edit[s] # NoEdit => edit[s] \in Columns)
  BY DEF DispatchInv, DispatchTypeOK
<1> QED
  BY <1>1 DEF StampInv, Columns

LEMMA EnqueueDispatchedKeeps ==
  ASSUME DispatchTypeOK, DispatchInv, NEW r \in Runs, EnqueueDispatched(r)
  PROVE  DispatchInv'
<1> DEFINE b == dispatcher[r].batch
<1>1. UNCHANGED scheduleVars /\ asked' = asked /\ b \in Batches
  BY RunFacts DEF EnqueueDispatched, BatchWebStep, EnqueueBatch, EnqueueBatchFails, LinkBatch, At,
                  RunInv
<1>2. \A c \in Batches : /\ web[c] # "idle" => web'[c] # "idle"
                         /\ web[c] = "linked" => web'[c] = "linked"
  BY <1>1 DEF EnqueueDispatched, BatchWebStep, EnqueueBatch, EnqueueBatchFails, LinkBatch,
              DispatchTypeOK
<1> QED
  BY <1>1, <1>2, RunsLeftAlone, StampsStay DEF scheduleVars, DispatchInv

LEMMA OperatorKeeps ==
  ASSUME DispatchTypeOK, DispatchInv, OperatorStep \/ DevicesGo
  PROVE  DispatchInv'
<1>1. UNCHANGED <<dispatcher, origin, asked, clock, web>>
  BY DEF OperatorStep, OpenEdit, DeleteSchedule, SaveEdit, DevicesGo, DeleteDevice, batchVars,
         scheduleVars
<1>2. /\ \A r \in Runs : RunInv(r)' /\ CoverInv(r)' /\ CountInv(r)'
      /\ \A b \in Batches : BatchInv(b)'
      /\ OriginsDiffer'
      /\ \A r \in Runs, s \in Schedules : Real(r, s) => Real(r, s)'
  BY <1>1, RunsLeftAlone
<1>3. CASE UNCHANGED <<schedule, edit>>
  BY <1>2, <1>3, StampsStay DEF DispatchInv
<1>4. ASSUME NEW s \in Schedules, OpenEdit(s)
      PROVE  DispatchInv'
  <2>1. ASSUME NEW t \in Schedules
        PROVE  StampInv(t)'
    <3>1. StampInv(t) /\ schedule[t] \in Columns /\ (edit[t] # NoEdit => edit[t] \in Columns)
      BY DEF DispatchInv, DispatchTypeOK
    <3>2. schedule' = schedule /\ (edit'[t] = edit[t] \/ edit'[t] = schedule[t])
      BY <1>4 DEF OpenEdit, DispatchTypeOK
    <3> QED
      BY <1>2, <3>1, <3>2 DEF StampInv, Columns
  <2> QED
    BY <1>2, <2>1 DEF DispatchInv
<1>5. ASSUME NEW s \in Schedules, NEW filter \in SUBSET Devices, NEW enabled \in BOOLEAN,
             SaveEdit(s, filter, enabled)
      PROVE  DispatchInv'
  <2>1. ASSUME NEW t \in Schedules
        PROVE  StampInv(t)'
    <3>1. StampInv(t) /\ schedule[t] \in Columns /\ (edit[t] # NoEdit => edit[t] \in Columns)
      BY DEF DispatchInv, DispatchTypeOK
    <3>2. CASE t = s
      <4>1. edit[s] # NoEdit /\ edit'[s] = NoEdit /\ schedule'[s].last = edit[s].last
        BY <1>5, <3>1, <3>2 DEF SaveEdit, DispatchTypeOK, Columns
      <4> QED
        BY <1>2, <3>1, <3>2, <4>1 DEF StampInv, Columns
    <3>3. CASE t # s
      <4>1. schedule'[t] = schedule[t] /\ edit'[t] = edit[t]
        BY <1>5, <3>3 DEF SaveEdit, DispatchTypeOK
      <4> QED
        BY <1>2, <3>1, <4>1 DEF StampInv, Columns
    <3> QED
      BY <3>2, <3>3
  <2> QED
    BY <1>2, <2>1 DEF DispatchInv
<1>6. ASSUME NEW s \in Schedules, DeleteSchedule(s)
      PROVE  UNCHANGED <<schedule, edit>>
  BY <1>6 DEF DeleteSchedule
<1>7. DevicesGo => UNCHANGED <<schedule, edit>>
  BY DEF DevicesGo, scheduleVars
<1> QED
  BY <1>3, <1>4, <1>5, <1>6, <1>7 DEF OperatorStep

LEMMA DispatchInvStep == DispatchTypeOK /\ DispatchInv /\ [Next]_vars => DispatchInv'
<1> SUFFICES ASSUME DispatchTypeOK, DispatchInv, [Next]_vars PROVE DispatchInv'
  OBVIOUS
<1>1. ASSUME NEW r \in Runs, Quiet(r), RunInv(r)', CoverInv(r)', CountInv(r)',
             \A s \in Schedules : StampInv(s)'
      PROVE  DispatchInv'
  BY <1>1, QuietKeeps DEF DispatchInv
<1>2. ASSUME NEW r \in Runs, Quiet(r), UNCHANGED <<schedule, edit>>
      PROVE  \A s \in Schedules : StampInv(s)'
  BY <1>2, QuietKeeps, StampsStay, SMTT(30)
<1>3. ASSUME NEW r \in Runs, NEW s \in Schedules, TakeSchedule(r, s)
      PROVE  DispatchInv'
  BY <1>1, <1>2, <1>3, TakeScheduleKeeps DEF TakeSchedule
<1>4. ASSUME NEW r \in Runs, BatchEnqueued(r)
      PROVE  DispatchInv'
  BY <1>1, <1>2, <1>4, BatchEnqueuedKeeps DEF BatchEnqueued
<1>5. ASSUME NEW r \in Runs, EnqueueRaises(r) \/ StampFails(r) \/ EndRun(r) \/ CrashRun(r)
      PROVE  DispatchInv'
  <2>1. /\ dispatcher[r].pc # "idle"
        /\ UNCHANGED <<web, asked, origin, clock, schedule, edit>>
    BY <1>5 DEF EnqueueRaises, StampFails, EndRun, CrashRun, At, Running, batchVars
  <2>2. PICK outcome \in {"done", "failed", "crashed"} :
          /\ Over(r, outcome)
          /\ outcome = "done" => dispatcher[r].pc = "loop" /\ dispatcher[r].todo = {}
    BY <1>5 DEF EnqueueRaises, StampFails, EndRun, CrashRun, At
  <2>3. Quiet(r) /\ RunInv(r)' /\ CoverInv(r)' /\ CountInv(r)'
    BY <2>1, <2>2, OverKeeps
  <2> QED
    BY <1>1, <1>2, <2>1, <2>3
<1>6. ASSUME NEW r \in Runs, Stamp(r)
      PROVE  DispatchInv'
  <2>1. Quiet(r) /\ RunInv(r)' /\ CoverInv(r)' /\ CountInv(r)'
    BY <1>6, StampKeeps
  <2> DEFINE s == dispatcher[r].hand
  <2>2. Real(r, s) /\ s \in Schedules /\ edit' = edit
    BY <1>6, RunFacts DEF RunInv, Stamp, At, InHandStates
  <2>3. ASSUME NEW t \in Schedules
        PROVE  StampInv(t)'
    <3>1. StampInv(t) /\ schedule[t] \in Columns /\ (edit[t] # NoEdit => edit[t] \in Columns)
      BY DEF DispatchInv, DispatchTypeOK
    <3>2. schedule'[t].last = schedule[t].last \/ (t = s /\ schedule'[t].last = r)
      BY <1>6, <3>1 DEF Stamp, DispatchTypeOK, Columns
    <3>3. \A q \in Runs, u \in Schedules : Real(q, u) => Real(q, u)'
      BY <2>1, QuietKeeps
    <3> QED
      BY <2>2, <3>1, <3>2, <3>3 DEF StampInv, Columns
  <2> QED
    BY <1>1, <2>1, <2>3
<1>7. ASSUME NEW r \in Runs, DispatcherStep(r) \/ CrashRun(r)
      PROVE  DispatchInv'
  BY <1>3, <1>4, <1>5, <1>6, <1>7, DispatchKeeps, EnqueueDispatchedKeeps DEF DispatcherStep
<1>8. CASE UNCHANGED vars
  BY <1>8, RunsLeftAlone, StampsStay DEF vars, batchVars, scheduleVars, DispatchInv
<1> QED
  BY <1>7, <1>8, StartRunKeeps, OperatorKeeps DEF Next

\* What a run has still to do and what it has done stay apart and add up, and
\* stamps stay real, in the rows and in the copies of edit forms.
THEOREM DispatchInvariant == Spec => [](DispatchTypeOK /\ DispatchInv)
<1>1. Init => DispatchTypeOK /\ DispatchInv
  BY DispatchTypeInit, DispatchInvInit
<1>2. DispatchTypeOK /\ DispatchInv /\ [Next]_vars => DispatchTypeOK' /\ DispatchInv'
  BY DispatchTypeStep, DispatchInvStep
<1> QED
  BY <1>1, <1>2, PTL DEF Spec
-----------------------------------------------------------------------------
(***************************************************************************)
(* A batch leaves no device out.                                           *)
(***************************************************************************)

\* What a batch was asked for is all of the filter that is still there: devices
\* go and do not come back, and neither the batch's list nor the copy of its
\* schedule changes.
WholeInv ==
  \A b \in Batches :
    origin[b] # NoBatch =>
      \A d \in devices \cap dispatcher[origin[b].run].fetched[origin[b].schedule] : asked[b][d] > 0

LEMMA FetchedStays ==
  ASSUME DispatchTypeOK, DispatchInv, NEW r \in Runs, DispatcherStep(r) \/ CrashRun(r)
  PROVE  devices' = devices /\ \A q \in Runs : dispatcher'[q].fetched = dispatcher[q].fetched
<1>1. Quiet(r) => \A q \in Runs : dispatcher'[q].fetched = dispatcher[q].fetched
  BY DEF Quiet
<1>2. CASE \E s \in Schedules : TakeSchedule(r, s)
  BY <1>1, <1>2, TakeScheduleKeeps DEF TakeSchedule, batchVars
<1>3. CASE \E b \in Batches : Dispatch(r, b)
  <2>1. dispatcher[r] \in Locals
    BY DEF DispatchTypeOK
  <2> QED
    BY <1>3, <2>1 DEF Dispatch, CreateBatchJob, Become, Locals, DispatchTypeOK
<1>4. CASE EnqueueDispatched(r)
  BY <1>4
     DEF EnqueueDispatched, BatchWebStep, EnqueueBatch, EnqueueBatchFails, LinkBatch, scheduleVars
<1>5. CASE BatchEnqueued(r)
  BY <1>1, <1>5, BatchEnqueuedKeeps DEF BatchEnqueued, batchVars
<1>6. CASE Stamp(r)
  BY <1>1, <1>6, StampKeeps DEF Stamp, batchVars
<1>7. CASE EnqueueRaises(r) \/ StampFails(r) \/ EndRun(r) \/ CrashRun(r)
  <2>1. UNCHANGED <<web, asked, origin, clock, devices>> /\ dispatcher[r].pc # "idle"
    BY <1>7 DEF EnqueueRaises, StampFails, EndRun, CrashRun, At, Running, batchVars
  <2>2. PICK outcome \in {"done", "failed", "crashed"} :
          /\ Over(r, outcome)
          /\ outcome = "done" => dispatcher[r].pc = "loop" /\ dispatcher[r].todo = {}
    BY <1>7 DEF EnqueueRaises, StampFails, EndRun, CrashRun, At
  <2> QED
    BY <1>1, <2>1, <2>2, OverKeeps
<1> QED
  BY <1>2, <1>3, <1>4, <1>5, <1>6, <1>7 DEF DispatcherStep

LEMMA WholeStep == DispatchTypeOK /\ DispatchInv /\ WholeInv /\ [Next]_vars => WholeInv'
<1> SUFFICES ASSUME DispatchTypeOK, DispatchInv, WholeInv, [Next]_vars PROVE WholeInv'
  OBVIOUS
<1>1. ASSUME NEW b \in Batches, origin[b] # NoBatch, devices' \subseteq devices,
             asked'[b] = asked[b], origin'[b] = origin[b],
             dispatcher'[origin[b].run].fetched = dispatcher[origin[b].run].fetched,
             NEW d \in devices' \cap dispatcher'[origin'[b].run].fetched[origin'[b].schedule]
      PROVE  asked'[b][d] > 0
  BY <1>1 DEF WholeInv
<1>2. ASSUME UNCHANGED <<asked, origin>>, devices' \subseteq devices,
             \A q \in Runs : q <= clock => dispatcher'[q].fetched = dispatcher[q].fetched
      PROVE  WholeInv'
  <2>1. \A b \in Batches : origin[b] # NoBatch => origin[b].run \in Runs /\ origin[b].run <= clock
    BY OriginIsSent DEF DispatchInv, BatchInv
  <2> QED
    BY <1>1, <1>2, <2>1 DEF WholeInv
<1>3. ASSUME NEW r \in Runs, NEW b \in Batches, Dispatch(r, b)
      PROVE  WholeInv'
  <2> DEFINE s == dispatcher[r].hand
  <2>1. PICK ids \in Returned(Matched(r, s)) : asked' = [asked EXCEPT ![b] = ids]
    BY <1>3 DEF Dispatch, CreateBatchJob
  <2>2. /\ asked'[b] = ids /\ \A c \in Batches \ {b} : asked'[c] = asked[c]
        /\ origin'[b] = [run |-> r, schedule |-> s]
        /\ \A c \in Batches \ {b} : origin'[c] = origin[c]
    BY <1>3, <2>1 DEF Dispatch, DispatchTypeOK
  <2>3. devices' = devices /\ \A q \in Runs : dispatcher'[q].fetched = dispatcher[q].fetched
    BY <1>3, FetchedStays DEF DispatcherStep
  <2>4. \A d \in devices \cap dispatcher[r].fetched[s] : ids[d] > 0
    BY <2>1 DEF Returned, Matched, DispatchTypeOK
  <2>5. ASSUME NEW c \in Batches \ {b}, origin'[c] # NoBatch,
               NEW d \in devices' \cap dispatcher'[origin'[c].run].fetched[origin'[c].schedule]
        PROVE  asked'[c][d] > 0
    <3>1. origin[c].run \in Runs
      BY <2>2, <2>5, OriginIsSent
    <3> QED
      BY <1>1, <2>2, <2>3, <2>5, <3>1
  <2> QED
    BY <2>2, <2>3, <2>4, <2>5 DEF WholeInv
<1>4. ASSUME NEW r \in Runs, DispatcherStep(r) \/ CrashRun(r), ~\E b \in Batches : Dispatch(r, b)
      PROVE  WholeInv'
  <2>1. UNCHANGED <<asked, origin>>
    BY <1>4
       DEF DispatcherStep, TakeSchedule, EnqueueDispatched, BatchWebStep, EnqueueBatch,
           EnqueueBatchFails, LinkBatch, BatchEnqueued, EnqueueRaises, Stamp, StampFails, EndRun,
           CrashRun, batchVars, scheduleVars
  <2> QED
    BY <1>2, <1>4, <2>1, FetchedStays
<1>5. ASSUME NEW recurring \in BOOLEAN, StartRun(recurring)
      PROVE  WholeInv'
  <2>1. UNCHANGED <<asked, origin, devices>>
    BY <1>5 DEF StartRun, batchVars
  <2>2. \A q \in Runs : q <= clock => dispatcher'[q] = dispatcher[q]
    BY <1>5 DEF StartRun, Become, DispatchTypeOK, Runs
  <2> QED
    BY <1>2, <2>1, <2>2
<1>6. CASE OperatorStep \/ DevicesGo \/ UNCHANGED vars
  BY <1>2, <1>6
     DEF OperatorStep, OpenEdit, DeleteSchedule, SaveEdit, DevicesGo, DeleteDevice, batchVars,
         scheduleVars, vars
<1> QED
  BY <1>3, <1>4, <1>5, <1>6 DEF Next
-----------------------------------------------------------------------------
(***************************************************************************)
(* The properties.                                                         *)
(***************************************************************************)

LEMMA InvImpliesOneBatch == DispatchTypeOK /\ DispatchInv /\ WholeInv => OneBatchPerSchedule
<1> SUFFICES ASSUME DispatchTypeOK, DispatchInv, WholeInv, NEW r \in Runs, NEW s \in Schedules
             PROVE  /\ \A b, c \in BatchesOf(r, s) : b = c
                    /\ \A b \in BatchesOf(r, s) :
                         /\ s \in Listed(r)
                         /\ \A d \in Devices : asked[b][d] > 0 => d \in dispatcher[r].fetched[s]
                         /\ \A d \in devices \cap dispatcher[r].fetched[s] : asked[b][d] > 0
  BY DEF OneBatchPerSchedule
<1>1. \A b \in BatchesOf(r, s) : b \in Batches /\ IsOf(b, r, s)
  BY DEF BatchesOf, IsOf
<1>2. \A b \in BatchesOf(r, s) : origin[b] # NoBatch /\ origin[b].run = r /\ origin[b].schedule = s
  BY <1>1, SentHasOrigin
<1>3. \A b, c \in BatchesOf(r, s) : b = c
  BY <1>1, <1>2 DEF DispatchInv, OriginsDiffer, IsOf
<1> QED
  BY <1>1, <1>2, <1>3 DEF DispatchInv, BatchInv, WholeInv

LEMMA InvImpliesCovered == DispatchTypeOK /\ DispatchInv => NormalRunCoversAll
<1> SUFFICES ASSUME DispatchTypeOK, DispatchInv, NEW r \in Runs, dispatcher[r].pc = "done"
             PROVE  LET sent == {s \in Schedules : BatchesOf(r, s) # {}}
                    IN  /\ Listed(r) = sent \cup dispatcher[r].skipped
                        /\ sent \cap dispatcher[r].skipped = {}
                        /\ dispatcher[r].dispatched = Cardinality(sent)
  BY DEF NormalRunCoversAll
<1>1. {s \in Schedules : BatchesOf(r, s) # {}} = Sent(r)
  BY DEF BatchesOf, Sent, IsOf
<1>2. RunInv(r) /\ CoverInv(r) /\ CountInv(r)
  BY RunFacts
<1>3. Sent(r) \subseteq Listed(r) \ dispatcher[r].skipped
  BY SentIsDone
<1> QED
  BY <1>1, <1>2, <1>3 DEF RunInv, CoverInv, CountInv

LEMMA InvImpliesReal == DispatchTypeOK /\ DispatchInv => LastRunIsReal
<1> SUFFICES ASSUME DispatchTypeOK, DispatchInv, NEW s \in schedules, schedule[s].last # Blank
             PROVE  \/ s \in dispatcher[schedule[s].last].skipped
                    \/ \E b \in BatchesOf(schedule[s].last, s) : web[b] = "linked"
  BY DEF LastRunIsReal
<1>1. Real(schedule[s].last, s)
  BY DEF DispatchTypeOK, DispatchInv, StampInv
<1> QED
  BY <1>1 DEF Real, BatchesOf, IsOf

\* A run enqueues one batch per schedule at most, for a schedule and devices of
\* what it fetched and for all of them that are there: enqueue_batch_capture
\* inside the loop of run_capture_schedules_job.
THEOREM OneBatchEach == Spec => []OneBatchPerSchedule
<1>1. Init => WholeInv
  BY DEF Init, ScheduleInit, WholeInv
<1> QED
  BY <1>1, WholeStep, DispatchInvariant, InvImpliesOneBatch, PTL DEF Spec

\* The loop of run_capture_schedules_job ends normally only with every
\* schedule it fetched dispatched or skipped, and its counters tell which.
THEOREM RunsCoverAll == Spec => []NormalRunCoversAll
BY DispatchInvariant, InvImpliesCovered, PTL

\* last_run_at is never a promise: the batch of the run it names was linked, or
\* no device matched.
THEOREM StampsAreReal == Spec => []LastRunIsReal
BY DispatchInvariant, InvImpliesReal, PTL

LEMMA RunsLeaveDecisions ==
  ASSUME DispatchTypeOK, [Next]_vars, NEW r \in Runs, dispatcher'[r] # dispatcher[r]
  PROVE  /\ schedules' = schedules
         /\ \A s \in Schedules : schedule'[s].filter = schedule[s].filter
                              /\ schedule'[s].enabled = schedule[s].enabled
<1>1. ASSUME UNCHANGED <<schedules, schedule>>
      PROVE  /\ schedules' = schedules
             /\ \A s \in Schedules : schedule'[s].filter = schedule[s].filter
                                  /\ schedule'[s].enabled = schedule[s].enabled
  BY <1>1
<1>2. ASSUME NEW recurring \in BOOLEAN, StartRun(recurring)
      PROVE  UNCHANGED <<schedules, schedule>>
  BY <1>2 DEF StartRun
<1>3. ASSUME NEW q \in Runs, DispatcherStep(q) \/ CrashRun(q), ~Stamp(q)
      PROVE  UNCHANGED <<schedules, schedule>>
  BY <1>3 DEF DispatcherStep, TakeSchedule, Dispatch, EnqueueDispatched, BatchEnqueued,
              EnqueueRaises, StampFails, EndRun, CrashRun, scheduleVars
<1>4. ASSUME NEW q \in Runs, Stamp(q)
      PROVE  /\ schedules' = schedules
             /\ \A s \in Schedules : schedule'[s].filter = schedule[s].filter
                                  /\ schedule'[s].enabled = schedule[s].enabled
  <2>1. \A s \in Schedules : schedule[s] \in Columns
    BY DEF DispatchTypeOK
  <2> QED
    BY <1>4, <2>1 DEF Stamp, DispatchTypeOK, Columns
<1>5. CASE OperatorStep \/ DevicesGo \/ UNCHANGED vars
  BY <1>5 DEF OperatorStep, OpenEdit, DeleteSchedule, SaveEdit, DevicesGo, vars, scheduleVars
<1> QED
  BY <1>1, <1>2, <1>3, <1>4, <1>5 DEF Next

\* The dispatcher writes the two stamps and nothing else: no run takes back what
\* an operator saved or brings a deleted schedule back (save(update_fields)).
THEOREM OperatorsAlwaysDecide == Spec => OperatorsDecide
<1> DEFINE Decided == (\E r \in Runs : dispatcher'[r] # dispatcher[r]) =>
                        /\ schedules' = schedules
                        /\ \A s \in Schedules : schedule'[s].filter = schedule[s].filter
                                             /\ schedule'[s].enabled = schedule[s].enabled
<1>1. DispatchTypeOK /\ [Next]_vars => [Decided]_vars
  BY RunsLeaveDecisions
<1> HIDE DEF Decided
<1>2. Spec => [][Decided]_vars
  BY <1>1, DispatchTypeCorrect, PTL DEF Spec
<1> QED
  BY <1>2 DEF OperatorsDecide, Decided
=============================================================================
