--------------------------- MODULE CaptureSchedules ---------------------------
(***************************************************************************)
(* Capture schedules and their dispatcher, composed with the batches it    *)
(* enqueues.  Source: jobs.py, run_capture_schedules_job, and models.py,   *)
(* PyatsCaptureSchedule.                                                   *)
(*                                                                         *)
(* A run of the dispatcher fetches every enabled schedule, then handles    *)
(* the copies one by one: count the devices of the filter, enqueue a batch *)
(* for them, stamp the schedule.  Operators edit and delete schedules all  *)
(* the while, and runs may overlap.  Names, kinds and tags are left out; a *)
(* device filter is the set of devices it matches while they exist.        *)
(* The workers' steps stay in BatchCapture: the dispatcher reads none of   *)
(* the variables they change, and BatchCapture starts from a linked batch  *)
(* where this module ends.                                                 *)
(***************************************************************************)
EXTENDS BatchCapture, FiniteSetsExt

CONSTANTS
  Schedules,       \* primary keys of PyatsCaptureSchedule rows, in the order of their names
  NoSchedule,      \* no schedule in hand
  NoBatch,         \* no batch in hand
  NoEdit,          \* no edit form under way
  MaxRuns,         \* how many runs of the dispatcher start
  Interval,        \* the interval of a recurring core.Job
  MaxEdits,        \* how many edit and delete requests operators send
  ScheduleFaults   \* what operators may do to schedules

ASSUME ScheduleAssumption ==
  /\ Schedules \subseteq Nat
  /\ NoSchedule \notin Schedules
  /\ NoBatch \notin Batches \cup [run: 1..MaxRuns, schedule: Schedules]
  /\ Batches \subseteq Nat
  /\ MaxRuns \in Nat
  /\ MaxEdits \in Nat
  /\ Interval \in Nat \ {0}
  /\ ScheduleFaults \subseteq {"edit", "delete", "rename"}

VARIABLES
  schedules,   \* schedule rows that exist
  schedule,    \* their columns
  edit,        \* the row an operator's edit request has read
  edits,       \* how many requests they have sent
  clock,       \* how many runs have started; a run's now is its number
  dispatcher,  \* the locals of each run
  origin       \* the run and schedule each batch was enqueued for

scheduleVars == <<schedules, schedule, edit, edits, clock, dispatcher, origin>>
vars == <<batchVars, scheduleVars>>
-----------------------------------------------------------------------------
(* Types *)

Runs == 1..MaxRuns
Blank == 0

\* What the first run finds; a schedule without a stamp is blank.
ScheduleRow == [filter: SUBSET Devices, enabled: BOOLEAN, last: {Blank}, next: {Blank}]

ScheduleInit ==
  /\ schedules = Schedules
  /\ schedule \in [Schedules -> ScheduleRow]
  /\ edit = [s \in Schedules |-> NoEdit]
  /\ edits = 0
  /\ clock = 0
  /\ dispatcher = [r \in Runs |->
       [pc |-> "idle", recurring |-> FALSE, fetched |-> [s \in {} |-> {}], todo |-> {},
        hand |-> NoSchedule, batch |-> NoBatch, dispatched |-> 0, skipped |-> {}]]
  /\ origin = [b \in Batches |-> NoBatch]
-----------------------------------------------------------------------------
(* The dispatcher *)

At(r, state) == r \in Runs /\ dispatcher[r].pc = state

Become(r, locals) == dispatcher' = [dispatcher EXCEPT ![r] = locals]

\* A run ends, and its locals go, save what it returns if it does.
Over(r, outcome) ==
  Become(r, [dispatcher[r] EXCEPT !.pc = outcome, !.todo = {}, !.hand = NoSchedule,
                                  !.batch = NoBatch,
                                  !.dispatched = IF outcome = "done" THEN @ ELSE 0])

Running(r) == dispatcher[r].pc \notin {"idle", "done", "failed", "crashed"}

\* The schedules a run fetched.
Listed(r) == DOMAIN dispatcher[r].fetched

\* The batches runs may still ask for; Batches has a key for each of them.
Promised(enabled) ==
  Cardinality(enabled) + FoldSet(LAMBDA r, n : n + Cardinality(Listed(r)), 0, Runs)

\* Now is read, then every enabled schedule is fetched.  JobRunner starts a
\* recurring run only after the one before has ended.
StartRun(recurring) ==
  /\ clock < MaxRuns
  /\ recurring => ~\E r \in Runs : Running(r) /\ dispatcher[r].recurring
  /\ clock' = clock + 1
  /\ LET enabled == {s \in schedules : schedule[s].enabled}
     IN  /\ Promised(enabled) <= Cardinality(Batches)
         /\ Become(clock + 1,
                   [dispatcher[clock + 1] EXCEPT
                      !.pc = "loop", !.recurring = recurring, !.todo = enabled,
                      !.fetched = [s \in enabled |-> schedule[s].filter]])
  /\ UNCHANGED <<batchVars, schedules, schedule, edit, edits, origin>>

\* The devices that the filter of the copy in hand matches now.
Matched(r, s) == dispatcher[r].fetched[s] \cap devices

\* The fetched copies come in the order of their names.
IsNext(r, s) ==
  /\ s \in dispatcher[r].todo
  /\ \A t \in dispatcher[r].todo : s <= t

TakeScheduleAgain(r, s) ==
  /\ At(r, "loop")
  /\ IsNext(r, s)
  /\ IF Matched(r, s) = {}
       THEN Become(r, [dispatcher[r] EXCEPT !.pc = "stamp", !.hand = s, !.todo = @ \ {s},
                                            !.skipped = @ \cup {s}])
       ELSE Become(r, [dispatcher[r] EXCEPT !.pc = "matched", !.hand = s])
  /\ UNCHANGED <<batchVars, schedules, schedule, edit, edits, clock, origin>>

TakeScheduleBreaking(r, s) ==
  /\ At(r, "loop")
  /\ IsNext(r, s)
  /\ IF Matched(r, s) = {}
       THEN Over(r, "done")
       ELSE Become(r, [dispatcher[r] EXCEPT !.pc = "matched", !.hand = s, !.todo = @ \ {s}])
  /\ UNCHANGED <<batchVars, schedules, schedule, edit, edits, clock, origin>>

\* The next schedule of the loop: the count of its devices decides.
TakeSchedule(r, s) ==
  /\ At(r, "loop")
  /\ IsNext(r, s)
  /\ IF Matched(r, s) = {}
       THEN Become(r, [dispatcher[r] EXCEPT !.pc = "stamp", !.hand = s, !.todo = @ \ {s},
                                            !.skipped = @ \cup {s}])
       ELSE Become(r, [dispatcher[r] EXCEPT !.pc = "matched", !.hand = s, !.todo = @ \ {s}])
  /\ UNCHANGED <<batchVars, schedules, schedule, edit, edits, clock, origin>>

\* enqueue_batch_capture evaluates the filter again and creates the batch.
\* Keys are given in order.
Dispatch(r, b) ==
  /\ At(r, "matched")
  /\ \A c \in Batches : web[c] = "idle" => b <= c
  /\ CreateBatchJob(b, Matched(r, dispatcher[r].hand))
  /\ Become(r, [dispatcher[r] EXCEPT !.pc = "enqueue", !.batch = b])
  /\ origin' = [origin EXCEPT ![b] = [run |-> r, schedule |-> dispatcher[r].hand]]
  /\ UNCHANGED <<schedules, schedule, edit, edits, clock>>

\* Its two other steps are those of BatchCapture.
EnqueueDispatched(r) ==
  /\ At(r, "enqueue")
  /\ BatchWebStep(dispatcher[r].batch)
  /\ UNCHANGED scheduleVars

BatchEnqueuedEarly(r) ==
  /\ At(r, "enqueue")
  /\ web[dispatcher[r].batch] \in {"created", "enqueued", "linked"}
  /\ Become(r, [dispatcher[r] EXCEPT !.pc = "stamp", !.dispatched = @ + 1])
  /\ UNCHANGED <<batchVars, schedules, schedule, edit, edits, clock, origin>>

BatchEnqueued(r) ==
  /\ At(r, "enqueue")
  /\ web[dispatcher[r].batch] = "linked"
  /\ Become(r, [dispatcher[r] EXCEPT !.pc = "stamp", !.dispatched = @ + 1])
  /\ UNCHANGED <<batchVars, schedules, schedule, edit, edits, clock, origin>>

\* enqueue_batch_capture raises: the run ends, and the loop with it.
EnqueueRaises(r) ==
  /\ At(r, "enqueue")
  /\ web[dispatcher[r].batch] = "failed"
  /\ Over(r, "failed")
  /\ UNCHANGED <<batchVars, schedules, schedule, edit, edits, clock, origin>>

\* _next_run_at: blank unless the core.Job recurs.
NextRunAt(r) == IF dispatcher[r].recurring THEN r + Interval ELSE Blank

StampWholeRow(r) ==
  /\ At(r, "stamp")
  /\ LET s == dispatcher[r].hand
     IN  /\ schedules' = schedules \cup {s}
         /\ schedule' = [schedule EXCEPT ![s] =
              [filter |-> dispatcher[r].fetched[s], enabled |-> TRUE,
               last |-> r, next |-> NextRunAt(r)]]
  /\ Become(r, [dispatcher[r] EXCEPT !.pc = "loop", !.hand = NoSchedule, !.batch = NoBatch])
  /\ UNCHANGED <<batchVars, edit, edits, clock, origin>>

\* save(update_fields=...) writes the two columns.
Stamp(r) ==
  /\ At(r, "stamp")
  /\ dispatcher[r].hand \in schedules
  /\ schedule' = [schedule EXCEPT ![dispatcher[r].hand].last = r,
                                  ![dispatcher[r].hand].next = NextRunAt(r)]
  /\ Become(r, [dispatcher[r] EXCEPT !.pc = "loop", !.hand = NoSchedule, !.batch = NoBatch])
  /\ UNCHANGED <<batchVars, schedules, edit, edits, clock, origin>>

\* full_clean raises when another schedule has been given the name that the
\* copy still has, save when the row is gone; the run ends.
StampFails(r) ==
  /\ At(r, "stamp")
  /\ dispatcher[r].hand \notin schedules \/ "rename" \in ScheduleFaults
  /\ Over(r, "failed")
  /\ UNCHANGED <<batchVars, schedules, schedule, edit, edits, clock, origin>>

EndRun(r) ==
  /\ At(r, "loop")
  /\ dispatcher[r].todo = {}
  /\ Over(r, "done")
  /\ UNCHANGED <<batchVars, schedules, schedule, edit, edits, clock, origin>>
-----------------------------------------------------------------------------
(* Operators and the environment *)

\* The edit view reads the row, applies the form and saves the whole row.
OpenEdit(s) ==
  /\ "edit" \in ScheduleFaults
  /\ s \in schedules
  /\ edit[s] = NoEdit
  /\ edits < MaxEdits
  /\ edits' = edits + 1
  /\ edit' = [edit EXCEPT ![s] = schedule[s]]
  /\ UNCHANGED <<batchVars, schedules, schedule, clock, dispatcher, origin>>

SaveEdit(s, filter, enabled) ==
  /\ edit[s] # NoEdit
  /\ schedules' = schedules \cup {s}
  /\ schedule' = [schedule EXCEPT ![s] =
                    [edit[s] EXCEPT !.filter = filter, !.enabled = enabled]]
  /\ edit' = [edit EXCEPT ![s] = NoEdit]
  /\ UNCHANGED <<batchVars, edits, clock, dispatcher, origin>>

DeleteSchedule(s) ==
  /\ "delete" \in ScheduleFaults
  /\ s \in schedules
  /\ edits < MaxEdits
  /\ edits' = edits + 1
  /\ schedules' = schedules \ {s}
  /\ UNCHANGED <<batchVars, schedule, edit, clock, dispatcher, origin>>

\* The process of the dispatcher dies; a batch it was enqueueing stays as it is.
CrashRun(r) ==
  /\ "crash" \in Faults
  /\ Running(r)
  /\ Over(r, "crashed")
  /\ UNCHANGED <<batchVars, schedules, schedule, edit, edits, clock, origin>>
-----------------------------------------------------------------------------
DispatcherStep(r) ==
  \/ \E s \in Schedules : TakeSchedule(r, s)
  \/ \E b \in Batches : Dispatch(r, b)
  \/ EnqueueDispatched(r) \/ BatchEnqueued(r) \/ EnqueueRaises(r)
  \/ Stamp(r) \/ StampFails(r) \/ EndRun(r)

OperatorStep ==
  \E s \in Schedules :
    \/ OpenEdit(s) \/ DeleteSchedule(s)
    \/ \E filter \in SUBSET Devices, enabled \in BOOLEAN : SaveEdit(s, filter, enabled)

DevicesGo ==
  /\ \E d \in devices : DeleteDevice(d)
  /\ UNCHANGED scheduleVars

Next ==
  \/ \E recurring \in BOOLEAN : StartRun(recurring)
  \/ \E r \in Runs : DispatcherStep(r) \/ CrashRun(r)
  \/ OperatorStep
  \/ DevicesGo

Init == BatchInit /\ ScheduleInit
Spec == Init /\ [][Next]_vars

\* A dispatcher that runs goes on; nobody has to start a run, edit or delete.
Fairness == \A r \in Runs : WF_vars(DispatcherStep(r))

FairSpec == Spec /\ Fairness
-----------------------------------------------------------------------------
(* Properties *)

BatchesOf(r, s) == {b \in Batches : origin[b] = [run |-> r, schedule |-> s]}

\* A run enqueues at most one batch per schedule, only for schedules that were
\* enabled when it fetched them, and only for devices of their filter then. It
\* leaves none of these out that is still there: a batch is empty only because
\* its devices were deleted, although the filter is evaluated twice
\* (run_capture_schedules_job, enqueue_batch_capture).
OneBatchPerSchedule ==
  \A r \in Runs, s \in Schedules :
    /\ \A b, c \in BatchesOf(r, s) : b = c
    /\ \A b \in BatchesOf(r, s) :
         /\ s \in Listed(r)
         /\ \A d \in Devices : asked[b][d] > 0 => d \in dispatcher[r].fetched[s]
         /\ \A d \in devices \cap dispatcher[r].fetched[s] : asked[b][d] > 0

\* A run that ends normally has dispatched or skipped every schedule it
\* fetched, none of them twice, and its returned counts say so.
NormalRunCoversAll ==
  \A r \in Runs :
    dispatcher[r].pc = "done" =>
      LET sent == {s \in Schedules : BatchesOf(r, s) # {}}
      IN  /\ Listed(r) = sent \cup dispatcher[r].skipped
          /\ sent \cap dispatcher[r].skipped = {}
          /\ dispatcher[r].dispatched = Cardinality(sent)

\* The stamp of a run is on a schedule only once its batch is linked, or
\* because no device matched.
LastRunIsReal ==
  \A s \in schedules :
    LET r == schedule[s].last
    IN  r # Blank => \/ s \in dispatcher[r].skipped
                     \/ \E b \in BatchesOf(r, s) : web[b] = "linked"

\* The dispatcher never takes back what an operator saved, nor brings a
\* deleted schedule back, although it saves rows it read long before.
OperatorsDecide ==
  [][(\E r \in Runs : dispatcher'[r] # dispatcher[r]) =>
       /\ schedules' = schedules
       /\ \A s \in Schedules : schedule'[s].filter = schedule[s].filter
                            /\ schedule'[s].enabled = schedule[s].enabled]_vars

\* Every schedule that a run fetched is dispatched some day, by a batch that is
\* linked, or matched no device, unless the run dies or fails on the way; from
\* there on EveryBatchEnds takes the batch to its end.
FetchedIsDispatched ==
  \A r \in Runs :
    r <= clock ~>
      \/ dispatcher[r].pc \in {"failed", "crashed"}
      \/ \A s \in Listed(r) :
           s \in dispatcher[r].skipped \/ \E b \in BatchesOf(r, s) : web[b] = "linked"
=============================================================================
