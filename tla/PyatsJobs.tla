------------------------------ MODULE PyatsJobs ------------------------------
(***************************************************************************)
(* The life of a single-device job of the plugin (capture, parse, learn,   *)
(* diff, compliance): the web process that creates the PyatsJob row,       *)
(* enqueues the RQ work and then links the core.Job; the worker that runs  *)
(* the callable; the operators and NetBox itself, which may delete or edit *)
(* rows under both of them.  Source: jobs.py, with models.py for the       *)
(* tables' foreign keys and views.py for the requests the web accepts.     *)
(*                                                                         *)
(* Every PyatsJob update in the code loads the whole row and later saves   *)
(* the whole row, so each one is two actions here: a read into mem.copy    *)
(* and a save of what was read.                                            *)
(***************************************************************************)
EXTENDS Naturals

CONSTANTS
  Jobs,        \* primary keys of PyatsJob rows; a job's result row has its key
  Devices,     \* primary keys of dcim.Device rows
  Snapshots,   \* PyatsSnapshot rows that exist before the run
  Goldens,     \* PyatsGoldenConfig rows that exist before the run
  FirstOwner,  \* the device each of those rows starts with
  NoDevice,    \* a null device foreign key
  NoInput,     \* a request without that input
  JobTypes,    \* the job types requested in this instance
  Faults,      \* what the environment may do, a subset of AllFaults
  LinkFirst    \* whether a worker leaves a job alone until it is linked

CaptureTypes == {"capture", "parse", "learn"}
CompareTypes == {"diff", "compliance"}
AllFaults == {"enqueue", "save", "crash", "delete", "edit"}
Inputs == Snapshots \cup Goldens

ASSUME ConstantsAssumption ==
  /\ Snapshots \cap Goldens = {}
  /\ FirstOwner \in [Inputs -> Devices]
  /\ NoDevice \notin Devices
  /\ NoInput \notin Inputs
  /\ JobTypes \subseteq CaptureTypes \cup CompareTypes
  /\ Faults \subseteq AllFaults
  /\ LinkFirst \in BOOLEAN

VARIABLES
  devices,  \* device rows that exist
  inputs,   \* snapshot and golden rows that exist
  owner,    \* their device foreign keys
  rows,     \* PyatsJob rows that exist
  table,    \* their contents
  results,  \* result rows that exist
  written,  \* how many result rows each job has saved, ever
  outcome,  \* the status of the last one it saved
  request,  \* the arguments the job was enqueued with
  web,      \* where the enqueueing request is
  pc,       \* where the worker is in the job's callable
  mem,      \* the callable's local variables
  core      \* the status of the core.Job row

dbVars == <<devices, inputs, owner, results, written, outcome>>
vars == <<dbVars, rows, table, request, web, pc, mem, core>>
-----------------------------------------------------------------------------
(* Types *)

StatusChoices == {"pending", "running", "success", "error"}
Outcomes == {"success", "error"}   \* a result row's status, error or not

PyatsJobRow ==
  [status: StatusChoices, device: Devices \cup {NoDevice}, core: BOOLEAN,
   related: BOOLEAN, started: BOOLEAN, finished: BOOLEAN, error: BOOLEAN]

Request ==
  [type: CaptureTypes \cup CompareTypes, device: Devices \cup {NoDevice},
   before: Inputs \cup {NoInput}, after: Inputs \cup {NoInput}, cross: BOOLEAN]

WebStates == {"idle", "created", "enqueued", "linked", "failed"}
CallableStates ==
  {"mark_read", "mark_save", "load", "compute", "persist", "finish_read",
   "finish_save", "record_read", "record_save", "leave"}
WorkerStates == CallableStates \cup {"none", "queued", "crashed", "done"}
CoreStates == {"none", "pending", "running", "completed", "errored"}

Locals ==
  [device: Devices \cup {NoDevice},          \* job.object, read once at entry
   copy: PyatsJobRow,                        \* the row last read
   row: {"none", "unsaved", "saved"},        \* snapshot / diff_row / run_row
   result: Outcomes,                         \* the status that row is built with
   linked: BOOLEAN,                          \* that row carries the input FKs
   match: BOOLEAN,                           \* its inputs belong to its device
   refused: BOOLEAN,                         \* the database refused the row
   raising: BOOLEAN,                         \* an exception leaves the callable
   tracked: BOOLEAN]                         \* no update of the PyatsJob row failed

NewRow(d) ==
  [status |-> "pending", device |-> d, core |-> FALSE, related |-> FALSE,
   started |-> FALSE, finished |-> FALSE, error |-> FALSE]

NewLocals(d) ==
  [device |-> d, copy |-> NewRow(NoDevice), row |-> "none", result |-> "error",
   linked |-> FALSE, match |-> TRUE, refused |-> FALSE, raising |-> FALSE, tracked |-> TRUE]

NoRequest ==
  [type |-> "capture", device |-> NoDevice, before |-> NoInput,
   after |-> NoInput, cross |-> FALSE]

TypeOK ==
  /\ devices \subseteq Devices
  /\ inputs \subseteq Inputs
  /\ owner \in [Inputs -> Devices]
  /\ rows \subseteq Jobs
  /\ table \in [Jobs -> PyatsJobRow]
  /\ results \subseteq Jobs
  /\ written \in [Jobs -> Nat]
  /\ outcome \in [Jobs -> Outcomes]
  /\ request \in [Jobs -> Request]
  /\ web \in [Jobs -> WebStates]
  /\ pc \in [Jobs -> WorkerStates]
  /\ mem \in [Jobs -> Locals]
  /\ core \in [Jobs -> CoreStates]

Init ==
  /\ devices = Devices
  /\ inputs = Inputs
  /\ owner = FirstOwner
  /\ rows = {}
  /\ table = [j \in Jobs |-> NewRow(NoDevice)]
  /\ results = {}
  /\ written = [j \in Jobs |-> 0]
  /\ outcome = [j \in Jobs |-> "error"]
  /\ request = [j \in Jobs |-> NoRequest]
  /\ web = [j \in Jobs |-> "idle"]
  /\ pc = [j \in Jobs |-> "none"]
  /\ mem = [j \in Jobs |-> NewLocals(NoDevice)]
  /\ core = [j \in Jobs |-> "none"]
-----------------------------------------------------------------------------
(* Tables *)

\* What full_clean() checks of a PyatsJob row that was read earlier: the rows
\* its foreign keys name are still there.
ForeignKeysExist(j, r) ==
  /\ r.device \in devices \cup {NoDevice}
  /\ r.related => j \in results

\* Model.save() of a whole PyatsJob row: an update, or an insert if the row
\* has been deleted since it was read.
SaveJob(j, r) ==
  /\ rows' = rows \cup {j}
  /\ table' = [table EXCEPT ![j] = r]

\* Deleting result rows or a device clears the links to them (SET_NULL).
ClearLinks(gone, d) ==
  table' = [j \in Jobs |->
              [table[j] EXCEPT !.related = @ /\ j \notin gone,
                               !.device = IF @ = d THEN NoDevice ELSE @]]
-----------------------------------------------------------------------------
(* The web process: the views and enqueue_* *)

\* The requests the views accept on the rows that exist.
CaptureRequests ==
  [type: JobTypes \cap CaptureTypes, device: devices, before: {NoInput},
   after: {NoInput}, cross: {FALSE}]

DiffRequests ==
  {r \in [type: JobTypes \cap {"diff"}, device: devices,
          before: inputs \cap Snapshots, after: inputs \cap Snapshots,
          cross: BOOLEAN] :
     /\ r.before # r.after
     /\ owner[r.before] = r.device
     /\ r.cross <=> owner[r.after] # r.device}

ComplianceRequests ==
  {r \in [type: JobTypes \cap {"compliance"}, device: devices,
          before: inputs \cap Goldens, after: inputs \cap Snapshots,
          cross: {FALSE}] :
     owner[r.before] = r.device /\ owner[r.after] = r.device}

\* The view accepts a request and enqueue_* creates the tracking row.
CreatePyatsJob(j) ==
  /\ web[j] = "idle"
  /\ \E r \in CaptureRequests \cup DiffRequests \cup ComplianceRequests :
       /\ request' = [request EXCEPT ![j] = r]
       /\ SaveJob(j, NewRow(r.device))
  /\ web' = [web EXCEPT ![j] = "created"]
  /\ UNCHANGED <<dbVars, pc, mem, core>>

\* Job.enqueue: the core.Job row is saved and the work pushed on the queue.
EnqueueCoreJob(j) ==
  /\ web[j] = "created"
  /\ web' = [web EXCEPT ![j] = "enqueued"]
  /\ pc' = [pc EXCEPT ![j] = "queued"]
  /\ core' = [core EXCEPT ![j] = "pending"]
  /\ UNCHANGED <<dbVars, rows, table, request, mem>>

\* The push raises (Redis is down) after both rows were saved.
EnqueueFails(j) ==
  /\ "enqueue" \in Faults
  /\ web[j] = "created"
  /\ web' = [web EXCEPT ![j] = "failed"]
  /\ core' = [core EXCEPT ![j] = "pending"]
  /\ UNCHANGED <<dbVars, rows, table, request, pc, mem>>

\* The row enqueue_* created, still in its memory, is saved again with the
\* core.Job link: every other column goes back to what it was at creation.
LinkCoreJob(j) ==
  LET row == [NewRow(request[j].device) EXCEPT !.core = TRUE]
  IN  /\ web[j] = "enqueued"
      /\ ForeignKeysExist(j, row)
      /\ SaveJob(j, row)
      /\ web' = [web EXCEPT ![j] = "linked"]
      /\ UNCHANGED <<dbVars, request, pc, mem, core>>

\* full_clean() rejects it: the device has been deleted meanwhile.
LinkFails(j) ==
  /\ web[j] = "enqueued"
  /\ ~ForeignKeysExist(j, NewRow(request[j].device))
  /\ web' = [web EXCEPT ![j] = "failed"]
  /\ UNCHANGED <<dbVars, rows, table, request, pc, mem, core>>
-----------------------------------------------------------------------------
(* The worker: how an exception travels *)

\* The mutated handlers below are what the runs' mutants put in its place.
OuterExceptAlwaysRecords(m) == "record_read"
OuterExceptPersists(m) == IF m.row = "none" THEN "record_read" ELSE "persist"

\* The outermost except of every callable: the error is recorded only while
\* the variable of the result row is still None.
OuterExcept(m) == IF m.row = "none" THEN "record_read" ELSE "leave"

Raise(j, m) ==
  /\ mem' = [mem EXCEPT ![j] = [m EXCEPT !.raising = TRUE]]
  /\ pc' = [pc EXCEPT ![j] = OuterExcept(m)]

Goto(j, m, label) ==
  /\ mem' = [mem EXCEPT ![j] = m]
  /\ pc' = [pc EXCEPT ![j] = label]

\* A read or save of the tracking row itself fails: the callable ends with
\* that exception, unless the row of the result lets the handler run.
Untracked(m) == [m EXCEPT !.tracked = FALSE, !.raising = TRUE]

\* objects.get(pk=pyats_job_id) finds the row and keeps a copy of it.
ReadJob(j, from, to) ==
  /\ pc[j] = from
  /\ j \in rows
  /\ Goto(j, [mem[j] EXCEPT !.copy = table[j]], to)
  /\ UNCHANGED <<dbVars, rows, table, request, web, core>>
-----------------------------------------------------------------------------
(* The worker: entry, _mark_running *)

PickUpUnlinked(j) ==
  /\ pc[j] = "queued"
  /\ LET d == request[j].device
     IN  Goto(j, NewLocals(IF d \in devices THEN d ELSE NoDevice), "mark_read")
  /\ core' = [core EXCEPT ![j] = "running"]
  /\ UNCHANGED <<dbVars, rows, table, request, web>>

\* RQ hands the job to a worker; job.object is None for a deleted device.
PickUp(j) ==
  /\ pc[j] = "queued"
  /\ LinkFirst => web[j] \in {"linked", "failed"}
  /\ LET d == request[j].device
     IN  Goto(j, NewLocals(IF d \in devices THEN d ELSE NoDevice), "mark_read")
  /\ core' = [core EXCEPT ![j] = "running"]
  /\ UNCHANGED <<dbVars, rows, table, request, web>>

MarkRunningRead(j) == ReadJob(j, "mark_read", "mark_save")

MarkRunningSave(j) ==
  LET m == mem[j]
  IN  /\ pc[j] = "mark_save"
      /\ ForeignKeysExist(j, m.copy)
      /\ SaveJob(j, [m.copy EXCEPT !.status = "running", !.started = TRUE])
      /\ Goto(j, m, IF request[j].type \in CompareTypes THEN "load" ELSE "compute")
      /\ UNCHANGED <<dbVars, request, web, core>>

\* Both happen before the try: nothing catches the exception.
MarkRunningFails(j) ==
  /\ \/ pc[j] = "mark_read" /\ j \notin rows
     \/ pc[j] = "mark_save" /\ ~ForeignKeysExist(j, mem[j].copy)
  /\ Goto(j, Untracked(mem[j]), "leave")
  /\ UNCHANGED <<dbVars, rows, table, request, web, core>>
-----------------------------------------------------------------------------
(* The worker: the inputs of run_diff_job and run_compliance_job *)

InputsExist(r) == {r.before, r.after} \subseteq inputs

SameDevice(r, d) == owner[r.before] = d /\ owner[r.after] = d

LoadGuardDropped(r, d) == TRUE

\* The worker's own device check: a cross-device diff skips it.
LoadGuard(r, d) == r.cross \/ SameDevice(r, d)

\* What clean() of the result row will compare with its device.
CleanMatches(r, d) ==
  owner[r.before] = d /\ (r.type = "compliance" => owner[r.after] = d)

LoadInputs(j) ==
  LET r == request[j]
      m == mem[j]
  IN  /\ pc[j] = "load"
      /\ InputsExist(r)
      /\ LoadGuard(r, m.device)
      /\ Goto(j, [m EXCEPT !.linked = TRUE, !.match = CleanMatches(r, m.device)],
              "compute")
      /\ UNCHANGED <<dbVars, rows, table, request, web, core>>

\* An input is gone, or belongs to another device by now: the error row that
\* says so is built first, and the variable holds it before it is saved.  (A
\* device that is None has taken its inputs with it.)
InputsRejected(j) ==
  LET r == request[j]
      m == mem[j]
  IN  /\ pc[j] = "load"
      /\ ~InputsExist(r) \/ ~LoadGuard(r, m.device)
      /\ Goto(j, [m EXCEPT !.linked = InputsExist(r), !.match = FALSE,
                           !.row = "unsaved", !.raising = TRUE],
              "persist")
      /\ UNCHANGED <<dbVars, rows, table, request, web, core>>

-----------------------------------------------------------------------------
(* The worker: the computation and its result row *)

RowAfterComputeAssignedEarly(r) == "unsaved"

\* capture_snapshot_job assigns its variable when _persist_snapshot returns;
\* the other callables assign the row they are about to save.
RowAfterCompute(r) == IF r.type = "capture" THEN "none" ELSE "unsaved"

ComputeReturns(j) ==
  /\ pc[j] = "compute"
  /\ request[j].type \in CaptureTypes => mem[j].device # NoDevice
  /\ \E res \in Outcomes :
       Goto(j, [mem[j] EXCEPT !.result = res, !.row = RowAfterCompute(request[j])],
            "persist")
  /\ UNCHANGED <<dbVars, rows, table, request, web, core>>

\* _persist_error_row is given an error row to save, and the exception leaves.
ComputeRaises(j) ==
  /\ pc[j] = "compute"
  /\ Goto(j, [mem[j] EXCEPT !.result = "error", !.raising = TRUE], "persist")
  /\ UNCHANGED <<dbVars, rows, table, request, web, core>>

\* full_clean() of the result row, with the clean() of its model.
ResultValid(j, m) ==
  /\ m.device \in devices
  /\ m.linked => InputsExist(request[j])
  /\ m.result = "error" \/ m.match

PersistResult(j) ==
  LET m == mem[j]
  IN  /\ pc[j] = "persist"
      /\ ResultValid(j, m)
      /\ results' = results \cup {j}
      /\ written' = [written EXCEPT ![j] = @ + 1]
      /\ outcome' = [outcome EXCEPT ![j] = m.result]
      /\ Goto(j, [m EXCEPT !.row = "saved"], "finish_read")
      /\ UNCHANGED <<devices, inputs, owner, rows, table, request, web, core>>

\* Not valid, or refused by the database: _persist_error_row swallows the
\* exception of that save, the other paths let it travel.
PersistFails(j) ==
  /\ pc[j] = "persist"
  /\ "save" \in Faults \/ ~ResultValid(j, mem[j])
  /\ Raise(j, [mem[j] EXCEPT !.refused = ResultValid(j, mem[j])])
  /\ UNCHANGED <<dbVars, rows, table, request, web, core>>
-----------------------------------------------------------------------------
(* The worker: _finish_success, _record_error, and the way out *)

FinishSuccessRead(j) == ReadJob(j, "finish_read", "finish_save")

FinishedStatusKept(copy) == [copy EXCEPT !.related = TRUE, !.finished = TRUE]

FinishedCompleted(copy) ==
  [copy EXCEPT !.status = "completed", !.related = TRUE, !.finished = TRUE]

Finished(copy) ==
  [copy EXCEPT !.status = "success", !.related = TRUE, !.finished = TRUE]

FinishUnchecked(j, r) == TRUE
FinishChecked(j, r) == ForeignKeysExist(j, r)

FinishSuccessSave(j) ==
  LET row == Finished(mem[j].copy)
  IN  /\ pc[j] = "finish_save"
      /\ FinishChecked(j, row)
      /\ SaveJob(j, row)
      /\ Goto(j, mem[j], "leave")
      /\ UNCHANGED <<dbVars, request, web, core>>

FinishSuccessFails(j) ==
  /\ \/ pc[j] = "finish_read" /\ j \notin rows
     \/ pc[j] = "finish_save" /\ ~FinishChecked(j, Finished(mem[j].copy))
  /\ Raise(j, Untracked(mem[j]))
  /\ UNCHANGED <<dbVars, rows, table, request, web, core>>

RecordErrorRead(j) == ReadJob(j, "record_read", "record_save")

RecordErrorSave(j) ==
  LET row == [mem[j].copy EXCEPT !.status = "error", !.error = TRUE, !.finished = TRUE]
  IN  /\ pc[j] = "record_save"
      /\ ForeignKeysExist(j, row)
      /\ SaveJob(j, row)
      /\ Goto(j, mem[j], "leave")
      /\ UNCHANGED <<dbVars, request, web, core>>

\* _record_error swallows what goes wrong in it.
RecordErrorFails(j) ==
  /\ \/ pc[j] = "record_read" /\ j \notin rows
     \/ pc[j] = "record_save" /\ ~ForeignKeysExist(j, mem[j].copy)
  /\ Goto(j, Untracked(mem[j]), "leave")
  /\ UNCHANGED <<dbVars, rows, table, request, web, core>>

\* The callable returns or raises, and NetBox closes the core.Job.
Return(j) ==
  /\ pc[j] = "leave"
  /\ Goto(j, mem[j], "done")
  /\ core' = [core EXCEPT ![j] = IF mem[j].raising THEN "errored" ELSE "completed"]
  /\ UNCHANGED <<dbVars, rows, table, request, web>>

\* The worker process dies; RQ does not run the job again.
Crash(j) ==
  /\ "crash" \in Faults
  /\ pc[j] \in CallableStates
  /\ pc' = [pc EXCEPT ![j] = "crashed"]
  /\ UNCHANGED <<dbVars, rows, table, request, web, mem, core>>
-----------------------------------------------------------------------------
(* Operators who delete and edit rows while jobs are under way *)

\* on_delete: snapshots, goldens and result rows go with their device.
DeleteDevice(d) ==
  LET gone == {j \in results : request[j].device = d}
  IN  /\ "delete" \in Faults
      /\ d \in devices
      /\ devices' = devices \ {d}
      /\ inputs' = {i \in inputs : owner[i] # d}
      /\ results' = results \ gone
      /\ ClearLinks(gone, d)
      /\ UNCHANGED <<owner, rows, written, outcome, request, web, pc, mem, core>>

DeleteInput(i) ==
  /\ "delete" \in Faults
  /\ i \in inputs
  /\ inputs' = inputs \ {i}
  /\ UNCHANGED <<devices, owner, results, written, outcome, rows, table, request,
                 web, pc, mem, core>>

DeleteResult(j) ==
  /\ "delete" \in Faults
  /\ j \in results
  /\ results' = results \ {j}
  /\ ClearLinks({j}, NoDevice)
  /\ UNCHANGED <<devices, inputs, owner, rows, written, outcome, request, web,
                 pc, mem, core>>

DeletePyatsJob(j) ==
  /\ "delete" \in Faults
  /\ j \in rows
  /\ rows' = rows \ {j}
  /\ table' = [table EXCEPT ![j] = NewRow(NoDevice)]
  /\ UNCHANGED <<dbVars, request, web, pc, mem, core>>

\* The golden form and the REST API let an operator move a golden config.
EditGolden(g, d) ==
  /\ "edit" \in Faults
  /\ g \in inputs \cap Goldens
  /\ d \in devices \ {owner[g]}
  /\ owner' = [owner EXCEPT ![g] = d]
  /\ UNCHANGED <<devices, inputs, results, written, outcome, rows, table,
                 request, web, pc, mem, core>>
-----------------------------------------------------------------------------
WebStep(j) == EnqueueCoreJob(j) \/ EnqueueFails(j) \/ LinkCoreJob(j) \/ LinkFails(j)

WorkerStep(j) ==
  \/ PickUp(j)
  \/ MarkRunningRead(j) \/ MarkRunningSave(j) \/ MarkRunningFails(j)
  \/ LoadInputs(j) \/ InputsRejected(j)
  \/ ComputeReturns(j) \/ ComputeRaises(j)
  \/ PersistResult(j) \/ PersistFails(j)
  \/ FinishSuccessRead(j) \/ FinishSuccessSave(j) \/ FinishSuccessFails(j)
  \/ RecordErrorRead(j) \/ RecordErrorSave(j) \/ RecordErrorFails(j)
  \/ Return(j)

JobStep(j) ==
  \/ CreatePyatsJob(j)
  \/ WebStep(j)
  \/ WorkerStep(j)
  \/ Crash(j)
  \/ DeleteResult(j)
  \/ DeletePyatsJob(j)

OperatorStep ==
  \/ \E d \in Devices : DeleteDevice(d)
  \/ \E i \in Inputs : DeleteInput(i)
  \/ \E g \in Goldens, d \in Devices : EditGolden(g, d)

Next == (\E j \in Jobs : JobStep(j)) \/ OperatorStep

Spec == Init /\ [][Next]_vars

\* A request that has begun runs to its end and workers keep working; nobody
\* has to request, delete or edit anything, and no fault has to happen.
Fairness == \A j \in Jobs : WF_vars(WebStep(j)) /\ WF_vars(WorkerStep(j))

FairSpec == Spec /\ Fairness
-----------------------------------------------------------------------------
(* What every job promises, however the web and the worker interleave *)

\* The run of a job writes at most one result row: the error row of a run that
\* raised is never followed by a second row. Nothing in the code runs a job
\* twice; a second run asked for by hand is not in the model.
AtMostOneResult == \A j \in Jobs : written[j] <= 1

ErrorRow(j) ==
  table[j].error \/ table[j].status = "error" =>
    /\ table[j].status = "error" /\ table[j].error /\ table[j].finished
    /\ ~table[j].related
    /\ written[j] = 0

\* The error text of a PyatsJob covers "the one case the result row's
\* parser_warnings cannot (no result row was written)".
ErrorMeansNoResult == \A j \in rows : ErrorRow(j)

SuccessRow(j) ==
  table[j].related \/ table[j].status = "success" =>
    /\ table[j].status = "success" /\ table[j].finished
    /\ written[j] = 1

\* A job shown as success did write its result row, whose own status says
\* how it went; only such a job links to a result row.
SuccessMeansResult == \A j \in rows : SuccessRow(j)

\* No save of a row read earlier writes back a foreign key to a row that has
\* been deleted since.
NoDanglingLink == \A j \in rows : ForeignKeysExist(j, table[j])

\* The core.Job, which the callables re-raise to, is completed only if the
\* run wrote its result row.
CompletedMeansResult ==
  \A j \in Jobs : core[j] = "completed" => written[j] = 1

\* Inputs that were deleted or moved before the worker loaded them end in an
\* error row, as long as the database takes it and its device is still there.
BadInputsReported ==
  \A j \in Jobs :
    /\ pc[j] = "done" /\ mem[j].tracked /\ ~mem[j].match /\ ~mem[j].refused
    /\ request[j].device \in devices
    /\ mem[j].linked => InputsExist(request[j])
    => written[j] = 1 /\ outcome[j] = "error"
-----------------------------------------------------------------------------
(* What they promise when no worker overtakes the enqueueing request *)

\* "pending (enqueued, not yet picked up)": once the callable is past
\* _mark_running the row says so, unless that update itself failed.
PendingMeansNotPickedUp ==
  \A j \in rows :
    table[j].status = "pending" =>
      \/ pc[j] \in {"none", "queued", "mark_read", "mark_save", "crashed"}
      \/ ~mem[j].tracked

\* The core.Job link, once saved, is never overwritten.
CoreLinkKept ==
  [][\A j \in rows \cap rows' : table[j].core => table'[j].core]_<<rows, table>>

Settled(j) == j \in rows /\ table[j].status \in {"success", "error"}

\* "error when the job raised and the result row could not be written": a
\* callable that has ended, and could update its row, has settled it.
EveryRunAccounted ==
  \A j \in rows : pc[j] = "done" /\ mem[j].tracked => Settled(j)

\* For capture_snapshot_job, the callable that keeps this promise.
CaptureAccounted ==
  \A j \in rows :
    request[j].type = "capture" /\ pc[j] = "done" /\ mem[j].tracked => Settled(j)

\* A job that cannot be settled any more: its row is gone, its worker died, or
\* it could not be marked running, as its device was deleted meanwhile.
Lost(j) == j \notin rows \/ pc[j] = "crashed" \/ (pc[j] = "done" /\ ~mem[j].tracked)

\* Every request the operator gets a confirmation for is settled some day,
\* unless it is lost or, in the callables that assign their row before they
\* save it, the database did not take that row.
EveryRequestSettles ==
  \A j \in Jobs :
    web[j] = "linked" ~>
      \/ Settled(j)
      \/ Lost(j)
      \/ request[j].type # "capture" /\ pc[j] = "done" /\ mem[j].row = "unsaved"
-----------------------------------------------------------------------------
(* The inductive invariant the proofs rest on *)

BeforeRunning == {"none", "queued", "mark_read", "mark_save"}
Unsettled == (CallableStates \cup {"none", "queued"}) \ {"leave"}

Fresh(r) == r.status \in {"pending", "running"} /\ ~r.error /\ ~r.related

\* The variable of the result row, the exception and the count of result
\* rows agree with where the callable is.
CallableInv(j) ==
  /\ written[j] = IF mem[j].row = "saved" THEN 1 ELSE 0
  /\ pc[j] \in BeforeRunning \cup {"load", "compute", "record_read", "record_save"} =>
       mem[j].row = "none"
  /\ pc[j] = "persist" => mem[j].row # "saved"
  /\ pc[j] \in {"finish_read", "finish_save"} => mem[j].row = "saved"
  /\ pc[j] \in {"record_read", "record_save"} => mem[j].raising
  /\ pc[j] = "leave" /\ ~mem[j].raising => mem[j].row = "saved"
  /\ web[j] \in {"idle", "created"} => pc[j] = "none"
  /\ core[j] = "completed" => written[j] = 1

\* Until the callable settles the row, the row and every copy of it are fresh.
RowInv(j) ==
  /\ pc[j] \in Unsettled => Fresh(table[j])
  /\ pc[j] \in BeforeRunning => table[j].status = "pending"
  /\ pc[j] \in {"mark_save", "finish_save", "record_save"} => Fresh(mem[j].copy)
  /\ ErrorRow(j)
  /\ SuccessRow(j)

JobInv == \A j \in Jobs : CallableInv(j) /\ RowInv(j)
-----------------------------------------------------------------------------
(* PyatsJobs implements JobLifecycle *)

shownStatus == [j \in Jobs |-> IF j \in rows THEN table[j].status ELSE "absent"]
hasProduced == [j \in Jobs |-> written[j] > 0]

Lifecycle == INSTANCE JobLifecycle WITH status <- shownStatus, produced <- hasProduced

\* The jobs view shows each job going through the promised lifecycle.
ImplementsLifecycle == Lifecycle!Spec
=============================================================================
