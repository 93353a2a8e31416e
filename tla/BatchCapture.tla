----------------------------- MODULE BatchCapture -----------------------------
(***************************************************************************)
(* The batch capture job: one job that captures many devices in turn,      *)
(* enqueued by the device list's bulk action or by a capture schedule.     *)
(* Source: jobs.py, enqueue_batch_capture and batch_capture_job.           *)
(*                                                                         *)
(* PyatsJobs splits each update of a tracking row into a read and a save;  *)
(* here each is one action, and what is kept apart is what a batch adds:   *)
(* the loop, its counters, and devices that disappear at any point of it.  *)
(***************************************************************************)
EXTENDS Naturals

CONSTANTS
  Batches,    \* primary keys of the PyatsJob rows of batch jobs
  Devices,    \* primary keys of dcim.Device rows
  NoDevice,   \* no device in hand
  NoSummary,  \* the empty summary a PyatsJob row starts with
  Repeats,    \* how often a queryset with joins may return one device
  Faults,     \* what the environment may do, a subset of AllFaults
  LinkFirst   \* whether a worker leaves a job alone until it is linked

AllFaults == {"enqueue", "save", "crash", "device", "job"}

Counts == [supported: Nat, unsupported: Nat, errored: Nat, total: Nat]

ASSUME BatchAssumption ==
  /\ NoDevice \notin Devices
  /\ NoSummary \notin Counts
  /\ Repeats \in Nat \ {0}
  /\ Faults \subseteq AllFaults
  /\ LinkFirst \in BOOLEAN

VARIABLES
  devices,  \* device rows that exist
  rows,     \* PyatsJob rows that exist
  status,   \* their status columns
  summary,  \* their summary columns
  asked,    \* how often each device is in the device_ids of the job
  web,      \* where the enqueueing process is
  pc,       \* where the worker is in batch_capture_job
  todo,     \* how often each device is still to come in the loop
  device,   \* the device in hand
  counts,   \* the local dictionary counts
  stored,   \* how many snapshots the batch has saved
  captured, \* the devices of those snapshots
  refused   \* the batches that have had a snapshot refused by the database

rowVars == <<rows, status, summary>>
workVars == <<pc, todo, device, counts, stored, captured, refused>>
batchVars == <<devices, rowVars, asked, web, workVars>>
-----------------------------------------------------------------------------
(* Types *)

StatusChoices == {"pending", "running", "success", "partial", "error"}
WebStates == {"idle", "created", "enqueued", "linked", "failed"}
CallableStates == {"loop", "capture", "persist", "record"}
WorkerStates == CallableStates \cup {"none", "queued", "done", "crashed"}

NoCounts == [supported |-> 0, unsupported |-> 0, errored |-> 0, total |-> 0]
Nothing == [d \in Devices |-> 0]

TypeOK ==
  /\ devices \subseteq Devices
  /\ rows \subseteq Batches
  /\ status \in [Batches -> StatusChoices]
  /\ summary \in [Batches -> Counts \cup {NoSummary}]
  /\ asked \in [Batches -> [Devices -> Nat]]
  /\ web \in [Batches -> WebStates]
  /\ pc \in [Batches -> WorkerStates]
  /\ todo \in [Batches -> [Devices -> Nat]]
  /\ device \in [Batches -> Devices \cup {NoDevice}]
  /\ counts \in [Batches -> Counts]
  /\ stored \in [Batches -> Nat]
  /\ captured \in [Batches -> SUBSET Devices]
  /\ refused \subseteq Batches

BatchInit ==
  /\ devices = Devices
  /\ rows = {}
  /\ status = [b \in Batches |-> "pending"]
  /\ summary = [b \in Batches |-> NoSummary]
  /\ asked = [b \in Batches |-> Nothing]
  /\ web = [b \in Batches |-> "idle"]
  /\ pc = [b \in Batches |-> "none"]
  /\ todo = [b \in Batches |-> Nothing]
  /\ device = [b \in Batches |-> NoDevice]
  /\ counts = [b \in Batches |-> NoCounts]
  /\ stored = [b \in Batches |-> 0]
  /\ captured = [b \in Batches |-> {}]
  /\ refused = {}
-----------------------------------------------------------------------------
(* The enqueueing process *)

\* What evaluating a queryset over the devices in ds may return now.
Returned(ds) ==
  {f \in [Devices -> 0..Repeats] : \A d \in Devices : f[d] > 0 <=> d \in ds \cap devices}

\* Whole-row save of the tracking row: an insert if it has been deleted.
SaveRow(b, st, sum) ==
  /\ rows' = rows \cup {b}
  /\ status' = [status EXCEPT ![b] = st]
  /\ summary' = [summary EXCEPT ![b] = sum]

\* device_ids is read off the queryset and the tracking row created.
CreateBatchJob(b, ds) ==
  /\ web[b] = "idle"
  /\ \E ids \in Returned(ds) : asked' = [asked EXCEPT ![b] = ids]
  /\ SaveRow(b, "pending", NoSummary)
  /\ web' = [web EXCEPT ![b] = "created"]
  /\ UNCHANGED <<devices, workVars>>

\* Job.enqueue saves the core.Job and pushes the work.
EnqueueBatch(b) ==
  /\ web[b] = "created"
  /\ web' = [web EXCEPT ![b] = "enqueued"]
  /\ pc' = [pc EXCEPT ![b] = "queued"]
  /\ UNCHANGED <<devices, rowVars, asked, todo, device, counts, stored, captured, refused>>

\* The push raises.
EnqueueBatchFails(b) ==
  /\ "enqueue" \in Faults
  /\ web[b] = "created"
  /\ web' = [web EXCEPT ![b] = "failed"]
  /\ UNCHANGED <<devices, rowVars, asked, workVars>>

\* The row as it was created is saved again, with the core.Job link.
LinkBatch(b) ==
  /\ web[b] = "enqueued"
  /\ SaveRow(b, "pending", NoSummary)
  /\ web' = [web EXCEPT ![b] = "linked"]
  /\ UNCHANGED <<devices, asked, workVars>>
-----------------------------------------------------------------------------
(* The worker *)

\* Entry and _mark_running, which raises if the row has been deleted.
StartBatch(b) ==
  /\ pc[b] = "queued"
  /\ LinkFirst => web[b] = "linked"
  /\ b \in rows
  /\ SaveRow(b, "running", summary[b])
  /\ pc' = [pc EXCEPT ![b] = "loop"]
  /\ todo' = [todo EXCEPT ![b] = asked[b]]
  /\ UNCHANGED <<devices, asked, web, device, counts, stored, captured, refused>>

StartBatchFails(b) ==
  /\ pc[b] = "queued"
  /\ LinkFirst => web[b] = "linked"
  /\ b \notin rows
  /\ pc' = [pc EXCEPT ![b] = "done"]
  /\ UNCHANGED <<devices, rowVars, asked, web, todo, device, counts, stored, captured, refused>>

Bump(b, key) == counts' = [counts EXCEPT ![b][key] = @ + 1]

\* The next id of the loop still names a device.
TakeDevice(b, d) ==
  /\ pc[b] = "loop"
  /\ todo[b][d] > 0
  /\ d \in devices
  /\ todo' = [todo EXCEPT ![b][d] = @ - 1]
  /\ device' = [device EXCEPT ![b] = d]
  /\ Bump(b, "total")
  /\ pc' = [pc EXCEPT ![b] = "capture"]
  /\ UNCHANGED <<devices, rowVars, asked, web, stored, captured, refused>>

SkipDeletedCounting(b, d) ==
  /\ pc[b] = "loop"
  /\ todo[b][d] > 0
  /\ d \notin devices
  /\ todo' = [todo EXCEPT ![b][d] = @ - 1]
  /\ Bump(b, "total")
  /\ UNCHANGED <<devices, rowVars, asked, web, pc, device, stored, captured, refused>>

\* It does not: the device drops out of the iteration.
SkipDeleted(b, d) ==
  /\ pc[b] = "loop"
  /\ todo[b][d] > 0
  /\ d \notin devices
  /\ todo' = [todo EXCEPT ![b][d] = @ - 1]
  /\ UNCHANGED <<devices, rowVars, asked, web, pc, device, counts, stored, captured, refused>>

CountFailureRaises(b, key) ==
  /\ pc[b] = "capture"
  /\ pc' = [pc EXCEPT ![b] = "record"]
  /\ UNCHANGED <<devices, rowVars, asked, web, todo, device, counts, stored, captured, refused>>

\* The capture raises or returns a result that is not stored.
CountFailure(b, key) ==
  /\ pc[b] = "capture"
  /\ Bump(b, key)
  /\ device' = [device EXCEPT ![b] = NoDevice]
  /\ pc' = [pc EXCEPT ![b] = "loop"]
  /\ UNCHANGED <<devices, rowVars, asked, web, todo, stored, captured, refused>>

CaptureFails(b) == CountFailure(b, "errored")
CaptureUnsupported(b) == CountFailure(b, "unsupported")

CaptureSucceeds(b) ==
  /\ pc[b] = "capture"
  /\ pc' = [pc EXCEPT ![b] = "persist"]
  /\ UNCHANGED <<devices, rowVars, asked, web, todo, device, counts, stored, captured, refused>>

\* _persist_snapshot, then the count.
PersistSnapshot(b) ==
  /\ pc[b] = "persist"
  /\ device[b] \in devices
  /\ stored' = [stored EXCEPT ![b] = @ + 1]
  /\ captured' = [captured EXCEPT ![b] = @ \cup {device[b]}]
  /\ Bump(b, "supported")
  /\ device' = [device EXCEPT ![b] = NoDevice]
  /\ pc' = [pc EXCEPT ![b] = "loop"]
  /\ UNCHANGED <<devices, rowVars, asked, web, todo, refused>>

PersistFailureCounted(b) ==
  /\ pc[b] = "persist"
  /\ "save" \in Faults \/ device[b] \notin devices
  /\ Bump(b, "supported")
  /\ device' = [device EXCEPT ![b] = NoDevice]
  /\ pc' = [pc EXCEPT ![b] = "loop"]
  /\ UNCHANGED <<devices, rowVars, asked, web, todo, stored, captured, refused>>

\* It raises outside the per-device try: the device was deleted during its
\* capture, or the database refuses the row.
PersistSnapshotFails(b) ==
  /\ pc[b] = "persist"
  /\ "save" \in Faults \/ device[b] \notin devices
  /\ refused' = IF device[b] \in devices THEN refused \cup {b} ELSE refused
  /\ pc' = [pc EXCEPT ![b] = "record"]
  /\ UNCHANGED <<devices, rowVars, asked, web, todo, device, counts, stored, captured>>

FinalStatus(c) == IF c.errored > 0 \/ c.unsupported > 0 THEN "partial" ELSE "success"

\* _finish_success or _finish_partial, with the summary.
FinishBatch(b) ==
  /\ pc[b] = "loop"
  /\ todo[b] = Nothing
  /\ b \in rows
  /\ SaveRow(b, FinalStatus(counts[b]), counts[b])
  /\ pc' = [pc EXCEPT ![b] = "done"]
  /\ UNCHANGED <<devices, asked, web, todo, device, counts, stored, captured, refused>>

FinishBatchFails(b) ==
  /\ pc[b] = "loop"
  /\ todo[b] = Nothing
  /\ b \notin rows
  /\ pc' = [pc EXCEPT ![b] = "record"]
  /\ UNCHANGED <<devices, rowVars, asked, web, todo, device, counts, stored, captured, refused>>

RecordErrorInLogOnly(b) ==
  /\ pc[b] = "record"
  /\ pc' = [pc EXCEPT ![b] = "done"]
  /\ UNCHANGED <<devices, rowVars, asked, web, todo, device, counts, stored, captured, refused>>

\* The outer except: _record_error, which swallows its own failure.
RecordBatchError(b) ==
  /\ pc[b] = "record"
  /\ IF b \in rows THEN SaveRow(b, "error", summary[b]) ELSE UNCHANGED rowVars
  /\ pc' = [pc EXCEPT ![b] = "done"]
  /\ UNCHANGED <<devices, asked, web, todo, device, counts, stored, captured, refused>>

CrashBatch(b) ==
  /\ "crash" \in Faults
  /\ pc[b] \in CallableStates
  /\ pc' = [pc EXCEPT ![b] = "crashed"]
  /\ UNCHANGED <<devices, rowVars, asked, web, todo, device, counts, stored, captured, refused>>
-----------------------------------------------------------------------------
(* Operators *)

DeleteDevice(d) ==
  /\ "device" \in Faults
  /\ devices' = devices \ {d}
  /\ UNCHANGED <<rowVars, asked, web, workVars>>

DeleteBatchJob(b) ==
  /\ "job" \in Faults
  /\ b \in rows
  /\ rows' = rows \ {b}
  /\ UNCHANGED <<devices, status, summary, asked, web, workVars>>
-----------------------------------------------------------------------------
\* The bulk action of the device list enqueues a batch of the chosen devices.
BulkCapture(b) == \E ds \in SUBSET devices \ {{}} : CreateBatchJob(b, ds)

BatchWebStep(b) == EnqueueBatch(b) \/ EnqueueBatchFails(b) \/ LinkBatch(b)

BatchWorkerStep(b) ==
  \/ StartBatch(b) \/ StartBatchFails(b)
  \/ \E d \in Devices : TakeDevice(b, d) \/ SkipDeleted(b, d)
  \/ CaptureFails(b) \/ CaptureUnsupported(b) \/ CaptureSucceeds(b)
  \/ PersistSnapshot(b) \/ PersistSnapshotFails(b)
  \/ FinishBatch(b) \/ FinishBatchFails(b) \/ RecordBatchError(b)

BatchEnvironment ==
  \/ \E b \in Batches : CrashBatch(b) \/ DeleteBatchJob(b)
  \/ \E d \in devices : DeleteDevice(d)

BatchNext ==
  \/ \E b \in Batches : BulkCapture(b) \/ BatchWebStep(b) \/ BatchWorkerStep(b)
  \/ BatchEnvironment

BatchSpec == BatchInit /\ [][BatchNext]_batchVars

\* An enqueueing process and a worker that have begun go on.
BatchFairness ==
  \A b \in Batches : WF_batchVars(BatchWebStep(b)) /\ WF_batchVars(BatchWorkerStep(b))

FairBatchSpec == BatchSpec /\ BatchFairness
-----------------------------------------------------------------------------
(* Properties *)

InHand(b) == IF pc[b] \in {"capture", "persist"} THEN 1 ELSE 0

\* Every iterated device is counted exactly once, and as supported exactly if
\* its snapshot was saved; a batch that raised or died has lost one at most.
CountsMatchWork ==
  \A b \in Batches :
    LET c == counts[b]
        settled == c.supported + c.unsupported + c.errored
    IN  /\ c.supported = stored[b]
        /\ pc[b] \in CallableStates \ {"record"} => c.total = settled + InHand(b)
        /\ settled <= c.total /\ c.total <= settled + 1

\* The summary an operator reads is the outcome of the whole loop: what it
\* says was captured was stored, no asked device is left out uncounted, and
\* success means every device asked for that is still there.
SummaryIsFinal ==
  \A b \in rows :
    status[b] \in {"success", "partial"} =>
      /\ summary[b] # NoSummary
      /\ summary[b].supported = stored[b]
      /\ summary[b].total = summary[b].supported + summary[b].unsupported + summary[b].errored
      /\ todo[b] = Nothing
      /\ status[b] = "partial" <=> summary[b].errored + summary[b].unsupported > 0
      /\ status[b] = "success" =>
           \A d \in Devices : asked[b][d] > 0 => d \in captured[b] \/ d \notin devices

\* A failed or unsupported capture never ends the batch: it only ends in
\* error on a snapshot that the database refuses or whose device is gone, or,
\* all devices done, because its row went before it could be finished and came
\* back with the late save of the enqueueing request.
OnlyPersistenceAborts ==
  \A b \in rows :
    status[b] = "error" =>
      \/ device[b] # NoDevice /\ (b \in refused \/ device[b] \notin devices)
      \/ device[b] = NoDevice /\ todo[b] = Nothing

\* A batch that is linked before its worker begins ends, whatever devices are
\* deleted and saves refused, unless its worker dies or its row is deleted.
EveryBatchEnds ==
  \A b \in Batches :
    (web[b] = "linked" /\ pc[b] = "queued") ~>
      \/ status[b] \in {"success", "partial", "error"}
      \/ pc[b] = "crashed"
      \/ b \notin rows
=============================================================================
