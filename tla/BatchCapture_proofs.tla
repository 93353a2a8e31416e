-------------------------- MODULE BatchCapture_proofs --------------------------
(***************************************************************************)
(* Proofs about BatchCapture: that its invariants hold for any sets of     *)
(* batches and devices, whatever is deleted, refused or killed.            *)
(***************************************************************************)
EXTENDS BatchCapture, TLAPS

LEMMA TypeInit == BatchInit => TypeOK
  BY DEF BatchInit, TypeOK, NoCounts, Counts, Nothing, StatusChoices, WebStates,
         WorkerStates, CallableStates

LEMMA TypeWeb ==
  ASSUME TypeOK, NEW b \in Batches, BulkCapture(b) \/ BatchWebStep(b)
  PROVE  TypeOK'
<1> USE DEF TypeOK, StatusChoices, WebStates, WorkerStates, CallableStates, batchVars,
            rowVars, workVars, SaveRow
<1>1. CASE BulkCapture(b)
  <2>1. PICK ds \in SUBSET devices : CreateBatchJob(b, ds)
    BY <1>1 DEF BulkCapture
  <2>2. Returned(ds) \subseteq [Devices -> Nat]
    BY BatchAssumption DEF Returned
  <2>3. asked' \in [Batches -> [Devices -> Nat]]
    BY <2>1, <2>2 DEF CreateBatchJob
  <2> QED
    BY <2>1, <2>3 DEF CreateBatchJob
<1>2. CASE BatchWebStep(b)
  BY <1>2 DEF BatchWebStep, EnqueueBatch, EnqueueBatchFails, LinkBatch
<1> QED
  BY <1>1, <1>2

LEMMA CountsBumped ==
  ASSUME TypeOK, NEW b \in Batches,
         NEW key \in {"supported", "unsupported", "errored", "total"}, Bump(b, key)
  PROVE  /\ counts' \in [Batches -> Counts]
         /\ \A c \in Batches : c # b => counts'[c] = counts[c]
         /\ counts'[b].supported = counts[b].supported + (IF key = "supported" THEN 1 ELSE 0)
         /\ counts'[b].unsupported = counts[b].unsupported + (IF key = "unsupported" THEN 1 ELSE 0)
         /\ counts'[b].errored = counts[b].errored + (IF key = "errored" THEN 1 ELSE 0)
         /\ counts'[b].total = counts[b].total + (IF key = "total" THEN 1 ELSE 0)
BY DEF TypeOK, Bump, Counts

LEMMA TypeWorker ==
  ASSUME TypeOK, NEW b \in Batches, BatchWorkerStep(b)
  PROVE  TypeOK'
<1> USE DEF TypeOK, StatusChoices, WebStates, WorkerStates, CallableStates, batchVars,
            rowVars, workVars, SaveRow
<1>1. CASE StartBatch(b)
  <2>1. todo' \in [Batches -> [Devices -> Nat]]
    BY <1>1 DEF StartBatch
  <2>2. /\ status' \in [Batches -> StatusChoices]
        /\ summary' \in [Batches -> Counts \cup {NoSummary}]
        /\ rows' \subseteq Batches
    BY <1>1 DEF StartBatch
  <2> QED
    BY <1>1, <2>1, <2>2 DEF StartBatch
<1>8. CASE StartBatchFails(b)
  BY <1>8 DEF StartBatchFails
<1>2. ASSUME NEW d \in Devices, TakeDevice(b, d)
      PROVE  TypeOK'
  <2>1. counts' \in [Batches -> Counts]
    BY <1>2, CountsBumped DEF TakeDevice
  <2>2. todo' \in [Batches -> [Devices -> Nat]]
    BY <1>2 DEF TakeDevice
  <2> QED
    BY <1>2, <2>1, <2>2 DEF TakeDevice
<1>3. ASSUME NEW d \in Devices, SkipDeleted(b, d)
      PROVE  TypeOK'
  BY <1>3 DEF SkipDeleted
<1>4. CASE CaptureFails(b) \/ CaptureUnsupported(b)
  <2>1. counts' \in [Batches -> Counts]
    BY <1>4, CountsBumped DEF CaptureFails, CaptureUnsupported, CountFailure
  <2> QED
    BY <1>4, <2>1 DEF CaptureFails, CaptureUnsupported, CountFailure
<1>5. CASE CaptureSucceeds(b) \/ PersistSnapshotFails(b)
  BY <1>5 DEF CaptureSucceeds, PersistSnapshotFails
<1>6. CASE PersistSnapshot(b)
  <2>1. counts' \in [Batches -> Counts]
    BY <1>6, CountsBumped DEF PersistSnapshot
  <2>2. device[b] \in Devices
    BY <1>6 DEF PersistSnapshot
  <2>3. captured' \in [Batches -> SUBSET Devices]
    BY <1>6, <2>2 DEF PersistSnapshot
  <2>4. stored' \in [Batches -> Nat]
    BY <1>6 DEF PersistSnapshot
  <2> QED
    BY <1>6, <2>1, <2>3, <2>4 DEF PersistSnapshot
<1>7. CASE FinishBatch(b)
  BY <1>7 DEF FinishBatch, FinalStatus
<1>9. CASE FinishBatchFails(b)
  BY <1>9 DEF FinishBatchFails
<1>10. CASE RecordBatchError(b)
  <2>1. CASE b \in rows
    <3>1. SaveRow(b, "error", summary[b])
      BY <1>10, <2>1 DEF RecordBatchError
    <3> QED
      BY <1>10, <3>1 DEF RecordBatchError
  <2>2. CASE b \notin rows
    BY <1>10, <2>2 DEF RecordBatchError
  <2> QED
    BY <2>1, <2>2
<1> QED
  BY <1>1, <1>2, <1>3, <1>4, <1>5, <1>6, <1>7, <1>8,
     <1>9, <1>10
  DEF BatchWorkerStep

LEMMA TypeStep == TypeOK /\ [BatchNext]_batchVars => TypeOK'
<1> SUFFICES ASSUME TypeOK, [BatchNext]_batchVars
             PROVE  TypeOK'
  OBVIOUS
<1> USE DEF batchVars, rowVars, workVars
<1>1. CASE UNCHANGED batchVars
  BY <1>1 DEF TypeOK
<1>2. CASE BatchEnvironment
  BY <1>2 DEF BatchEnvironment, CrashBatch, DeleteBatchJob, DeleteDevice, TypeOK,
              WorkerStates, CallableStates
<1> QED
  BY <1>1, <1>2, TypeWeb, TypeWorker DEF BatchNext

\* TypeOK: the rows, locals and counters of every batch keep their types,
\* whatever the queryset returns and the environment does.
THEOREM BatchTypeCorrect == BatchSpec => []TypeOK
  BY TypeInit, TypeStep, PTL DEF BatchSpec
-----------------------------------------------------------------------------
(* The invariant: what the loop's locals and a batch's row say of its work. *)

\* No worker has a job before it is pushed, and none has counted before it
\* starts; the device in hand is there from its count to its outcome.
InStep(b) ==
  /\ web[b] \in {"idle", "created", "failed"} => pc[b] = "none"
  /\ pc[b] \in {"none", "queued"} => counts[b] = NoCounts /\ stored[b] = 0
  /\ pc[b] \in {"none", "queued", "loop"} => device[b] = NoDevice
  /\ pc[b] \in {"capture", "persist"} => device[b] # NoDevice

\* CountsMatchWork of one batch.
Counted(b) ==
  /\ counts[b].supported = stored[b]
  /\ pc[b] \in {"loop", "capture", "persist"} =>
       counts[b].total = counts[b].supported + counts[b].unsupported + counts[b].errored + InHand(b)
  /\ counts[b].supported + counts[b].unsupported + counts[b].errored <= counts[b].total
  /\ counts[b].total <= counts[b].supported + counts[b].unsupported + counts[b].errored + 1

\* A device that was asked for is still to come, in hand, captured or gone,
\* unless some capture has failed.
Missed(b) == counts[b].errored + counts[b].unsupported > 0

Covered(b) ==
  pc[b] \in {"loop", "capture", "persist"} =>
    \A d \in devices :
      asked[b][d] > 0 =>
        todo[b][d] > 0 \/ device[b] = d \/ d \in captured[b] \/ Missed(b)

Reason(b) ==
  \/ device[b] # NoDevice /\ (b \in refused \/ device[b] \notin devices)
  \/ device[b] = NoDevice /\ todo[b] = Nothing

\* A final row is that of a worker that is done, and nothing changes it but
\* its deletion and the late save of the enqueueing request.
Outcome(b) ==
  /\ pc[b] = "record" => Reason(b)
  /\ b \in rows /\ status[b] = "error" => pc[b] = "done" /\ Reason(b)
  /\ b \in rows /\ status[b] \in {"success", "partial"} =>
       /\ pc[b] = "done"
       /\ todo[b] = Nothing
       /\ summary[b] = counts[b]
       /\ counts[b].total = counts[b].supported + counts[b].unsupported + counts[b].errored
       /\ status[b] = "partial" <=> Missed(b)
       /\ status[b] = "success" =>
            \A d \in devices : asked[b][d] > 0 => d \in captured[b]

BatchInv(b) == InStep(b) /\ Counted(b) /\ Covered(b) /\ Outcome(b)

\* What a batch's part of the invariant reads; devices may only go.
Same(b) ==
  /\ devices' \subseteq devices
  /\ b \in rows' <=> b \in rows
  /\ b \in refused' <=> b \in refused
  /\ <<status[b], summary[b], asked[b], web[b], pc[b], todo[b], device[b], counts[b],
       stored[b], captured[b]>>'
       = <<status[b], summary[b], asked[b], web[b], pc[b], todo[b], device[b], counts[b],
           stored[b], captured[b]>>

LEMMA SameKeeps ==
  ASSUME NEW b \in Batches, TypeOK, BatchInv(b), Same(b)
  PROVE  BatchInv(b)'
<1>1. InStep(b)'
  BY DEF BatchInv, Same, InStep
<1>2. Counted(b)'
  BY DEF BatchInv, Same, Counted, InHand
<1>3. Covered(b)'
  BY DEF BatchInv, Same, Covered, Missed
<1>4. Outcome(b)'
  BY DEF BatchInv, Same, Outcome, Reason, Missed, Nothing
<1> QED
  BY <1>1, <1>2, <1>3, <1>4 DEF BatchInv

\* A step of one batch leaves the others as they are.
LEMMA OthersSame ==
  ASSUME TypeOK, NEW b \in Batches, NEW c \in Batches, c # b,
         BulkCapture(b) \/ BatchWebStep(b) \/ BatchWorkerStep(b) \/ CrashBatch(b)
           \/ DeleteBatchJob(b)
  PROVE  Same(c)
<1> USE DEF TypeOK, Same, SaveRow, batchVars, rowVars, workVars
<1>1. CASE BulkCapture(b) \/ BatchWebStep(b)
  BY <1>1 DEF BulkCapture, CreateBatchJob, BatchWebStep, EnqueueBatch, EnqueueBatchFails, LinkBatch
<1>2. CASE StartBatch(b) \/ StartBatchFails(b)
  BY <1>2 DEF StartBatch, StartBatchFails
<1>3. CASE \E d \in Devices : TakeDevice(b, d) \/ SkipDeleted(b, d)
  BY <1>3 DEF TakeDevice, SkipDeleted, Bump
<1>4. CASE CaptureFails(b) \/ CaptureUnsupported(b) \/ CaptureSucceeds(b)
  BY <1>4 DEF CaptureFails, CaptureUnsupported, CountFailure, CaptureSucceeds, Bump
<1>5. CASE PersistSnapshot(b) \/ PersistSnapshotFails(b)
  BY <1>5 DEF PersistSnapshot, PersistSnapshotFails, Bump
<1>6. CASE FinishBatch(b) \/ FinishBatchFails(b)
  BY <1>6 DEF FinishBatch, FinishBatchFails
<1>7. CASE RecordBatchError(b)
  BY <1>7 DEF RecordBatchError
<1>8. CASE CrashBatch(b) \/ DeleteBatchJob(b)
  BY <1>8 DEF CrashBatch, DeleteBatchJob
<1> QED
  BY <1>1, <1>2, <1>3, <1>4, <1>5, <1>6, <1>7, <1>8 DEF BatchWorkerStep

LEMMA BatchInvInit == BatchInit => \A b \in Batches : BatchInv(b)
<1> SUFFICES ASSUME BatchInit, NEW b \in Batches
             PROVE  BatchInv(b)
  OBVIOUS
<1>1. InStep(b)
  BY DEF BatchInit, InStep
<1>2. Counted(b)
  BY DEF BatchInit, Counted, NoCounts
<1>3. Covered(b) /\ Outcome(b)
  BY DEF BatchInit, Covered, Outcome
<1> QED
  BY <1>1, <1>2, <1>3 DEF BatchInv

LEMMA BatchInvWeb ==
  ASSUME TypeOK, TypeOK', NEW b \in Batches, BatchInv(b), BulkCapture(b) \/ BatchWebStep(b)
  PROVE  BatchInv(b)'
<1> USE DEF TypeOK, SaveRow, rowVars, workVars
<1>1. InStep(b)'
  BY DEF BatchInv, InStep, BulkCapture, CreateBatchJob, BatchWebStep, EnqueueBatch,
         EnqueueBatchFails, LinkBatch
<1>2. Counted(b)'
  BY DEF BatchInv, InStep, Counted, InHand, NoCounts, BulkCapture, CreateBatchJob, BatchWebStep,
         EnqueueBatch, EnqueueBatchFails, LinkBatch
<1>3. Covered(b)'
  BY DEF BatchInv, InStep, Covered, Missed, BulkCapture, CreateBatchJob, BatchWebStep,
         EnqueueBatch, EnqueueBatchFails, LinkBatch
<1>4. Outcome(b)'
  BY DEF BatchInv, InStep, Outcome, Reason, Missed, Nothing, BulkCapture, CreateBatchJob,
         BatchWebStep, EnqueueBatch, EnqueueBatchFails, LinkBatch
<1> QED
  BY <1>1, <1>2, <1>3, <1>4 DEF BatchInv

LEMMA BatchInvStart ==
  ASSUME TypeOK, TypeOK', NEW b \in Batches, BatchInv(b), StartBatch(b) \/ StartBatchFails(b)
  PROVE  BatchInv(b)'
<1> USE DEF TypeOK, SaveRow, rowVars, StartBatch, StartBatchFails
<1>1. InStep(b)'
  BY DEF BatchInv, InStep
<1>2. Counted(b)'
  BY DEF BatchInv, InStep, Counted, InHand, NoCounts
<1>3. Covered(b)'
  BY DEF BatchInv, Covered, Missed
<1>4. Outcome(b)'
  BY DEF BatchInv, Outcome, Reason, Missed, Nothing
<1> QED
  BY <1>1, <1>2, <1>3, <1>4 DEF BatchInv

LEMMA BatchInvTake ==
  ASSUME TypeOK, TypeOK', NEW b \in Batches, BatchInv(b), NEW d \in Devices, TakeDevice(b, d)
  PROVE  BatchInv(b)'
<1>0. /\ counts'[b].supported = counts[b].supported
      /\ counts'[b].unsupported = counts[b].unsupported
      /\ counts'[b].errored = counts[b].errored
      /\ counts'[b].total = counts[b].total + 1
  BY CountsBumped DEF TakeDevice, TypeOK, Counts
<1> USE DEF TypeOK, TakeDevice, rowVars
<1>5. /\ device'[b] = d
      /\ \A e \in Devices \ {d} : todo'[b][e] = todo[b][e]
  OBVIOUS
<1>1. InStep(b)'
  BY BatchAssumption DEF BatchInv, InStep
<1>2. Counted(b)'
  BY <1>0 DEF BatchInv, Counted, InHand, Counts
<1>3. Covered(b)'
  <2> SUFFICES ASSUME NEW e \in devices, asked[b][e] > 0
               PROVE  todo'[b][e] > 0 \/ device'[b] = e \/ e \in captured[b] \/ Missed(b)'
    BY DEF Covered
  <2>1. CASE e = d
    BY <1>5, <2>1
  <2>2. CASE e # d
    <3>1. todo'[b][e] = todo[b][e] /\ device[b] = NoDevice /\ e \in Devices
      BY <1>5, <2>2 DEF BatchInv, InStep
    <3>2. todo[b][e] > 0 \/ e \in captured[b] \/ Missed(b)
      BY <3>1, BatchAssumption DEF BatchInv, Covered
    <3> QED
      BY <1>0, <3>1, <3>2 DEF Missed
  <2> QED
    BY <2>1, <2>2
<1>4. Outcome(b)'
  BY <1>0 DEF BatchInv, Outcome, Reason, Missed, Nothing
<1> QED
  BY <1>1, <1>2, <1>3, <1>4 DEF BatchInv

LEMMA BatchInvSkip ==
  ASSUME TypeOK, TypeOK', NEW b \in Batches, BatchInv(b), NEW d \in Devices, SkipDeleted(b, d)
  PROVE  BatchInv(b)'
<1> USE DEF TypeOK, SkipDeleted, rowVars
<1>1. InStep(b)'
  BY DEF BatchInv, InStep
<1>2. Counted(b)'
  BY DEF BatchInv, Counted, InHand
<1>3. Covered(b)'
  BY DEF BatchInv, Covered, Missed
<1>4. Outcome(b)'
  BY DEF BatchInv, Outcome, Reason, Missed, Nothing
<1> QED
  BY <1>1, <1>2, <1>3, <1>4 DEF BatchInv

LEMMA SumMoves ==
  ASSUME NEW s \in Nat, NEW u \in Nat, NEW e \in Nat, NEW t \in Nat,
         NEW v \in Nat, NEW f \in Nat, v + f = u + e + 1, t = s + (u + e) + 1
  PROVE  t = s + v + f
  OBVIOUS

LEMMA BatchInvCapture ==
  ASSUME TypeOK, TypeOK', NEW b \in Batches, BatchInv(b),
         NEW key \in {"unsupported", "errored"}, CountFailure(b, key)
  PROVE  BatchInv(b)'
<1>0. /\ counts'[b].supported = counts[b].supported
      /\ counts'[b].unsupported + counts'[b].errored = counts[b].unsupported + counts[b].errored + 1
      /\ counts'[b].total = counts[b].total
  <2>1. Bump(b, key)
    BY DEF CountFailure
  <2>2. {counts[b], counts'[b]} \subseteq Counts
    BY DEF TypeOK
  <2>3. CASE key = "unsupported"
    BY <2>1, <2>2, <2>3, CountsBumped DEF Counts
  <2>4. CASE key = "errored"
    BY <2>1, <2>2, <2>4, CountsBumped DEF Counts
  <2> QED
    BY <2>3, <2>4
<1> USE DEF TypeOK, CountFailure, rowVars
<1>5. {counts[b], counts'[b]} \subseteq Counts
  OBVIOUS
<1>6. stored'[b] = stored[b] /\ pc[b] = "capture" /\ pc'[b] = "loop"
  OBVIOUS
<1>1. InStep(b)'
  BY DEF BatchInv, InStep
<1>2. Counted(b)'
  <2>1. counts[b].total = counts[b].supported + (counts[b].unsupported + counts[b].errored) + 1
    BY <1>5, <1>6 DEF BatchInv, Counted, InHand, Counts
  <2> QED
    <3>1. counts[b].supported = stored[b] /\ stored'[b] = stored[b]
      BY <1>6 DEF BatchInv, Counted
    <3>2. counts'[b].total
            = counts'[b].supported + counts'[b].unsupported + counts'[b].errored
      <4> HIDE DEF TypeOK, CountFailure
      <4>1. /\ {counts[b].supported, counts[b].unsupported, counts[b].errored,
                 counts[b].total} \subseteq Nat
            /\ {counts'[b].unsupported, counts'[b].errored} \subseteq Nat
        BY <1>5 DEF Counts
      <4> QED
        BY <1>0, <2>1, <4>1, SumMoves
    <3> QED
      BY <1>0, <1>5, <1>6, <3>1, <3>2 DEF Counted, InHand, Counts
<1>3. Covered(b)'
  BY <1>0, <1>5 DEF BatchInv, Covered, Missed, Counts
<1>4. Outcome(b)'
  BY <1>0 DEF BatchInv, Outcome, Reason, Missed, Nothing
<1> QED
  BY <1>1, <1>2, <1>3, <1>4 DEF BatchInv

LEMMA BatchInvPersist ==
  ASSUME TypeOK, TypeOK', NEW b \in Batches, BatchInv(b), PersistSnapshot(b)
  PROVE  BatchInv(b)'
<1>0. /\ counts'[b].supported = counts[b].supported + 1
      /\ counts'[b].unsupported = counts[b].unsupported
      /\ counts'[b].errored = counts[b].errored
      /\ counts'[b].total = counts[b].total
  BY CountsBumped DEF PersistSnapshot, TypeOK, Counts
<1> USE DEF TypeOK, PersistSnapshot, rowVars
<1>1. InStep(b)'
  BY DEF BatchInv, InStep
<1>2. Counted(b)'
  BY <1>0 DEF BatchInv, Counted, InHand, Counts
<1>3. Covered(b)'
  BY <1>0 DEF BatchInv, Covered, Missed
<1>4. Outcome(b)'
  BY <1>0 DEF BatchInv, Outcome, Reason, Missed, Nothing
<1> QED
  BY <1>1, <1>2, <1>3, <1>4 DEF BatchInv

LEMMA BatchInvUncounted ==
  ASSUME TypeOK, TypeOK', NEW b \in Batches, BatchInv(b),
         CaptureSucceeds(b) \/ PersistSnapshotFails(b) \/ CrashBatch(b)
  PROVE  BatchInv(b)'
<1> USE DEF TypeOK, CaptureSucceeds, PersistSnapshotFails, CrashBatch, CallableStates, rowVars
<1>1. InStep(b)'
  BY DEF BatchInv, InStep
<1>2. Counted(b)'
  BY DEF BatchInv, Counted, InHand
<1>3. Covered(b)'
  BY DEF BatchInv, Covered, Missed
<1>4. Outcome(b)'
  BY DEF BatchInv, InStep, Outcome, Reason, Missed, Nothing
<1> QED
  BY <1>1, <1>2, <1>3, <1>4 DEF BatchInv

LEMMA BatchInvEnd ==
  ASSUME TypeOK, TypeOK', NEW b \in Batches, BatchInv(b),
         FinishBatch(b) \/ FinishBatchFails(b) \/ RecordBatchError(b)
  PROVE  BatchInv(b)'
<1> USE DEF TypeOK, FinishBatch, FinishBatchFails, RecordBatchError, SaveRow, rowVars
<1>1. InStep(b)'
  BY DEF BatchInv, InStep
<1>2. Counted(b)'
  BY DEF BatchInv, Counted, InHand
<1>3. Covered(b)'
  BY DEF BatchInv, Covered, Missed
<1>4. CASE FinishBatch(b)
  <2>1. /\ todo[b] = Nothing
        /\ counts[b].total = counts[b].supported + counts[b].unsupported + counts[b].errored
    BY <1>4 DEF BatchInv, Counted, InHand, Counts
  <2>2. ~Missed(b) => \A d \in devices : asked[b][d] > 0 => d \in captured[b]
    BY <1>4, <2>1, BatchAssumption DEF BatchInv, InStep, Covered, Nothing
  <2>3. status'[b] = "partial" <=> Missed(b)
    BY <1>4 DEF FinalStatus, Missed, Counts
  <2>4. Outcome(b)'
    BY <1>4, <2>1, <2>2, <2>3 DEF Outcome, Reason, Missed, Nothing, FinalStatus
  <2> QED
    BY <1>1, <1>2, <1>3, <2>4 DEF BatchInv
<1>5. CASE FinishBatchFails(b)
  BY <1>1, <1>2, <1>3, <1>5 DEF BatchInv, InStep, Outcome, Reason, Missed, Nothing
<1>6. CASE RecordBatchError(b)
  BY <1>1, <1>2, <1>3, <1>6 DEF BatchInv, InStep, Outcome, Reason, Missed, Nothing
<1> QED
  BY <1>4, <1>5, <1>6

LEMMA BatchInvStep ==
  TypeOK /\ TypeOK' /\ (\A b \in Batches : BatchInv(b)) /\ [BatchNext]_batchVars
    => (\A b \in Batches : BatchInv(b))'
<1> SUFFICES ASSUME TypeOK, TypeOK', \A b \in Batches : BatchInv(b), [BatchNext]_batchVars,
                    NEW c \in Batches
             PROVE  BatchInv(c)'
  OBVIOUS
<1>1. CASE UNCHANGED batchVars
  BY <1>1, SameKeeps DEF Same, batchVars, rowVars, workVars
<1>2. ASSUME NEW b \in Batches,
             BulkCapture(b) \/ BatchWebStep(b) \/ BatchWorkerStep(b) \/ CrashBatch(b)
               \/ DeleteBatchJob(b), c # b
      PROVE  BatchInv(c)'
  BY <1>2, OthersSame, SameKeeps
<1>3. CASE BulkCapture(c) \/ BatchWebStep(c)
  BY <1>3, BatchInvWeb
<1>4. CASE BatchWorkerStep(c)
  BY <1>4, BatchInvStart, BatchInvTake, BatchInvSkip, BatchInvCapture, BatchInvPersist,
     BatchInvUncounted, BatchInvEnd
     DEF BatchWorkerStep, CaptureFails, CaptureUnsupported
<1>5. CASE CrashBatch(c)
  BY <1>5, BatchInvUncounted
<1>6. CASE DeleteBatchJob(c)
  <2> USE DEF TypeOK, DeleteBatchJob, workVars
  <2>1. InStep(c)' /\ Counted(c)'
    BY <1>6 DEF BatchInv, InStep, Counted, InHand
  <2>2. Covered(c)'
    BY <1>6 DEF BatchInv, Covered, Missed
  <2>3. Outcome(c)'
    BY <1>6 DEF BatchInv, Outcome, Reason, Missed, Nothing
  <2> QED
    BY <2>1, <2>2, <2>3 DEF BatchInv
<1>7. ASSUME NEW d \in devices, DeleteDevice(d)
      PROVE  BatchInv(c)'
  BY <1>7, SameKeeps DEF DeleteDevice, Same, rowVars, workVars
<1> QED
  BY <1>1, <1>2, <1>3, <1>4, <1>5, <1>6, <1>7 DEF BatchNext, BatchEnvironment
-----------------------------------------------------------------------------
(* Theorems *)

\* Of every batch in every state: its locals, counters and row agree.
THEOREM BatchInvariant == BatchSpec => [](TypeOK /\ \A b \in Batches : BatchInv(b))
<1>1. BatchInit => TypeOK /\ \A b \in Batches : BatchInv(b)
  BY TypeInit, BatchInvInit
<1>2. (TypeOK /\ \A b \in Batches : BatchInv(b)) /\ [BatchNext]_batchVars
        => (TypeOK /\ \A b \in Batches : BatchInv(b))'
  BY TypeStep, BatchInvStep
<1> QED
  BY <1>1, <1>2, PTL DEF BatchSpec

\* CountsMatchWork: every device the loop reaches is counted once, and as
\* captured exactly if its snapshot was saved.
THEOREM CountsAreRight == BatchSpec => []CountsMatchWork
<1>1. TypeOK /\ (\A b \in Batches : BatchInv(b)) => CountsMatchWork
  BY DEF TypeOK, BatchInv, Counted, InHand, Counts, CountsMatchWork, CallableStates
<1> QED
  BY <1>1, BatchInvariant, PTL

\* SummaryIsFinal: a batch that reports success or partial success has gone
\* through all its devices, and its summary is what became of them.
THEOREM SummaryIsWhole == BatchSpec => []SummaryIsFinal
<1>1. TypeOK /\ (\A b \in Batches : BatchInv(b)) => SummaryIsFinal
  BY BatchAssumption DEF TypeOK, BatchInv, Counted, Outcome, Missed, Counts, SummaryIsFinal
<1> QED
  BY <1>1, BatchInvariant, PTL

\* OnlyPersistenceAborts: no failing capture ends a batch in error.
THEOREM AbortsAreRefusals == BatchSpec => []OnlyPersistenceAborts
<1>1. TypeOK /\ (\A b \in Batches : BatchInv(b)) => OnlyPersistenceAborts
  BY DEF TypeOK, BatchInv, Outcome, Reason, OnlyPersistenceAborts
<1> QED
  BY <1>1, BatchInvariant, PTL
=============================================================================
