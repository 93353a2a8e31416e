--------------------------- MODULE PyatsJobs_proofs ---------------------------
(***************************************************************************)
(* Proofs about PyatsJobs, for any sets of jobs, devices, inputs, job      *)
(* types and faults, and whether or not a worker may overtake the request  *)
(* that enqueued its job.                                                  *)
(***************************************************************************)
EXTENDS PyatsJobs, TLAPS

\* Only requests on existing rows, of the instance's types, are made.
LEMMA RequestsTyped ==
  ASSUME TypeOK,
         NEW r \in CaptureRequests \cup DiffRequests \cup ComplianceRequests
  PROVE  r \in Request /\ r.device \in devices
<1>1. CASE r \in CaptureRequests
  BY <1>1, ConstantsAssumption DEF TypeOK, CaptureRequests, Request
<1>2. CASE r \in DiffRequests
  BY <1>2, ConstantsAssumption DEF TypeOK, DiffRequests, Request, Inputs, CompareTypes
<1>3. CASE r \in ComplianceRequests
  BY <1>3, ConstantsAssumption DEF TypeOK, ComplianceRequests, Request, Inputs, CompareTypes
<1>4. QED BY <1>1, <1>2, <1>3

LEMMA NewRowTyped ==
  ASSUME NEW d \in Devices \cup {NoDevice} PROVE NewRow(d) \in PyatsJobRow
BY DEF NewRow, PyatsJobRow, StatusChoices

LEMMA NewLocalsTyped ==
  ASSUME NEW d \in Devices \cup {NoDevice} PROVE NewLocals(d) \in Locals
BY NewRowTyped DEF NewLocals, Locals, Outcomes
-----------------------------------------------------------------------------
(* Type correctness *)

LEMMA InitTypeOK == Init => TypeOK
BY ConstantsAssumption, NewRowTyped, NewLocalsTyped
   DEF Init, TypeOK, NoRequest, Request, Outcomes, WebStates, WorkerStates,
       CoreStates, CaptureTypes, Inputs

LEMMA WebTypeOK ==
  ASSUME TypeOK, NEW j \in Jobs, CreatePyatsJob(j) \/ WebStep(j)
  PROVE  TypeOK'
<1> USE DEF dbVars
<1>1. CASE CreatePyatsJob(j)
  <2>1. PICK r \in CaptureRequests \cup DiffRequests \cup ComplianceRequests :
          /\ request' = [request EXCEPT ![j] = r]
          /\ SaveJob(j, NewRow(r.device))
    BY <1>1 DEF CreatePyatsJob
  <2>2. r \in Request /\ r.device \in Devices
    BY RequestsTyped DEF TypeOK
  <2>3. NewRow(r.device) \in PyatsJobRow
    BY <2>2, NewRowTyped
  <2>4. QED
    BY <1>1, <2>1, <2>2, <2>3 DEF TypeOK, CreatePyatsJob, SaveJob, WebStates
<1>2. CASE EnqueueCoreJob(j)
  BY <1>2 DEF TypeOK, EnqueueCoreJob, WebStates, WorkerStates, CoreStates
<1>3. CASE EnqueueFails(j)
  BY <1>3 DEF TypeOK, EnqueueFails, WebStates, CoreStates
<1>4. CASE LinkCoreJob(j)
  <2>1. NewRow(request[j].device) \in PyatsJobRow
    BY NewRowTyped DEF TypeOK, Request
  <2>2. [NewRow(request[j].device) EXCEPT !.core = TRUE] \in PyatsJobRow
    BY <2>1 DEF PyatsJobRow
  <2>3. QED BY <1>4, <2>2 DEF TypeOK, LinkCoreJob, SaveJob, WebStates
<1>5. CASE LinkFails(j)
  BY <1>5 DEF TypeOK, LinkFails, WebStates
<1>6. QED BY <1>1, <1>2, <1>3, <1>4, <1>5 DEF WebStep

\* What the steps of a callable leave typed: a local record and a label.
LEMMA GotoTyped ==
  ASSUME TypeOK, NEW j \in Jobs, NEW m \in Locals, NEW label \in WorkerStates,
         Goto(j, m, label)
  PROVE  mem' \in [Jobs -> Locals] /\ pc' \in [Jobs -> WorkerStates]
BY DEF TypeOK, Goto

LEMMA RaiseTyped ==
  ASSUME TypeOK, NEW j \in Jobs, NEW m \in Locals, Raise(j, m)
  PROVE  mem' \in [Jobs -> Locals] /\ pc' \in [Jobs -> WorkerStates]
<1>1. [m EXCEPT !.raising = TRUE] \in Locals
  BY DEF Locals
<1>2. OuterExcept(m) \in WorkerStates
  BY DEF OuterExcept, WorkerStates, CallableStates
<1>3. QED BY <1>1, <1>2 DEF TypeOK, Raise

LEMMA RefusedTyped ==
  ASSUME NEW j, NEW m \in Locals
  PROVE  [m EXCEPT !.refused = ResultValid(j, m)] \in Locals
<1>1. ResultValid(j, m) \in BOOLEAN
  BY DEF ResultValid
<1>2. QED BY <1>1 DEF Locals

LEMMA SaveJobTyped ==
  ASSUME TypeOK, NEW j \in Jobs, NEW r \in PyatsJobRow, SaveJob(j, r)
  PROVE  rows' \subseteq Jobs /\ table' \in [Jobs -> PyatsJobRow]
BY DEF TypeOK, SaveJob

LEMMA UntrackedTyped == ASSUME NEW m \in Locals PROVE Untracked(m) \in Locals
BY DEF Untracked, Locals

LEMMA ReadJobTypeOK ==
  ASSUME TypeOK, NEW j \in Jobs, NEW from, NEW to \in WorkerStates,
         ReadJob(j, from, to)
  PROVE  TypeOK'
<1>1. [mem[j] EXCEPT !.copy = table[j]] \in Locals
  BY SMTT(30) DEF TypeOK, Locals
<1>2. QED BY <1>1, GotoTyped DEF ReadJob, TypeOK, dbVars

LEMMA EntryTypeOK ==
  ASSUME TypeOK, NEW j \in Jobs,
         \/ PickUp(j) \/ MarkRunningRead(j) \/ MarkRunningSave(j) \/ MarkRunningFails(j)
  PROVE  TypeOK'
<1> USE DEF dbVars
<1>1. mem[j] \in Locals /\ mem[j].copy \in PyatsJobRow
  BY DEF TypeOK, Locals
<1>2. CASE PickUp(j)
  <2>1. (IF request[j].device \in devices THEN request[j].device ELSE NoDevice)
          \in Devices \cup {NoDevice}
    BY DEF TypeOK
  <2>2. NewLocals(IF request[j].device \in devices THEN request[j].device ELSE NoDevice)
          \in Locals
    BY <2>1, NewLocalsTyped
  <2>3. mem' \in [Jobs -> Locals] /\ pc' \in [Jobs -> WorkerStates]
    BY <1>2, <2>2 DEF PickUp, Goto, TypeOK, WorkerStates, CallableStates
  <2>4. core' \in [Jobs -> CoreStates]
    BY <1>2 DEF PickUp, TypeOK, CoreStates
  <2>5. QED BY <1>2, <2>3, <2>4 DEF PickUp, TypeOK
<1>3. CASE MarkRunningRead(j)
  BY <1>3, ReadJobTypeOK DEF MarkRunningRead, WorkerStates, CallableStates
<1>4. CASE MarkRunningSave(j)
  <2>1. [mem[j].copy EXCEPT !.status = "running", !.started = TRUE] \in PyatsJobRow
    BY <1>1 DEF PyatsJobRow, StatusChoices
  <2>2. rows' \subseteq Jobs /\ table' \in [Jobs -> PyatsJobRow]
    BY <1>4, <2>1, SaveJobTyped DEF MarkRunningSave
  <2>3. mem' \in [Jobs -> Locals] /\ pc' \in [Jobs -> WorkerStates]
    BY <1>1, <1>4 DEF MarkRunningSave, Goto, TypeOK, WorkerStates, CallableStates
  <2>4. QED BY <1>4, <2>2, <2>3 DEF MarkRunningSave, TypeOK
<1>5. CASE MarkRunningFails(j)
  <2>1. mem' \in [Jobs -> Locals] /\ pc' \in [Jobs -> WorkerStates]
    BY <1>1, <1>5, UntrackedTyped
       DEF MarkRunningFails, Goto, TypeOK, WorkerStates, CallableStates
  <2>2. QED BY <1>5, <2>1 DEF MarkRunningFails, TypeOK
<1>6. QED BY <1>2, <1>3, <1>4, <1>5

LEMMA InputsTypeOK ==
  ASSUME TypeOK, NEW j \in Jobs, LoadInputs(j) \/ InputsRejected(j)
  PROVE  TypeOK'
<1> USE DEF dbVars
<1>1. mem[j] \in Locals
  BY DEF TypeOK
<1>2. CASE LoadInputs(j)
  <2>1. CleanMatches(request[j], mem[j].device) \in BOOLEAN
    BY DEF CleanMatches
  <2>2. [mem[j] EXCEPT !.linked = TRUE,
                       !.match = CleanMatches(request[j], mem[j].device)] \in Locals
    BY <1>1, <2>1 DEF Locals
  <2>3. mem' \in [Jobs -> Locals] /\ pc' \in [Jobs -> WorkerStates]
    BY <1>2, <2>2 DEF LoadInputs, Goto, TypeOK, WorkerStates, CallableStates
  <2>4. QED BY <1>2, <2>3 DEF LoadInputs, TypeOK
<1>3. CASE InputsRejected(j)
  <2>1. InputsExist(request[j]) \in BOOLEAN
    BY DEF InputsExist
  <2>2. [mem[j] EXCEPT !.linked = InputsExist(request[j]), !.match = FALSE,
                       !.row = "unsaved", !.raising = TRUE] \in Locals
    BY <1>1, <2>1 DEF Locals
  <2>3. mem' \in [Jobs -> Locals] /\ pc' \in [Jobs -> WorkerStates]
    BY <1>3, <2>2 DEF InputsRejected, Goto, TypeOK, WorkerStates, CallableStates
  <2>4. QED BY <1>3, <2>3 DEF InputsRejected, TypeOK
<1>4. QED BY <1>2, <1>3

LEMMA ResultTypeOK ==
  ASSUME TypeOK, NEW j \in Jobs,
         ComputeReturns(j) \/ ComputeRaises(j) \/ PersistResult(j) \/ PersistFails(j)
  PROVE  TypeOK'
<1> USE DEF dbVars
<1>1. mem[j] \in Locals
  BY DEF TypeOK
<1>2. CASE ComputeReturns(j)
  <2>1. PICK res \in Outcomes :
          Goto(j, [mem[j] EXCEPT !.result = res, !.row = RowAfterCompute(request[j])],
               "persist")
    BY <1>2 DEF ComputeReturns
  <2>2. [mem[j] EXCEPT !.result = res, !.row = RowAfterCompute(request[j])] \in Locals
    BY <1>1 DEF Locals, RowAfterCompute
  <2>3. mem' \in [Jobs -> Locals] /\ pc' \in [Jobs -> WorkerStates]
    BY <2>1, <2>2 DEF Goto, TypeOK, WorkerStates, CallableStates
  <2>4. QED BY <1>2, <2>3 DEF ComputeReturns, TypeOK
<1>3. CASE ComputeRaises(j)
  <2>1. [mem[j] EXCEPT !.result = "error", !.raising = TRUE] \in Locals
    BY <1>1 DEF Locals, Outcomes
  <2>2. mem' \in [Jobs -> Locals] /\ pc' \in [Jobs -> WorkerStates]
    BY <1>3, <2>1 DEF ComputeRaises, Goto, TypeOK, WorkerStates, CallableStates
  <2>3. QED BY <1>3, <2>2 DEF ComputeRaises, TypeOK
<1>4. CASE PersistResult(j)
  <2>1. [mem[j] EXCEPT !.row = "saved"] \in Locals
    BY <1>1 DEF Locals
  <2>2. mem' \in [Jobs -> Locals] /\ pc' \in [Jobs -> WorkerStates]
    BY <1>4, <2>1 DEF PersistResult, Goto, TypeOK, WorkerStates, CallableStates
  <2>3. outcome' \in [Jobs -> Outcomes] /\ written' \in [Jobs -> Nat]
    BY <1>1, <1>4 DEF PersistResult, TypeOK, Locals
  <2>4. QED BY <1>4, <2>2, <2>3 DEF PersistResult, TypeOK
<1>5. CASE PersistFails(j)
  <2> DEFINE m == [mem[j] EXCEPT !.refused = ResultValid(j, mem[j])]
  <2>1. m \in Locals
    BY <1>1, RefusedTyped
  <2>2. Raise(j, m)
    BY <1>5 DEF PersistFails
  <2>3. mem' \in [Jobs -> Locals] /\ pc' \in [Jobs -> WorkerStates]
    BY <2>1, <2>2, RaiseTyped
  <2>4. QED BY <1>5, <2>3 DEF PersistFails, TypeOK
<1>6. QED BY <1>2, <1>3, <1>4, <1>5

LEMMA FinishTypeOK ==
  ASSUME TypeOK, NEW j \in Jobs,
         FinishSuccessRead(j) \/ FinishSuccessSave(j) \/ FinishSuccessFails(j)
  PROVE  TypeOK'
<1> USE DEF dbVars
<1>1. mem[j] \in Locals /\ mem[j].copy \in PyatsJobRow
  BY DEF TypeOK, Locals
<1>2. CASE FinishSuccessRead(j)
  BY <1>2, ReadJobTypeOK DEF FinishSuccessRead, WorkerStates, CallableStates
<1>3. CASE FinishSuccessSave(j)
  <2>1. Finished(mem[j].copy) \in PyatsJobRow
    BY <1>1 DEF Finished, PyatsJobRow, StatusChoices
  <2>2. rows' \subseteq Jobs /\ table' \in [Jobs -> PyatsJobRow]
    BY <1>3, <2>1, SaveJobTyped DEF FinishSuccessSave
  <2>3. mem' \in [Jobs -> Locals] /\ pc' \in [Jobs -> WorkerStates]
    BY <1>1, <1>3 DEF FinishSuccessSave, Goto, TypeOK, WorkerStates, CallableStates
  <2>4. QED BY <1>3, <2>2, <2>3 DEF FinishSuccessSave, TypeOK
<1>4. CASE FinishSuccessFails(j)
  <2>1. Untracked(mem[j]) \in Locals
    BY <1>1, UntrackedTyped
  <2>2. mem' \in [Jobs -> Locals] /\ pc' \in [Jobs -> WorkerStates]
    BY <1>4, <2>1, RaiseTyped DEF FinishSuccessFails
  <2>3. QED BY <1>4, <2>2 DEF FinishSuccessFails, TypeOK
<1>5. QED BY <1>2, <1>3, <1>4

LEMMA RecordTypeOK ==
  ASSUME TypeOK, NEW j \in Jobs,
         RecordErrorRead(j) \/ RecordErrorSave(j) \/ RecordErrorFails(j)
  PROVE  TypeOK'
<1> USE DEF dbVars
<1>1. mem[j] \in Locals /\ mem[j].copy \in PyatsJobRow
  BY DEF TypeOK, Locals
<1>2. CASE RecordErrorRead(j)
  BY <1>2, ReadJobTypeOK DEF RecordErrorRead, WorkerStates, CallableStates
<1>3. CASE RecordErrorSave(j)
  <2>1. [mem[j].copy EXCEPT !.status = "error", !.error = TRUE, !.finished = TRUE]
          \in PyatsJobRow
    BY <1>1 DEF PyatsJobRow, StatusChoices
  <2>2. rows' \subseteq Jobs /\ table' \in [Jobs -> PyatsJobRow]
    BY <1>3, <2>1, SaveJobTyped DEF RecordErrorSave
  <2>3. mem' \in [Jobs -> Locals] /\ pc' \in [Jobs -> WorkerStates]
    BY <1>1, <1>3 DEF RecordErrorSave, Goto, TypeOK, WorkerStates, CallableStates
  <2>4. QED BY <1>3, <2>2, <2>3 DEF RecordErrorSave, TypeOK
<1>4. CASE RecordErrorFails(j)
  <2>1. Untracked(mem[j]) \in Locals
    BY <1>1, UntrackedTyped
  <2>2. mem' \in [Jobs -> Locals] /\ pc' \in [Jobs -> WorkerStates]
    BY <1>4, <2>1 DEF RecordErrorFails, Goto, TypeOK, WorkerStates, CallableStates
  <2>3. QED BY <1>4, <2>2 DEF RecordErrorFails, TypeOK
<1>5. QED BY <1>2, <1>3, <1>4

LEMMA ExitTypeOK ==
  ASSUME TypeOK, NEW j \in Jobs, Return(j) \/ Crash(j)
  PROVE  TypeOK'
<1>1. mem[j] \in Locals
  BY DEF TypeOK
<1>2. CASE Return(j)
  BY <1>1, <1>2 DEF Return, Goto, TypeOK, WorkerStates, CoreStates, dbVars
<1>3. CASE Crash(j)
  BY <1>3 DEF Crash, TypeOK, WorkerStates, dbVars
<1>4. QED BY <1>2, <1>3

LEMMA ClearLinksTyped ==
  ASSUME TypeOK, NEW gone, NEW d, ClearLinks(gone, d)
  PROVE  table' \in [Jobs -> PyatsJobRow]
BY ZenonT(30) DEF TypeOK, ClearLinks, PyatsJobRow

LEMMA DeletionTypeOK ==
  ASSUME TypeOK,
         \/ \E j \in Jobs : DeleteResult(j) \/ DeletePyatsJob(j)
         \/ OperatorStep
  PROVE  TypeOK'
<1>1. ASSUME NEW j \in Jobs, DeleteResult(j) PROVE TypeOK'
  BY <1>1, ClearLinksTyped DEF DeleteResult, TypeOK
<1>2. ASSUME NEW j \in Jobs, DeletePyatsJob(j) PROVE TypeOK'
  BY <1>2, NewRowTyped DEF DeletePyatsJob, TypeOK, dbVars
<1>3. ASSUME NEW d \in Devices, DeleteDevice(d) PROVE TypeOK'
  BY <1>3, ClearLinksTyped DEF DeleteDevice, TypeOK
<1>4. ASSUME NEW i \in Inputs, DeleteInput(i) PROVE TypeOK'
  BY <1>4 DEF DeleteInput, TypeOK
<1>5. ASSUME NEW g \in Goldens, NEW d \in Devices, EditGolden(g, d) PROVE TypeOK'
  BY <1>5 DEF EditGolden, TypeOK, Inputs
<1>6. QED BY <1>1, <1>2, <1>3, <1>4, <1>5 DEF OperatorStep

LEMMA NextTypeOK == TypeOK /\ [Next]_vars => TypeOK'
<1> SUFFICES ASSUME TypeOK, [Next]_vars PROVE TypeOK'
  OBVIOUS
<1>1. ASSUME NEW j \in Jobs, CreatePyatsJob(j) \/ WebStep(j) PROVE TypeOK'
  BY <1>1, WebTypeOK
<1>2. ASSUME NEW j \in Jobs, WorkerStep(j) \/ Crash(j) PROVE TypeOK'
  BY <1>2, EntryTypeOK, InputsTypeOK, ResultTypeOK, FinishTypeOK, RecordTypeOK,
     ExitTypeOK DEF WorkerStep
<1>3. ASSUME \/ \E j \in Jobs : DeleteResult(j) \/ DeletePyatsJob(j)
             \/ OperatorStep
      PROVE  TypeOK'
  BY <1>3, DeletionTypeOK
<1>4. CASE UNCHANGED vars
  BY <1>4 DEF vars, dbVars, TypeOK
<1>5. QED BY <1>1, <1>2, <1>3, <1>4 DEF Next, JobStep

\* Every behaviour keeps the tables, the web's and the worker's states typed.
THEOREM TypeCorrect == Spec => []TypeOK
<1>1. Init => TypeOK
  BY InitTypeOK
<1>2. TypeOK /\ [Next]_vars => TypeOK'
  BY NextTypeOK
<1>3. QED BY <1>1, <1>2, PTL DEF Spec
-----------------------------------------------------------------------------
(* The inductive invariant *)

Inv(j) == CallableInv(j) /\ RowInv(j)

\* A row's links may be cleared without disturbing what the invariant says
\* of the rest of it.
LEMMA LinksMayClear ==
  ASSUME TypeOK, TypeOK', NEW j \in Jobs, Inv(j),
         pc'[j] = pc[j], web'[j] = web[j], core'[j] = core[j],
         mem'[j] = mem[j], written'[j] = written[j],
         table'[j].status = table[j].status, table'[j].error = table[j].error,
         table'[j].finished = table[j].finished,
         table'[j].related => table[j].related
  PROVE  Inv(j)'
<1>1. CallableInv(j)'
  BY DEF Inv, CallableInv
<1>2. table[j].related \in BOOLEAN /\ table'[j].related \in BOOLEAN
  BY DEF TypeOK, PyatsJobRow
<1>3. (pc[j] \in Unsettled => Fresh(table[j]))' /\ ErrorRow(j)' /\ SuccessRow(j)'
  BY <1>2 DEF Inv, RowInv, Fresh, ErrorRow, SuccessRow
<1>4. (pc[j] \in BeforeRunning => table[j].status = "pending")'
  BY DEF Inv, RowInv
<1>5. (pc[j] \in {"mark_save", "finish_save", "record_save"} => Fresh(mem[j].copy))'
  BY DEF Inv, RowInv, Fresh
<1>6. QED BY <1>1, <1>3, <1>4, <1>5 DEF Inv, RowInv

\* A step of one job that changes no other job's row leaves their invariant.
LEMMA OthersKeepInv ==
  ASSUME TypeOK, TypeOK', NEW k \in Jobs, NEW j \in Jobs \ {k}, Inv(j),
         CreatePyatsJob(k) \/ WebStep(k) \/ WorkerStep(k) \/ Crash(k)
  PROVE  Inv(j)'
<1> USE DEF TypeOK, dbVars, SaveJob, Goto, Raise, ReadJob
<1>1. /\ pc'[j] = pc[j] /\ web'[j] = web[j] /\ core'[j] = core[j]
      /\ mem'[j] = mem[j] /\ written'[j] = written[j] /\ table'[j] = table[j]
  <2>1. CASE CreatePyatsJob(k)
    BY <2>1 DEF CreatePyatsJob
  <2>2. CASE WebStep(k)
    BY <2>2 DEF WebStep, EnqueueCoreJob, EnqueueFails, LinkCoreJob, LinkFails
  <2>3. CASE PickUp(k) \/ MarkRunningRead(k) \/ MarkRunningSave(k) \/ MarkRunningFails(k)
    BY <2>3 DEF PickUp, MarkRunningRead, MarkRunningSave, MarkRunningFails
  <2>4. CASE LoadInputs(k) \/ InputsRejected(k)
    BY <2>4 DEF LoadInputs, InputsRejected
  <2>5. CASE ComputeReturns(k) \/ ComputeRaises(k) \/ PersistResult(k) \/ PersistFails(k)
    BY <2>5 DEF ComputeReturns, ComputeRaises, PersistResult, PersistFails
  <2>6. CASE FinishSuccessRead(k) \/ FinishSuccessSave(k) \/ FinishSuccessFails(k)
    BY <2>6 DEF FinishSuccessRead, FinishSuccessSave, FinishSuccessFails
  <2>7. CASE RecordErrorRead(k) \/ RecordErrorSave(k) \/ RecordErrorFails(k)
    BY <2>7 DEF RecordErrorRead, RecordErrorSave, RecordErrorFails
  <2>8. CASE Return(k) \/ Crash(k)
    BY <2>8 DEF Return, Crash
  <2>9. QED BY <2>1, <2>2, <2>3, <2>4, <2>5, <2>6, <2>7, <2>8 DEF WorkerStep
<1>2. QED BY <1>1, LinksMayClear

LEMMA InitInv == ASSUME Init PROVE JobInv
BY DEF Init, JobInv, CallableInv, RowInv, ErrorRow, SuccessRow, Fresh, Unsettled,
       BeforeRunning, CallableStates, NewRow, NewLocals

LEMMA NewRowFresh == ASSUME NEW d PROVE Fresh(NewRow(d)) /\ NewRow(d).status = "pending"
BY DEF Fresh, NewRow

\* A row just created or reset satisfies whatever the invariant asks of a row.
LEMMA FreshRowInv ==
  ASSUME TypeOK, TypeOK', NEW j \in Jobs, Inv(j), Fresh(table'[j]), table'[j].status = "pending",
         pc'[j] = pc[j], mem'[j] = mem[j]
  PROVE  RowInv(j)'
<1>1. ErrorRow(j)' /\ SuccessRow(j)'
  BY DEF Fresh, ErrorRow, SuccessRow
<1>2. QED BY <1>1 DEF Inv, RowInv, Fresh

LEMMA WebKeepsInv ==
  ASSUME TypeOK, TypeOK', NEW j \in Jobs, Inv(j), CreatePyatsJob(j) \/ WebStep(j)
  PROVE  Inv(j)'
<1> USE DEF TypeOK, dbVars
<1>1. CASE CreatePyatsJob(j)
  <2>1. PICK r : SaveJob(j, NewRow(r.device))
    BY <1>1 DEF CreatePyatsJob
  <2>2. table'[j] = NewRow(r.device)
    BY <2>1 DEF SaveJob
  <2>3. RowInv(j)'
    BY <1>1, <2>2, NewRowFresh, FreshRowInv DEF CreatePyatsJob
  <2>4. CallableInv(j)'
    BY <1>1 DEF CreatePyatsJob, Inv, CallableInv
  <2>5. QED BY <2>3, <2>4 DEF Inv
<1>2. CASE EnqueueCoreJob(j)
  <2>1. pc[j] = "none"
    BY <1>2 DEF EnqueueCoreJob, Inv, CallableInv
  <2>2. QED
    BY <1>2, <2>1 DEF EnqueueCoreJob, Inv, CallableInv, RowInv, ErrorRow, SuccessRow,
                      Fresh, Unsettled, BeforeRunning, CallableStates
<1>3. CASE EnqueueFails(j)
  BY <1>3 DEF EnqueueFails, Inv, CallableInv, RowInv, ErrorRow, SuccessRow, Fresh
<1>4. CASE LinkCoreJob(j)
  <2>1. table'[j] = [NewRow(request[j].device) EXCEPT !.core = TRUE]
    BY <1>4 DEF LinkCoreJob, SaveJob
  <2>2. Fresh(table'[j]) /\ table'[j].status = "pending"
    BY <2>1 DEF Fresh, NewRow
  <2>3. RowInv(j)'
    BY <1>4, <2>2, FreshRowInv DEF LinkCoreJob
  <2>4. CallableInv(j)'
    BY <1>4 DEF LinkCoreJob, Inv, CallableInv
  <2>5. QED BY <2>3, <2>4 DEF Inv
<1>5. CASE LinkFails(j)
  BY <1>5 DEF LinkFails, Inv, CallableInv, RowInv, ErrorRow, SuccessRow, Fresh
<1>6. QED BY <1>1, <1>2, <1>3, <1>4, <1>5 DEF WebStep

\* A step of the callable that leaves the tables alone: what is left to show
\* is that the label it goes to suits the local variables it goes there with.
LEMMA GotoKeepsInv ==
  ASSUME TypeOK, NEW j \in Jobs, Inv(j), NEW m, NEW label, Goto(j, m, label),
         UNCHANGED <<table, written, web>>,
         core'[j] \in {core[j], "running"},
         pc[j] # "none",
         m.row = "saved" <=> mem[j].row = "saved",
         label \in BeforeRunning \cup {"load", "compute", "record_read", "record_save"} =>
           m.row = "none",
         label = "persist" => m.row # "saved",
         label \in {"finish_read", "finish_save"} => m.row = "saved",
         label \in {"record_read", "record_save"} => m.raising,
         label = "leave" => m.raising \/ m.row = "saved",
         label \in Unsettled => pc[j] \in Unsettled,
         label \in BeforeRunning => pc[j] \in BeforeRunning,
         label \in {"mark_save", "finish_save", "record_save"} => Fresh(m.copy)
  PROVE  Inv(j)'
<1>1. mem'[j] = m /\ pc'[j] = label
  BY DEF TypeOK, Goto
<1>2. CallableInv(j)'
  BY <1>1 DEF Inv, CallableInv
<1>3. RowInv(j)'
  BY <1>1 DEF Inv, RowInv, ErrorRow, SuccessRow, Fresh
<1>4. QED BY <1>2, <1>3 DEF Inv

LEMMA RaiseKeepsInv ==
  ASSUME TypeOK, NEW j \in Jobs, Inv(j), NEW m \in Locals, Raise(j, m),
         UNCHANGED <<table, written, web, core>>,
         pc[j] \in Unsettled \ {"none"},
         m.row = "saved" <=> mem[j].row = "saved"
  PROVE  Inv(j)'
<1> DEFINE n == [m EXCEPT !.raising = TRUE]
<1>1. n.row = m.row /\ n.raising
  BY DEF Locals
<1>2. Goto(j, n, OuterExcept(m))
  BY DEF Raise, Goto
<1>3. \/ OuterExcept(m) = "record_read" /\ m.row = "none"
      \/ OuterExcept(m) = "leave"
  BY DEF OuterExcept
<1>4. QED
  BY <1>1, <1>2, <1>3, GotoKeepsInv DEF BeforeRunning, Unsettled, CallableStates

LEMMA EntryKeepsInv ==
  ASSUME TypeOK, NEW j \in Jobs, Inv(j),
         \/ PickUp(j) \/ MarkRunningRead(j) \/ MarkRunningSave(j) \/ MarkRunningFails(j)
  PROVE  Inv(j)'
<1> USE DEF dbVars
<1>1. mem[j] \in Locals /\ mem[j].copy \in PyatsJobRow /\ table[j] \in PyatsJobRow
  BY DEF TypeOK, Locals
<1>2. CASE PickUp(j)
  <2>1. PICK d : Goto(j, NewLocals(d), "mark_read")
    BY <1>2 DEF PickUp
  <2>2. NewLocals(d).row = "none"
    BY DEF NewLocals
  <2>3. pc[j] = "queued" /\ mem[j].row = "none" /\ core'[j] = "running"
    BY <1>2 DEF PickUp, Inv, CallableInv, BeforeRunning, TypeOK
  <2>4. QED
    BY <1>2, <2>1, <2>2, <2>3, GotoKeepsInv
       DEF PickUp, BeforeRunning, Unsettled, CallableStates
<1>3. CASE MarkRunningRead(j)
  <2> DEFINE m == [mem[j] EXCEPT !.copy = table[j]]
  <2>1. pc[j] = "mark_read" /\ Goto(j, m, "mark_save")
    BY <1>3 DEF MarkRunningRead, ReadJob
  <2>2. m.row = mem[j].row /\ m.copy = table[j]
    BY <1>1 DEF Locals
  <2>3. mem[j].row = "none" /\ Fresh(table[j])
    BY <2>1 DEF Inv, CallableInv, RowInv, BeforeRunning, Unsettled, CallableStates
  <2>4. QED
    BY <1>3, <2>1, <2>2, <2>3, GotoKeepsInv
       DEF MarkRunningRead, ReadJob, BeforeRunning, Unsettled, CallableStates
<1>4. CASE MarkRunningSave(j)
  <2> DEFINE row == [mem[j].copy EXCEPT !.status = "running", !.started = TRUE]
  <2>1. pc[j] = "mark_save" /\ mem[j].row = "none" /\ Fresh(mem[j].copy)
    BY <1>4 DEF MarkRunningSave, Inv, CallableInv, RowInv, BeforeRunning
  <2>2. table'[j] = row /\ mem'[j] = mem[j] /\ pc'[j] \in {"load", "compute"}
    BY <1>4 DEF MarkRunningSave, SaveJob, Goto, TypeOK
  <2>3. Fresh(row)
    BY <1>1, <2>1 DEF Fresh, PyatsJobRow
  <2>4. CallableInv(j)'
    BY <1>4, <2>1, <2>2 DEF MarkRunningSave, Inv, CallableInv, BeforeRunning
  <2>5. RowInv(j)'
    BY <2>2, <2>3 DEF RowInv, ErrorRow, SuccessRow, Fresh, BeforeRunning
  <2>6. QED BY <2>4, <2>5 DEF Inv
<1>5. CASE MarkRunningFails(j)
  <2>1. Goto(j, Untracked(mem[j]), "leave") /\ pc[j] \in {"mark_read", "mark_save"}
    BY <1>5 DEF MarkRunningFails
  <2>2. Untracked(mem[j]).row = mem[j].row /\ Untracked(mem[j]).raising
    BY <1>1 DEF Untracked, Locals
  <2>3. QED
    BY <1>5, <2>1, <2>2, GotoKeepsInv
       DEF MarkRunningFails, BeforeRunning, Unsettled, CallableStates
<1>6. QED BY <1>2, <1>3, <1>4, <1>5

LEMMA InputsKeepInv ==
  ASSUME TypeOK, NEW j \in Jobs, Inv(j),
         LoadInputs(j) \/ InputsRejected(j)
  PROVE  Inv(j)'
<1> USE DEF dbVars
<1>1. mem[j] \in Locals
  BY DEF TypeOK
<1>2. pc[j] = "load" /\ mem[j].row = "none"
  BY DEF LoadInputs, InputsRejected, Inv, CallableInv
<1>3. CASE LoadInputs(j)
  <2>1. PICK b : Goto(j, [mem[j] EXCEPT !.linked = TRUE, !.match = b], "compute")
    BY <1>3 DEF LoadInputs
  <2>2. [mem[j] EXCEPT !.linked = TRUE, !.match = b].row = "none"
    BY <1>1, <1>2 DEF Locals
  <2>3. QED
    BY <1>2, <1>3, <2>1, <2>2, GotoKeepsInv
       DEF LoadInputs, BeforeRunning, Unsettled, CallableStates
<1>4. CASE InputsRejected(j)
  <2>1. PICK b : Goto(j, [mem[j] EXCEPT !.linked = b, !.match = FALSE,
                            !.row = "unsaved", !.raising = TRUE], "persist")
    BY <1>4 DEF InputsRejected
  <2>2. [mem[j] EXCEPT !.linked = b, !.match = FALSE,
                       !.row = "unsaved", !.raising = TRUE].row = "unsaved"
    BY <1>1 DEF Locals
  <2>3. QED
    BY <1>2, <1>4, <2>1, <2>2, GotoKeepsInv
       DEF InputsRejected, BeforeRunning, Unsettled, CallableStates
<1>5. QED BY <1>3, <1>4

LEMMA ResultKeepsInv ==
  ASSUME TypeOK, NEW j \in Jobs, Inv(j),
         ComputeReturns(j) \/ ComputeRaises(j) \/ PersistResult(j) \/ PersistFails(j)
  PROVE  Inv(j)'
<1> USE DEF dbVars
<1>1. mem[j] \in Locals
  BY DEF TypeOK
<1>2. CASE ComputeReturns(j)
  <2> DEFINE m(res) == [mem[j] EXCEPT !.result = res, !.row = RowAfterCompute(request[j])]
  <2>1. PICK res \in Outcomes : Goto(j, m(res), "persist")
    BY <1>2 DEF ComputeReturns
  <2>2. m(res).row \in {"none", "unsaved"}
    BY <1>1 DEF Locals, RowAfterCompute
  <2>3. pc[j] = "compute" /\ mem[j].row = "none"
    BY <1>2 DEF ComputeReturns, Inv, CallableInv
  <2>4. QED
    BY <1>2, <2>1, <2>2, <2>3, GotoKeepsInv
       DEF ComputeReturns, BeforeRunning, Unsettled, CallableStates
<1>3. CASE ComputeRaises(j)
  <2> DEFINE m == [mem[j] EXCEPT !.result = "error", !.raising = TRUE]
  <2>1. pc[j] = "compute" /\ mem[j].row = "none" /\ m.row = mem[j].row
    BY <1>1, <1>3 DEF ComputeRaises, Inv, CallableInv, Locals
  <2>2. QED
    BY <1>3, <2>1, GotoKeepsInv
       DEF ComputeRaises, BeforeRunning, Unsettled, CallableStates
<1>4. CASE PersistResult(j)
  <2> DEFINE m == [mem[j] EXCEPT !.row = "saved"]
  <2>1. pc[j] = "persist" /\ written[j] = 0
    BY <1>4 DEF PersistResult, Inv, CallableInv
  <2>2. mem'[j] = m /\ pc'[j] = "finish_read" /\ written'[j] = 1
    BY <1>4, <2>1 DEF PersistResult, Goto, TypeOK
  <2>3. m.row = "saved"
    BY <1>1 DEF Locals
  <2>4. CallableInv(j)'
    BY <1>4, <2>1, <2>2, <2>3 DEF PersistResult, Inv, CallableInv, BeforeRunning
  <2>5. Fresh(table[j])
    BY <2>1 DEF Inv, RowInv, Unsettled, CallableStates
  <2>6. RowInv(j)'
    BY <1>4, <2>2, <2>5
       DEF PersistResult, RowInv, ErrorRow, SuccessRow, Fresh, BeforeRunning
  <2>7. QED BY <2>4, <2>6 DEF Inv
<1>5. CASE PersistFails(j)
  <2> DEFINE m == [mem[j] EXCEPT !.refused = ResultValid(j, mem[j])]
  <2>1. m \in Locals /\ m.row = mem[j].row
    BY <1>1, RefusedTyped DEF Locals
  <2>2. Raise(j, m) /\ UNCHANGED <<dbVars, rows, table, request, web, core>>
    BY <1>5 DEF PersistFails
  <2>3. pc[j] = "persist"
    BY <1>5 DEF PersistFails
  <2>4. QED BY <2>1, <2>2, <2>3, RaiseKeepsInv DEF Unsettled, CallableStates
<1>6. QED BY <1>2, <1>3, <1>4, <1>5

LEMMA FinishKeepsInv ==
  ASSUME TypeOK, NEW j \in Jobs, Inv(j),
         FinishSuccessRead(j) \/ FinishSuccessSave(j) \/ FinishSuccessFails(j)
  PROVE  Inv(j)'
<1> USE DEF dbVars
<1>1. mem[j] \in Locals /\ mem[j].copy \in PyatsJobRow
  BY DEF TypeOK, Locals
<1>2. pc[j] \in {"finish_read", "finish_save"} /\ mem[j].row = "saved"
  BY DEF FinishSuccessRead, FinishSuccessSave, FinishSuccessFails, ReadJob, Inv, CallableInv
<1>3. CASE FinishSuccessRead(j)
  <2> DEFINE m == [mem[j] EXCEPT !.copy = table[j]]
  <2>1. pc[j] = "finish_read" /\ Goto(j, m, "finish_save")
    BY <1>3 DEF FinishSuccessRead, ReadJob
  <2>2. m.row = mem[j].row /\ m.copy = table[j]
    BY <1>1 DEF Locals
  <2>3. Fresh(table[j])
    BY <2>1 DEF Inv, RowInv, Unsettled, CallableStates
  <2>4. QED
    BY <1>2, <1>3, <2>1, <2>2, <2>3, GotoKeepsInv
       DEF FinishSuccessRead, ReadJob, BeforeRunning, Unsettled, CallableStates
<1>4. CASE FinishSuccessSave(j)
  <2> DEFINE row == Finished(mem[j].copy)
  <2>1. pc[j] = "finish_save" /\ Fresh(mem[j].copy) /\ written[j] = 1
    BY <1>2, <1>4 DEF FinishSuccessSave, Inv, CallableInv, RowInv
  <2>2. table'[j] = row /\ mem'[j] = mem[j] /\ pc'[j] = "leave"
    BY <1>4 DEF FinishSuccessSave, SaveJob, Goto, TypeOK
  <2>3. row.status = "success" /\ row.finished /\ ~row.error
    BY <1>1, <2>1 DEF Finished, Fresh, PyatsJobRow
  <2>4. CallableInv(j)'
    BY <1>2, <1>4, <2>2 DEF FinishSuccessSave, Inv, CallableInv, BeforeRunning
  <2>5. RowInv(j)'
    BY <1>4, <2>1, <2>2, <2>3
       DEF FinishSuccessSave, RowInv, ErrorRow, SuccessRow, BeforeRunning, Unsettled
  <2>6. QED BY <2>4, <2>5 DEF Inv
<1>5. CASE FinishSuccessFails(j)
  <2>1. Untracked(mem[j]) \in Locals /\ Untracked(mem[j]).row = mem[j].row
    BY <1>1, UntrackedTyped DEF Untracked, Locals
  <2>2. QED
    BY <1>2, <1>5, <2>1, RaiseKeepsInv DEF FinishSuccessFails, Unsettled, CallableStates
<1>6. QED BY <1>3, <1>4, <1>5

LEMMA RecordKeepsInv ==
  ASSUME TypeOK, NEW j \in Jobs, Inv(j),
         RecordErrorRead(j) \/ RecordErrorSave(j) \/ RecordErrorFails(j)
  PROVE  Inv(j)'
<1> USE DEF dbVars
<1>1. mem[j] \in Locals /\ mem[j].copy \in PyatsJobRow
  BY DEF TypeOK, Locals
<1>2. /\ pc[j] \in {"record_read", "record_save"}
      /\ mem[j].row = "none" /\ mem[j].raising
  BY DEF RecordErrorRead, RecordErrorSave, RecordErrorFails, ReadJob, Inv, CallableInv
<1>3. CASE RecordErrorRead(j)
  <2> DEFINE m == [mem[j] EXCEPT !.copy = table[j]]
  <2>1. pc[j] = "record_read" /\ Goto(j, m, "record_save")
    BY <1>3 DEF RecordErrorRead, ReadJob
  <2>2. m.row = "none" /\ m.raising /\ m.copy = table[j]
    BY <1>1, <1>2 DEF Locals
  <2>3. Fresh(table[j])
    BY <2>1 DEF Inv, RowInv, Unsettled, CallableStates
  <2>4. QED
    BY <1>2, <1>3, <2>1, <2>2, <2>3, GotoKeepsInv
       DEF RecordErrorRead, ReadJob, BeforeRunning, Unsettled, CallableStates
<1>4. CASE RecordErrorSave(j)
  <2> DEFINE row == [mem[j].copy EXCEPT !.status = "error", !.error = TRUE, !.finished = TRUE]
  <2>1. pc[j] = "record_save" /\ Fresh(mem[j].copy) /\ written[j] = 0
    BY <1>2, <1>4 DEF RecordErrorSave, Inv, CallableInv, RowInv
  <2>2. table'[j] = row /\ mem'[j] = mem[j] /\ pc'[j] = "leave"
    BY <1>4 DEF RecordErrorSave, SaveJob, Goto, TypeOK
  <2>3. row.status = "error" /\ row.finished /\ row.error /\ ~row.related
    BY <1>1, <2>1 DEF Fresh, PyatsJobRow
  <2>4. CallableInv(j)'
    BY <1>2, <1>4, <2>2 DEF RecordErrorSave, Inv, CallableInv, BeforeRunning
  <2>5. RowInv(j)'
    BY <1>4, <2>1, <2>2, <2>3
       DEF RecordErrorSave, RowInv, ErrorRow, SuccessRow, BeforeRunning, Unsettled
  <2>6. QED BY <2>4, <2>5 DEF Inv
<1>5. CASE RecordErrorFails(j)
  <2>1. Goto(j, Untracked(mem[j]), "leave")
    BY <1>5 DEF RecordErrorFails
  <2>2. Untracked(mem[j]).row = mem[j].row /\ Untracked(mem[j]).raising
    BY <1>1 DEF Untracked, Locals
  <2>3. QED
    BY <1>2, <1>5, <2>1, <2>2, GotoKeepsInv
       DEF RecordErrorFails, BeforeRunning, Unsettled, CallableStates
<1>6. QED BY <1>3, <1>4, <1>5

LEMMA ExitKeepsInv ==
  ASSUME TypeOK, NEW j \in Jobs, Inv(j), Return(j) \/ Crash(j)
  PROVE  Inv(j)'
<1> USE DEF dbVars
<1>1. CASE Return(j)
  <2>1. pc[j] = "leave" /\ mem'[j] = mem[j] /\ pc'[j] = "done"
    BY <1>1 DEF Return, Goto, TypeOK
  <2>2. core'[j] = "completed" => mem[j].row = "saved"
    BY <1>1, <2>1 DEF Return, Inv, CallableInv, TypeOK
  <2>3. CallableInv(j)'
    BY <1>1, <2>1, <2>2 DEF Return, Inv, CallableInv, BeforeRunning
  <2>4. RowInv(j)'
    BY <1>1, <2>1 DEF Return, Inv, RowInv, ErrorRow, SuccessRow, BeforeRunning,
                      Unsettled, CallableStates
  <2>5. QED BY <2>3, <2>4 DEF Inv
<1>2. CASE Crash(j)
  <2>1. pc[j] \in CallableStates /\ pc'[j] = "crashed"
    BY <1>2 DEF Crash, TypeOK
  <2>2. CallableInv(j)'
    BY <1>2, <2>1 DEF Crash, Inv, CallableInv, BeforeRunning, CallableStates
  <2>3. RowInv(j)'
    BY <1>2, <2>1 DEF Crash, Inv, RowInv, ErrorRow, SuccessRow, BeforeRunning,
                      Unsettled, CallableStates
  <2>4. QED BY <2>2, <2>3 DEF Inv
<1>3. QED BY <1>1, <1>2

LEMMA ClearLinksKeepsRows ==
  ASSUME TypeOK, NEW gone, NEW d, ClearLinks(gone, d), NEW j \in Jobs
  PROVE  /\ table'[j].status = table[j].status /\ table'[j].error = table[j].error
         /\ table'[j].finished = table[j].finished
         /\ table'[j].core = table[j].core
         /\ table'[j].device = IF table[j].device = d THEN NoDevice ELSE table[j].device
         /\ table'[j].related <=> table[j].related /\ j \notin gone
BY ZenonT(30) DEF TypeOK, ClearLinks, PyatsJobRow

LEMMA DeletionKeepsInv ==
  ASSUME TypeOK, TypeOK', JobInv, NEW j \in Jobs,
         \/ \E k \in Jobs : DeleteResult(k) \/ DeletePyatsJob(k)
         \/ OperatorStep
  PROVE  Inv(j)'
<1> USE DEF dbVars
<1>1. Inv(j)
  BY DEF JobInv, Inv
<1>2. ASSUME NEW k \in Jobs, DeleteResult(k) PROVE Inv(j)'
  BY <1>1, <1>2, ClearLinksKeepsRows, LinksMayClear DEF DeleteResult
<1>3. ASSUME NEW d \in Devices, DeleteDevice(d) PROVE Inv(j)'
  BY <1>1, <1>3, ClearLinksKeepsRows, LinksMayClear DEF DeleteDevice
<1>4. ASSUME NEW k \in Jobs, DeletePyatsJob(k) PROVE Inv(j)'
  <2>1. CASE j = k
    <3>1. table'[j] = NewRow(NoDevice)
      BY <1>4, <2>1 DEF DeletePyatsJob, TypeOK
    <3>2. RowInv(j)'
      BY <1>1, <1>4, <3>1, NewRowFresh, FreshRowInv DEF DeletePyatsJob
    <3>3. CallableInv(j)'
      BY <1>1, <1>4 DEF DeletePyatsJob, Inv, CallableInv
    <3>4. QED BY <3>2, <3>3 DEF Inv
  <2>2. CASE j # k
    <3>1. table'[j] = table[j]
      BY <1>4, <2>2 DEF DeletePyatsJob, TypeOK
    <3>2. QED BY <1>1, <1>4, <3>1, LinksMayClear DEF DeletePyatsJob
  <2>3. QED BY <2>1, <2>2
<1>5. ASSUME NEW i \in Inputs, DeleteInput(i) PROVE Inv(j)'
  BY <1>1, <1>5, LinksMayClear DEF DeleteInput
<1>6. ASSUME NEW g \in Goldens, NEW d \in Devices, EditGolden(g, d) PROVE Inv(j)'
  BY <1>1, <1>6, LinksMayClear DEF EditGolden
<1>7. QED BY <1>2, <1>3, <1>4, <1>5, <1>6 DEF OperatorStep

LEMMA NextInv == TypeOK /\ TypeOK' /\ JobInv /\ [Next]_vars => JobInv'
<1> SUFFICES ASSUME TypeOK, TypeOK', JobInv, [Next]_vars, NEW j \in Jobs
             PROVE  Inv(j)'
  BY DEF JobInv, Inv
<1>1. Inv(j)
  BY DEF JobInv, Inv
<1>2. ASSUME NEW k \in Jobs, CreatePyatsJob(k) \/ WebStep(k) \/ WorkerStep(k) \/ Crash(k)
      PROVE  Inv(j)'
  <2>1. CASE j # k
    BY <1>1, <1>2, <2>1, OthersKeepInv
  <2>2. CASE j = k
    BY <1>1, <1>2, <2>2, WebKeepsInv, EntryKeepsInv, InputsKeepInv, ResultKeepsInv,
       FinishKeepsInv, RecordKeepsInv, ExitKeepsInv DEF WorkerStep
  <2>3. QED BY <2>1, <2>2
<1>3. ASSUME \/ \E k \in Jobs : DeleteResult(k) \/ DeletePyatsJob(k)
             \/ OperatorStep
      PROVE  Inv(j)'
  BY <1>3, DeletionKeepsInv
<1>4. CASE UNCHANGED vars
  BY <1>1, <1>4 DEF vars, dbVars, Inv, CallableInv, RowInv, ErrorRow, SuccessRow, Fresh
<1>5. QED BY <1>2, <1>3, <1>4 DEF Next, JobStep

\* However requests, workers, faults and operators interleave, each job's row,
\* its result row and its callable's local variables agree.
THEOREM JobInvariant == Spec => []JobInv
<1>1. Init => JobInv
  BY InitInv
<1>2. TypeOK /\ TypeOK' /\ JobInv /\ [Next]_vars => JobInv'
  BY NextInv
<1>3. QED BY <1>1, <1>2, TypeCorrect, PTL DEF Spec

\* A job writes at most one result row.
THEOREM OneResult == Spec => []AtMostOneResult
<1>1. ASSUME JobInv, NEW j \in Jobs PROVE written[j] <= 1
  <2>1. written[j] = 0 \/ written[j] = 1
    BY <1>1 DEF JobInv, CallableInv
  <2>2. QED BY <2>1
<1>2. JobInv => AtMostOneResult
  BY <1>1 DEF AtMostOneResult
<1>3. QED BY <1>2, JobInvariant, PTL

\* A job in error wrote no result row.
THEOREM ErrorWithoutResult == Spec => []ErrorMeansNoResult
<1>1. TypeOK /\ JobInv => ErrorMeansNoResult
  BY DEF TypeOK, JobInv, RowInv, ErrorMeansNoResult
<1>2. QED BY <1>1, TypeCorrect, JobInvariant, PTL

\* A job shown as success, or linked to a result row, wrote one.
THEOREM SuccessWithResult == Spec => []SuccessMeansResult
<1>1. TypeOK /\ JobInv => SuccessMeansResult
  BY DEF TypeOK, JobInv, RowInv, SuccessMeansResult
<1>2. QED BY <1>1, TypeCorrect, JobInvariant, PTL

\* A core.Job that NetBox shows as completed wrote its result row.
THEOREM CompletedWithResult == Spec => []CompletedMeansResult
<1>1. JobInv => CompletedMeansResult
  BY DEF JobInv, CallableInv, CompletedMeansResult
<1>2. QED BY <1>1, JobInvariant, PTL
-----------------------------------------------------------------------------
(* Foreign keys *)

\* What ForeignKeysExist depends on, now and after a step.
Linked(j) == j \in rows => ForeignKeysExist(j, table[j])

LEMMA SameLinks ==
  ASSUME NEW j \in Jobs, Linked(j), rows' \subseteq rows, table'[j] = table[j],
         devices' = devices, results \subseteq results'
  PROVE  Linked(j)'
BY DEF Linked, ForeignKeysExist

\* A save that full_clean() let through leaves the saved row linked, and the
\* other rows as they were.
LEMMA SavedLinks ==
  ASSUME TypeOK, NEW k \in Jobs, NEW r, SaveJob(k, r), ForeignKeysExist(k, r),
         devices' = devices, results' = results, NEW j \in Jobs, Linked(j)
  PROVE  Linked(j)'
<1>1. CASE j = k
  <2>1. table'[j] = r
    BY <1>1 DEF SaveJob, TypeOK
  <2>2. QED BY <1>1, <2>1 DEF Linked, ForeignKeysExist
<1>2. CASE j # k
  BY <1>2 DEF SaveJob, TypeOK, Linked, ForeignKeysExist
<1>3. QED BY <1>1, <1>2

LEMMA WebKeepsLinks ==
  ASSUME TypeOK, NEW k \in Jobs, NEW j \in Jobs, Linked(j), CreatePyatsJob(k) \/ WebStep(k)
  PROVE  Linked(j)'
<1> USE DEF dbVars
<1>1. CASE CreatePyatsJob(k)
  <2>1. PICK r \in CaptureRequests \cup DiffRequests \cup ComplianceRequests :
          SaveJob(k, NewRow(r.device))
    BY <1>1 DEF CreatePyatsJob
  <2>2. ForeignKeysExist(k, NewRow(r.device))
    BY RequestsTyped DEF ForeignKeysExist, NewRow
  <2>3. QED BY <1>1, <2>1, <2>2, SavedLinks DEF CreatePyatsJob
<1>2. CASE EnqueueCoreJob(k) \/ EnqueueFails(k) \/ LinkFails(k)
  BY <1>2, SameLinks DEF EnqueueCoreJob, EnqueueFails, LinkFails
<1>3. CASE LinkCoreJob(k)
  BY <1>3, SavedLinks DEF LinkCoreJob
<1>4. QED BY <1>1, <1>2, <1>3 DEF WebStep

LEMMA WorkerKeepsLinks ==
  ASSUME TypeOK, NEW k \in Jobs, NEW j \in Jobs, Linked(j), WorkerStep(k) \/ Crash(k)
  PROVE  Linked(j)'
<1> USE DEF dbVars
<1>1. mem[k] \in Locals /\ mem[k].copy \in PyatsJobRow
  BY DEF TypeOK, Locals
<1>2. CASE MarkRunningSave(k)
  <2> DEFINE row == [mem[k].copy EXCEPT !.status = "running", !.started = TRUE]
  <2>1. row.device = mem[k].copy.device /\ row.related = mem[k].copy.related
    BY <1>1 DEF PyatsJobRow
  <2>2. ForeignKeysExist(k, row) /\ SaveJob(k, row)
    BY <1>2, <2>1 DEF MarkRunningSave, ForeignKeysExist
  <2>3. QED BY <1>2, <2>2, SavedLinks DEF MarkRunningSave
<1>3. CASE FinishSuccessSave(k)
  BY <1>3, SavedLinks DEF FinishSuccessSave, FinishChecked
<1>4. CASE RecordErrorSave(k)
  BY <1>4, SavedLinks DEF RecordErrorSave
<1>5. CASE PersistResult(k)
  BY <1>5, SameLinks DEF PersistResult
<1>6. CASE \/ PickUp(k) \/ MarkRunningRead(k) \/ MarkRunningFails(k)
           \/ LoadInputs(k) \/ InputsRejected(k)
           \/ ComputeReturns(k) \/ ComputeRaises(k) \/ PersistFails(k)
  BY <1>6, SameLinks
     DEF PickUp, MarkRunningRead, ReadJob, MarkRunningFails, LoadInputs, InputsRejected,
         ComputeReturns, ComputeRaises, PersistFails
<1>7. CASE \/ FinishSuccessRead(k) \/ FinishSuccessFails(k)
           \/ RecordErrorRead(k) \/ RecordErrorFails(k) \/ Return(k) \/ Crash(k)
  BY <1>7, SameLinks
     DEF FinishSuccessRead, ReadJob, FinishSuccessFails, RecordErrorRead,
         RecordErrorFails, Return, Crash
<1>8. QED BY <1>2, <1>3, <1>4, <1>5, <1>6, <1>7 DEF WorkerStep

LEMMA DeletionKeepsLinks ==
  ASSUME TypeOK, NEW j \in Jobs, Linked(j),
         \/ \E k \in Jobs : DeleteResult(k) \/ DeletePyatsJob(k)
         \/ OperatorStep
  PROVE  Linked(j)'
<1> USE DEF dbVars
<1>1. ASSUME NEW k \in Jobs, DeleteResult(k) PROVE Linked(j)'
  BY <1>1, ClearLinksKeepsRows DEF DeleteResult, Linked, ForeignKeysExist
<1>2. ASSUME NEW d \in Devices, DeleteDevice(d) PROVE Linked(j)'
  BY <1>2, ClearLinksKeepsRows DEF DeleteDevice, Linked, ForeignKeysExist
<1>3. ASSUME NEW k \in Jobs, DeletePyatsJob(k) PROVE Linked(j)'
  BY <1>3 DEF DeletePyatsJob, TypeOK, Linked, ForeignKeysExist
<1>4. ASSUME NEW i \in Inputs, DeleteInput(i) PROVE Linked(j)'
  BY <1>4, SameLinks DEF DeleteInput
<1>5. ASSUME NEW g \in Goldens, NEW d \in Devices, EditGolden(g, d) PROVE Linked(j)'
  BY <1>5, SameLinks DEF EditGolden
<1>6. QED BY <1>1, <1>2, <1>3, <1>4, <1>5 DEF OperatorStep

\* No row is left with a foreign key to a row that has been deleted, although
\* every save writes back keys that were read some steps earlier.
THEOREM LinksExist == Spec => []NoDanglingLink
<1>1. Init => NoDanglingLink
  BY DEF Init, NoDanglingLink
<1>2. TypeOK /\ TypeOK' /\ NoDanglingLink /\ [Next]_vars => NoDanglingLink'
  <2> SUFFICES ASSUME TypeOK, TypeOK', NoDanglingLink, [Next]_vars, NEW j \in Jobs
               PROVE  Linked(j)'
    BY DEF NoDanglingLink, Linked, TypeOK
  <2>1. Linked(j)
    BY DEF NoDanglingLink, Linked
  <2>2. ASSUME NEW k \in Jobs, CreatePyatsJob(k) \/ WebStep(k) \/ WorkerStep(k) \/ Crash(k)
        PROVE  Linked(j)'
    BY <2>1, <2>2, WebKeepsLinks, WorkerKeepsLinks
  <2>3. ASSUME \/ \E k \in Jobs : DeleteResult(k) \/ DeletePyatsJob(k)
               \/ OperatorStep
        PROVE  Linked(j)'
    BY <2>1, <2>3, DeletionKeepsLinks
  <2>4. CASE UNCHANGED vars
    BY <2>1, <2>4, SameLinks DEF vars, dbVars
  <2>5. QED BY <2>2, <2>3, <2>4 DEF Next, JobStep
<1>3. QED BY <1>1, <1>2, TypeCorrect, PTL DEF Spec
-----------------------------------------------------------------------------
(***************************************************************************)
(* Bad inputs.  A row that cannot be built with its inputs is either built *)
(* as an error row, or meant for a device that is gone.                    *)
(***************************************************************************)
Gone(j) == request[j].device \notin devices

Reported(j) == written[j] = 1 /\ outcome[j] = "error"

Unloaded == {"mark_read", "mark_save", "load"}
Ended == {"record_read", "record_save", "leave", "done"}

ReportInv(j) ==
  LET m == mem[j]
      r == request[j]
  IN  /\ web[j] # "idle" /\ r.cross =>
           r.type = "diff" /\ r.before \in Snapshots /\ owner[r.before] = r.device
      /\ pc[j] \notin {"none", "queued"} => m.device = r.device \/ Gone(j)
      /\ pc[j] \in Unloaded => m.result = "error" /\ m.match
      /\ pc[j] = "compute" /\ ~m.match => Gone(j)
      /\ pc[j] = "persist" /\ ~m.match => m.result = "error" \/ Gone(j)
      /\ pc[j] \in {"finish_read", "finish_save"} /\ ~m.match => Reported(j)
      /\ pc[j] \in Ended /\ ~m.match /\ ~m.refused =>
           Reported(j) \/ Gone(j) \/ (m.linked /\ ~InputsExist(r))

\* Rows that go, or golden configurations that move, do not disturb it.
LEMMA RowsMayGo ==
  ASSUME TypeOK, NEW j \in Jobs, ReportInv(j), devices' \subseteq devices, inputs' \subseteq inputs,
         \A i \in Snapshots : owner'[i] = owner[i],
         web'[j] # "idle" => web[j] # "idle",
         pc'[j] = pc[j] \/ pc'[j] \in {"none", "queued", "crashed"},
         pc'[j] = "crashed" => pc[j] \notin {"none", "queued"},
         mem'[j] = mem[j], request'[j] = request[j], written'[j] = written[j],
         outcome'[j] = outcome[j]
  PROVE  ReportInv(j)'
BY DEF ReportInv, Gone, Reported, InputsExist, Unloaded, Ended

LEMMA WebKeepsReport ==
  ASSUME TypeOK, NEW k \in Jobs, CallableInv(k), NEW j \in Jobs, ReportInv(j),
         CreatePyatsJob(k) \/ WebStep(k)
  PROVE  ReportInv(j)'
<1> USE DEF dbVars
<1>1. CASE WebStep(k)
  <2>1. web'[j] # "idle" => web[j] # "idle"
    BY <1>1 DEF WebStep, EnqueueCoreJob, EnqueueFails, LinkCoreJob, LinkFails, TypeOK
  <2>2. pc'[j] = pc[j] \/ pc'[j] = "queued"
    BY <1>1 DEF WebStep, EnqueueCoreJob, EnqueueFails, LinkCoreJob, LinkFails, TypeOK
  <2>3. UNCHANGED <<dbVars, mem, request>>
    BY <1>1 DEF WebStep, EnqueueCoreJob, EnqueueFails, LinkCoreJob, LinkFails
  <2>4. QED BY <2>1, <2>2, <2>3, RowsMayGo
<1>2. CASE CreatePyatsJob(k) /\ j # k
  <2>1. web'[j] = web[j] /\ request'[j] = request[j] /\ UNCHANGED <<dbVars, pc, mem>>
    BY <1>2 DEF CreatePyatsJob, TypeOK
  <2>2. QED BY <2>1, RowsMayGo
<1>3. CASE CreatePyatsJob(k) /\ j = k
  <2>1. PICK r \in CaptureRequests \cup DiffRequests \cup ComplianceRequests :
          request' = [request EXCEPT ![j] = r]
    BY <1>3 DEF CreatePyatsJob
  <2>2. r.cross => r.type = "diff" /\ r.before \in Snapshots /\ owner[r.before] = r.device
    BY DEF CaptureRequests, DiffRequests, ComplianceRequests
  <2>3. pc'[j] = "none" /\ owner' = owner /\ request'[j] = r
    BY <1>3, <2>1 DEF CreatePyatsJob, CallableInv, TypeOK
  <2>4. QED BY <2>2, <2>3 DEF ReportInv, Unloaded, Ended
<1>4. QED BY <1>1, <1>2, <1>3

\* The steps of a worker that move on with the same inputs and result.
LEMMA MoveKeepsReport ==
  ASSUME TypeOK, NEW k \in Jobs, NEW j \in Jobs, ReportInv(j), ReportInv(k),
         NEW m, NEW label, Goto(k, m, label), UNCHANGED <<dbVars, request, web>>,
         pc[k] \notin {"none", "queued"}, m.device = mem[k].device, m.match = mem[k].match,
         m.result = mem[k].result, m.linked = mem[k].linked, m.refused = mem[k].refused,
         \/ pc[k] \in {"mark_read", "mark_save"} /\ label \in {"mark_save", "load", "compute", "leave"}
         \/ pc[k] \in {"finish_read", "finish_save"} /\ label \in {"finish_save", "leave"}
         \/ pc[k] \in Ended /\ label \in Ended
  PROVE  ReportInv(j)'
<1> USE DEF dbVars
<1>1. CASE j # k
  <2>1. mem'[j] = mem[j] /\ pc'[j] = pc[j]
    BY <1>1 DEF Goto, TypeOK
  <2>2. QED BY <2>1, RowsMayGo DEF Unloaded
<1>2. CASE j = k
  <2>1. mem'[j] = m /\ pc'[j] = label
    BY <1>2 DEF Goto, TypeOK
  <2>2. QED BY <1>2, <2>1 DEF ReportInv, Gone, Reported, InputsExist, Unloaded, Ended
<1>3. QED BY <1>1, <1>2

LEMMA OtherWorkersKeepReport ==
  ASSUME TypeOK, NEW k \in Jobs, NEW j \in Jobs \ {k}, ReportInv(j), WorkerStep(k) \/ Crash(k)
  PROVE  ReportInv(j)'
<1> USE DEF dbVars, Goto, Raise
<1>1. mem'[j] = mem[j] /\ pc'[j] = pc[j]
  BY DEF WorkerStep, Crash, TypeOK, PickUp, MarkRunningRead, MarkRunningSave, MarkRunningFails,
         ReadJob, LoadInputs, InputsRejected, ComputeReturns, ComputeRaises, PersistResult,
         PersistFails, FinishSuccessRead, FinishSuccessSave, FinishSuccessFails,
         RecordErrorRead, RecordErrorSave, RecordErrorFails, Return
<1>2. written'[j] = written[j] /\ outcome'[j] = outcome[j]
  BY DEF WorkerStep, Crash, TypeOK, PickUp, MarkRunningRead, MarkRunningSave, MarkRunningFails,
         ReadJob, LoadInputs, InputsRejected, ComputeReturns, ComputeRaises, PersistResult,
         PersistFails, FinishSuccessRead, FinishSuccessSave, FinishSuccessFails,
         RecordErrorRead, RecordErrorSave, RecordErrorFails, Return
<1>3. UNCHANGED <<devices, inputs, owner, request, web>>
  BY DEF WorkerStep, Crash, PickUp, MarkRunningRead, MarkRunningSave, MarkRunningFails,
         ReadJob, LoadInputs, InputsRejected, ComputeReturns, ComputeRaises, PersistResult,
         PersistFails, FinishSuccessRead, FinishSuccessSave, FinishSuccessFails,
         RecordErrorRead, RecordErrorSave, RecordErrorFails, Return
<1>4. QED BY <1>1, <1>2, <1>3, RowsMayGo

LEMMA EntryKeepsReport ==
  ASSUME TypeOK, NEW j \in Jobs, CallableInv(j), ReportInv(j),
         \/ PickUp(j) \/ MarkRunningRead(j) \/ MarkRunningSave(j) \/ MarkRunningFails(j)
  PROVE  ReportInv(j)'
<1> USE DEF dbVars
<1>1. mem[j] \in Locals
  BY DEF TypeOK
<1>2. CASE PickUp(j)
  <2> DEFINE d == IF request[j].device \in devices THEN request[j].device ELSE NoDevice
  <2>1. mem'[j] = NewLocals(d) /\ pc'[j] = "mark_read" /\ UNCHANGED <<dbVars, request, web>>
    BY <1>2 DEF PickUp, Goto, TypeOK
  <2>2. NewLocals(d).device = d /\ NewLocals(d).match /\ NewLocals(d).result = "error"
    BY DEF NewLocals
  <2>3. QED BY <2>1, <2>2 DEF ReportInv, Gone, Unloaded, Ended
<1>3. CASE MarkRunningRead(j)
  <2> DEFINE m == [mem[j] EXCEPT !.copy = table[j]]
  <2>1. m.device = mem[j].device /\ m.match = mem[j].match /\ m.result = mem[j].result
        /\ m.linked = mem[j].linked /\ m.refused = mem[j].refused
    BY <1>1 DEF Locals
  <2>2. Goto(j, m, "mark_save") /\ pc[j] = "mark_read" /\ UNCHANGED <<dbVars, request, web>>
    BY <1>3 DEF MarkRunningRead, ReadJob
  <2>3. QED BY <2>1, <2>2, MoveKeepsReport
<1>4. CASE MarkRunningSave(j)
  <2>1. Goto(j, mem[j], "load") \/ Goto(j, mem[j], "compute")
    BY <1>4 DEF MarkRunningSave
  <2>2. QED BY <1>4, <2>1, MoveKeepsReport DEF MarkRunningSave
<1>5. CASE MarkRunningFails(j)
  <2> DEFINE m == Untracked(mem[j])
  <2>1. m.device = mem[j].device /\ m.match = mem[j].match /\ m.result = mem[j].result
        /\ m.linked = mem[j].linked /\ m.refused = mem[j].refused
    BY <1>1 DEF Locals, Untracked
  <2>2. QED BY <1>5, <2>1, MoveKeepsReport DEF MarkRunningFails
<1>6. QED BY <1>2, <1>3, <1>4, <1>5

\* Inputs that fit their device when they are loaded fit the row; those that do
\* not are reported at once, unless the device itself is gone.
LEMMA InputsKeepReport ==
  ASSUME TypeOK, NEW j \in Jobs, CallableInv(j), ReportInv(j), LoadInputs(j) \/ InputsRejected(j)
  PROVE  ReportInv(j)'
<1> USE DEF dbVars
<1>1. mem[j] \in Locals /\ web[j] # "idle"
  BY DEF TypeOK, CallableInv, LoadInputs, InputsRejected
<1>2. mem[j].device = request[j].device \/ Gone(j)
  BY DEF ReportInv, LoadInputs, InputsRejected
<1>3. CASE LoadInputs(j)
  <2> DEFINE ok == CleanMatches(request[j], mem[j].device)
             m == [mem[j] EXCEPT !.linked = TRUE, !.match = ok]
  <2>1. m.device = mem[j].device /\ m.match = ok
    BY <1>1 DEF Locals
  <2>2. ok \/ Gone(j)
    <3>1. CASE request[j].cross
      BY <1>1, <1>2, <3>1 DEF ReportInv, CleanMatches
    <3>2. CASE ~request[j].cross
      BY <1>3, <3>2 DEF LoadInputs, LoadGuard, SameDevice, CleanMatches
    <3>3. QED BY <3>1, <3>2
  <2>3. mem'[j] = m /\ pc'[j] = "compute" /\ UNCHANGED <<dbVars, request, web>>
    BY <1>3 DEF LoadInputs, Goto, TypeOK
  <2> HIDE DEF ok, m
  <2>4. QED BY <1>2, <2>1, <2>2, <2>3 DEF ReportInv, Gone, Unloaded, Ended
<1>4. CASE InputsRejected(j)
  <2> DEFINE m == [mem[j] EXCEPT !.linked = InputsExist(request[j]), !.match = FALSE,
                                 !.row = "unsaved", !.raising = TRUE]
  <2>1. m.device = mem[j].device /\ m.result = mem[j].result
    BY <1>1 DEF Locals
  <2>2. mem'[j] = m /\ pc'[j] = "persist" /\ pc[j] = "load" /\ UNCHANGED <<dbVars, request, web>>
    BY <1>4 DEF InputsRejected, Goto, TypeOK
  <2> HIDE DEF m
  <2>3. QED BY <1>2, <2>1, <2>2 DEF ReportInv, Gone, Unloaded, Ended
<1>5. QED BY <1>3, <1>4

\* A row that does not fit its inputs is saved as an error row, or refused for
\* a device or an input that is gone.
LEMMA ResultKeepsReport ==
  ASSUME TypeOK, NEW j \in Jobs, CallableInv(j), ReportInv(j),
         ComputeReturns(j) \/ ComputeRaises(j) \/ PersistResult(j) \/ PersistFails(j)
  PROVE  ReportInv(j)'
<1> USE DEF dbVars
<1>1. mem[j] \in Locals /\ web[j] # "idle"
  BY DEF TypeOK, CallableInv, ComputeReturns, ComputeRaises, PersistResult, PersistFails
<1>2. mem[j].device = request[j].device \/ Gone(j)
  BY DEF ReportInv, ComputeReturns, ComputeRaises, PersistResult, PersistFails
<1>3. CASE ComputeReturns(j)
  <2>1. PICK res \in Outcomes :
          Goto(j, [mem[j] EXCEPT !.result = res, !.row = RowAfterCompute(request[j])], "persist")
    BY <1>3 DEF ComputeReturns
  <2> DEFINE m == [mem[j] EXCEPT !.result = res, !.row = RowAfterCompute(request[j])]
  <2>2. m.device = mem[j].device /\ m.match = mem[j].match
    BY <1>1 DEF Locals
  <2>3. mem'[j] = m /\ pc'[j] = "persist" /\ pc[j] = "compute"
        /\ UNCHANGED <<dbVars, request, web>>
    BY <1>3, <2>1 DEF ComputeReturns, Goto, TypeOK
  <2> HIDE DEF m
  <2>4. QED BY <1>2, <2>2, <2>3 DEF ReportInv, Gone, Unloaded, Ended
<1>4. CASE ComputeRaises(j)
  <2> DEFINE m == [mem[j] EXCEPT !.result = "error", !.raising = TRUE]
  <2>1. m.device = mem[j].device /\ m.result = "error"
    BY <1>1 DEF Locals
  <2>2. mem'[j] = m /\ pc'[j] = "persist" /\ UNCHANGED <<dbVars, request, web>>
    BY <1>4 DEF ComputeRaises, Goto, TypeOK
  <2> HIDE DEF m
  <2>3. QED BY <1>2, <2>1, <2>2 DEF ReportInv, Gone, Unloaded, Ended
<1>5. CASE PersistResult(j)
  <2> DEFINE m == [mem[j] EXCEPT !.row = "saved"]
  <2>1. m.device = mem[j].device /\ m.match = mem[j].match
    BY <1>1 DEF Locals
  <2>2. mem'[j] = m /\ pc'[j] = "finish_read"
        /\ UNCHANGED <<devices, inputs, owner, request, web>>
    BY <1>5 DEF PersistResult, Goto, TypeOK
  <2>3. written[j] = 0
    BY <1>5 DEF PersistResult, CallableInv
  <2>4. ~mem[j].match => Reported(j)'
    BY <1>5, <2>3 DEF PersistResult, ResultValid, Reported, TypeOK
  <2> HIDE DEF m
  <2>5. QED BY <1>2, <2>1, <2>2, <2>4 DEF ReportInv, Gone, Unloaded, Ended
<1>6. CASE PersistFails(j)
  <2> DEFINE m == [[mem[j] EXCEPT !.refused = ResultValid(j, mem[j])] EXCEPT !.raising = TRUE]
  <2>1. m.device = mem[j].device /\ m.match = mem[j].match /\ m.linked = mem[j].linked
        /\ m.refused = ResultValid(j, mem[j])
    BY <1>1 DEF Locals
  <2>2. mem'[j] = m /\ pc'[j] \in {"record_read", "leave"}
        /\ UNCHANGED <<dbVars, request, web>>
    BY <1>6 DEF PersistFails, Raise, OuterExcept, TypeOK
  <2>3. ~mem[j].match /\ ~ResultValid(j, mem[j]) =>
          Gone(j) \/ (mem[j].linked /\ ~InputsExist(request[j]))
    BY <1>2, <1>6 DEF ReportInv, PersistFails, ResultValid, Gone
  <2> HIDE DEF m
  <2>4. Gone(j)' <=> Gone(j)
    BY <2>2 DEF Gone
  <2>5. InputsExist(request[j])' <=> InputsExist(request[j])
    BY <2>2 DEF InputsExist
  <2>6. QED BY <1>2, <2>1, <2>2, <2>3, <2>4, <2>5 DEF ReportInv, Unloaded, Ended
<1>7. QED BY <1>3, <1>4, <1>5, <1>6

LEMMA ReadsKeepReport ==
  ASSUME TypeOK, NEW j \in Jobs, ReportInv(j), NEW from, NEW to, ReadJob(j, from, to),
         \/ from = "finish_read" /\ to = "finish_save"
         \/ from = "record_read" /\ to = "record_save"
  PROVE  ReportInv(j)'
<1> DEFINE m == [mem[j] EXCEPT !.copy = table[j]]
<1>1. m.device = mem[j].device /\ m.match = mem[j].match /\ m.result = mem[j].result
      /\ m.linked = mem[j].linked /\ m.refused = mem[j].refused
  BY DEF Locals, TypeOK
<1>2. Goto(j, m, to) /\ pc[j] = from /\ UNCHANGED <<dbVars, request, web>>
  BY DEF ReadJob, dbVars
<1> HIDE DEF m
<1>3. QED BY <1>1, <1>2, MoveKeepsReport DEF Ended

LEMMA EndKeepsReport ==
  ASSUME TypeOK, NEW j \in Jobs, CallableInv(j), ReportInv(j),
         \/ FinishSuccessRead(j) \/ FinishSuccessSave(j) \/ FinishSuccessFails(j)
         \/ RecordErrorRead(j) \/ RecordErrorSave(j) \/ RecordErrorFails(j)
         \/ Return(j)
  PROVE  ReportInv(j)'
<1> DEFINE m == Untracked(mem[j])
           n == [m EXCEPT !.raising = TRUE]
<1>1. m.device = mem[j].device /\ m.match = mem[j].match /\ m.result = mem[j].result
      /\ m.linked = mem[j].linked /\ m.refused = mem[j].refused /\ m.row = mem[j].row
  BY DEF Locals, Untracked, TypeOK
<1>2. n.device = mem[j].device /\ n.match = mem[j].match /\ n.result = mem[j].result
      /\ n.linked = mem[j].linked /\ n.refused = mem[j].refused
  BY DEF Locals, Untracked, TypeOK
<1>3. CASE FinishSuccessRead(j) \/ RecordErrorRead(j)
  BY <1>3, ReadsKeepReport DEF FinishSuccessRead, RecordErrorRead
<1>4. CASE FinishSuccessSave(j)
  BY <1>4, MoveKeepsReport DEF FinishSuccessSave
<1>5. CASE FinishSuccessFails(j)
  <2>1. Raise(j, m) /\ UNCHANGED <<dbVars, request, web>> /\ mem[j].row = "saved"
        /\ pc[j] \in {"finish_read", "finish_save"}
    BY <1>5 DEF FinishSuccessFails, CallableInv
  <2> HIDE DEF m
  <2>2. Goto(j, n, "leave")
    BY <1>1, <2>1 DEF Raise, Goto, OuterExcept
  <2> HIDE DEF n
  <2>3. QED BY <1>2, <2>1, <2>2, MoveKeepsReport
<1>6. CASE RecordErrorSave(j)
  BY <1>6, MoveKeepsReport DEF RecordErrorSave, Ended
<1>7. CASE RecordErrorFails(j)
  <2>1. Goto(j, m, "leave") /\ UNCHANGED <<dbVars, request, web>> /\ pc[j] \in Ended
    BY <1>7 DEF RecordErrorFails, Ended
  <2> HIDE DEF m
  <2>2. QED BY <1>1, <2>1, MoveKeepsReport DEF Ended
<1>8. CASE Return(j)
  BY <1>8, MoveKeepsReport DEF Return, Ended
<1>9. QED BY <1>3, <1>4, <1>5, <1>6, <1>7, <1>8

LEMMA WorkerKeepsReport ==
  ASSUME TypeOK, NEW j \in Jobs, CallableInv(j), ReportInv(j), WorkerStep(j) \/ Crash(j)
  PROVE  ReportInv(j)'
<1>1. CASE Crash(j)
  BY <1>1, RowsMayGo DEF Crash, dbVars, CallableStates, TypeOK
<1>2. CASE WorkerStep(j)
  BY <1>2, EntryKeepsReport, InputsKeepReport, ResultKeepsReport, EndKeepsReport
     DEF WorkerStep
<1>3. QED BY <1>1, <1>2

LEMMA DeletionKeepsReport ==
  ASSUME TypeOK, NEW j \in Jobs, ReportInv(j),
         \/ \E k \in Jobs : DeleteResult(k) \/ DeletePyatsJob(k)
         \/ OperatorStep
  PROVE  ReportInv(j)'
<1> USE DEF dbVars
<1>1. CASE \E k \in Jobs : DeleteResult(k) \/ DeletePyatsJob(k)
  BY <1>1, RowsMayGo DEF DeleteResult, DeletePyatsJob
<1>2. CASE \E d \in Devices : DeleteDevice(d)
  BY <1>2, RowsMayGo DEF DeleteDevice
<1>3. CASE \E i \in Inputs : DeleteInput(i)
  BY <1>3, RowsMayGo DEF DeleteInput
<1>4. ASSUME NEW g \in Goldens, NEW d \in Devices, EditGolden(g, d)
      PROVE  ReportInv(j)'
  <2>1. \A i \in Snapshots : owner'[i] = owner[i]
    BY <1>4, ConstantsAssumption DEF EditGolden, TypeOK, Inputs
  <2>2. QED BY <1>4, <2>1, RowsMayGo DEF EditGolden
<1>5. QED BY <1>1, <1>2, <1>3, <1>4 DEF OperatorStep

ReportsInv == \A j \in Jobs : ReportInv(j)

LEMMA NextReport == TypeOK /\ JobInv /\ ReportsInv /\ [Next]_vars => ReportsInv'
<1> SUFFICES ASSUME TypeOK, JobInv, ReportsInv, [Next]_vars, NEW j \in Jobs
             PROVE  ReportInv(j)'
  BY DEF ReportsInv
<1>1. ReportInv(j) /\ \A k \in Jobs : CallableInv(k)
  BY DEF ReportsInv, JobInv
<1>2. CASE UNCHANGED vars
  BY <1>1, <1>2, RowsMayGo DEF vars, dbVars
<1>3. CASE OperatorStep
  BY <1>1, <1>3, DeletionKeepsReport
<1>4. ASSUME NEW k \in Jobs, JobStep(k)
      PROVE  ReportInv(j)'
  <2>1. CASE CreatePyatsJob(k) \/ WebStep(k)
    BY <1>1, <2>1, WebKeepsReport
  <2>2. CASE WorkerStep(k) \/ Crash(k)
    BY <1>1, <2>2, WorkerKeepsReport, OtherWorkersKeepReport
  <2>3. CASE DeleteResult(k) \/ DeletePyatsJob(k)
    BY <1>1, <2>3, DeletionKeepsReport
  <2>4. QED BY <1>4, <2>1, <2>2, <2>3 DEF JobStep
<1>5. QED BY <1>2, <1>3, <1>4 DEF Next

\* However inputs are deleted or moved between the request, the worker's load
\* and the save, a callable that ends with inputs that do not fit leaves an
\* error row, unless the database refused it or a row it names is gone.
THEOREM BadInputsAlwaysReported == Spec => []BadInputsReported
<1>1. Init => ReportsInv
  BY DEF Init, ReportsInv, ReportInv, Unloaded, Ended
<1>2. ReportsInv => BadInputsReported
  BY DEF ReportsInv, ReportInv, BadInputsReported, Reported, Gone, Ended
<1>3. QED BY <1>1, <1>2, NextReport, TypeCorrect, JobInvariant, PTL DEF Spec

(***************************************************************************)
(* What else a job promises when no worker overtakes the request that      *)
(* enqueued it, and that PyatsJobs then implements JobLifecycle.           *)
(***************************************************************************)
AfterMarking ==
  {"load", "compute", "persist", "finish_read", "finish_save", "record_read", "record_save"}

\* The request is over before the worker begins; from then on only the worker
\* saves the row.  So the row, while it is there, shows where the worker is, and
\* the copies that it saves have the link.
LinkInv(j) ==
  /\ web[j] = "idle" => j \notin rows
  /\ web[j] \in {"idle", "created", "enqueued"} => pc[j] \in {"none", "queued"}
  /\ pc[j] \in AfterMarking /\ j \in rows => table[j].status = "running"
  /\ pc[j] \in {"mark_save", "finish_save", "record_save"} /\ j \in rows /\ table[j].core =>
       mem[j].copy.core

\* A capture has either saved its snapshot or has no row in its variable, so
\* that its outer except records what it could not save.
CaptureInv(j) ==
  request[j].type = "capture" =>
    /\ pc[j] # "load"
    /\ mem[j].row # "unsaved"
    /\ pc[j] \in {"leave", "done"} /\ mem[j].tracked /\ j \in rows => Settled(j)

\* What both read of a job.
SameJob(j) ==
  /\ j \in rows' => j \in rows
  /\ table'[j].status = table[j].status /\ table'[j].core = table[j].core
  /\ pc'[j] = pc[j] /\ web'[j] = web[j] /\ mem'[j] = mem[j] /\ request'[j] = request[j]

LEMMA SameJobKeeps ==
  ASSUME NEW j \in Jobs, LinkInv(j), CaptureInv(j), SameJob(j)
  PROVE  LinkInv(j)' /\ CaptureInv(j)'
BY DEF LinkInv, CaptureInv, SameJob, Settled

LEMMA OtherJobs ==
  ASSUME TypeOK, NEW k \in Jobs, NEW j \in Jobs \ {k},
         CreatePyatsJob(k) \/ WebStep(k) \/ WorkerStep(k) \/ Crash(k)
  PROVE  SameJob(j) /\ table'[j] = table[j] /\ (j \in rows' <=> j \in rows)
         /\ written'[j] = written[j]
<1> USE DEF TypeOK, dbVars, SaveJob, Goto, Raise, ReadJob, SameJob
<1>1. CASE CreatePyatsJob(k)
  BY <1>1 DEF CreatePyatsJob
<1>2. CASE WebStep(k)
  BY <1>2 DEF WebStep, EnqueueCoreJob, EnqueueFails, LinkCoreJob, LinkFails
<1>3. CASE PickUp(k) \/ MarkRunningRead(k) \/ MarkRunningSave(k) \/ MarkRunningFails(k)
  BY <1>3 DEF PickUp, MarkRunningRead, MarkRunningSave, MarkRunningFails
<1>4. CASE LoadInputs(k) \/ InputsRejected(k)
  BY <1>4 DEF LoadInputs, InputsRejected
<1>5. CASE ComputeReturns(k) \/ ComputeRaises(k) \/ PersistResult(k) \/ PersistFails(k)
  BY <1>5 DEF ComputeReturns, ComputeRaises, PersistResult, PersistFails
<1>6. CASE FinishSuccessRead(k) \/ FinishSuccessSave(k) \/ FinishSuccessFails(k)
  BY <1>6 DEF FinishSuccessRead, FinishSuccessSave, FinishSuccessFails
<1>7. CASE RecordErrorRead(k) \/ RecordErrorSave(k) \/ RecordErrorFails(k)
  BY <1>7 DEF RecordErrorRead, RecordErrorSave, RecordErrorFails
<1>8. CASE Return(k) \/ Crash(k)
  BY <1>8 DEF Return, Crash
<1> QED
  BY <1>1, <1>2, <1>3, <1>4, <1>5, <1>6, <1>7, <1>8 DEF WorkerStep

LEMMA InitLinkInv == Init => \A j \in Jobs : LinkInv(j) /\ CaptureInv(j)
<1> SUFFICES ASSUME Init, NEW j \in Jobs
             PROVE  LinkInv(j) /\ CaptureInv(j)
  OBVIOUS
<1>1. pc[j] = "none" /\ mem[j].row = "none" /\ j \notin rows
  BY DEF Init, NewLocals
<1> QED
  BY <1>1 DEF LinkInv, CaptureInv, AfterMarking

LEMMA WebKeepsLinkInv ==
  ASSUME TypeOK, NEW j \in Jobs, Inv(j), LinkInv(j), CaptureInv(j),
         CreatePyatsJob(j) \/ WebStep(j)
  PROVE  LinkInv(j)' /\ CaptureInv(j)'
<1> USE DEF dbVars
<1>1. CASE CreatePyatsJob(j)
  <2>1. pc[j] = "none" /\ mem[j].row = "none"
    BY <1>1 DEF CreatePyatsJob, Inv, CallableInv, BeforeRunning
  <2>2. pc' = pc /\ mem' = mem /\ web'[j] = "created"
    BY <1>1 DEF CreatePyatsJob, TypeOK
  <2> QED
    BY <2>1, <2>2 DEF LinkInv, CaptureInv, AfterMarking
<1>2. CASE EnqueueCoreJob(j) \/ EnqueueFails(j) \/ LinkFails(j)
  BY <1>2 DEF EnqueueCoreJob, EnqueueFails, LinkFails, TypeOK, LinkInv, CaptureInv, AfterMarking,
              Settled
<1>3. CASE LinkCoreJob(j)
  <2>1. pc[j] \in {"none", "queued"} /\ pc' = pc /\ mem' = mem /\ web'[j] = "linked"
        /\ request' = request
    BY <1>3 DEF LinkCoreJob, LinkInv, TypeOK
  <2> QED
    BY <2>1 DEF LinkInv, CaptureInv, AfterMarking
<1> QED
  BY <1>1, <1>2, <1>3 DEF WebStep

LEMMA EntryKeepsLinkInv ==
  ASSUME TypeOK, LinkFirst, NEW j \in Jobs, Inv(j), LinkInv(j), CaptureInv(j),
         \/ PickUp(j) \/ MarkRunningRead(j) \/ MarkRunningSave(j) \/ MarkRunningFails(j)
  PROVE  LinkInv(j)' /\ CaptureInv(j)'
<1> USE DEF dbVars
<1>0. mem[j] \in Locals /\ mem[j].copy \in PyatsJobRow /\ table[j] \in PyatsJobRow
  BY DEF TypeOK, Locals
<1>1. CASE PickUp(j)
  <2>1. /\ web[j] \in {"linked", "failed"} /\ web' = web /\ rows' = rows
        /\ pc'[j] = "mark_read" /\ mem'[j].row = "none"
    BY <1>1 DEF PickUp, Goto, NewLocals, TypeOK
  <2> QED
    BY <2>1 DEF LinkInv, CaptureInv, AfterMarking
<1>2. CASE MarkRunningRead(j)
  <2>1. /\ pc[j] = "mark_read" /\ pc'[j] = "mark_save" /\ mem'[j].row = mem[j].row
        /\ mem'[j].copy = table[j] /\ UNCHANGED <<rows, table, request, web>>
    BY <1>0, <1>2 DEF MarkRunningRead, ReadJob, Goto, TypeOK, Locals
  <2> QED
    BY <2>1 DEF LinkInv, CaptureInv, AfterMarking
<1>3. CASE MarkRunningSave(j)
  <2>1. /\ pc[j] = "mark_save" /\ mem'[j] = mem[j] /\ UNCHANGED <<request, web>>
        /\ pc'[j] = IF request[j].type \in CompareTypes THEN "load" ELSE "compute"
        /\ table'[j] = [mem[j].copy EXCEPT !.status = "running", !.started = TRUE]
    BY <1>3 DEF MarkRunningSave, SaveJob, Goto, TypeOK
  <2>2. table'[j].status = "running"
    BY <1>0, <2>1 DEF PyatsJobRow
  <2> QED
    BY <2>1, <2>2 DEF LinkInv, CaptureInv, AfterMarking, CompareTypes
<1>4. CASE MarkRunningFails(j)
  <2>1. /\ pc[j] \in {"mark_read", "mark_save"} /\ pc'[j] = "leave" /\ ~mem'[j].tracked
        /\ mem'[j].row = mem[j].row /\ UNCHANGED <<rows, table, request, web>>
    BY <1>0, <1>4 DEF MarkRunningFails, Goto, Untracked, TypeOK, Locals
  <2> QED
    BY <2>1 DEF LinkInv, CaptureInv, AfterMarking
<1> QED
  BY <1>1, <1>2, <1>3, <1>4

LEMMA InputsKeepLinkInv ==
  ASSUME TypeOK, NEW j \in Jobs, Inv(j), LinkInv(j), CaptureInv(j),
         LoadInputs(j) \/ InputsRejected(j)
  PROVE  LinkInv(j)' /\ CaptureInv(j)'
<1>1. /\ pc[j] = "load" /\ pc'[j] \in {"compute", "persist"}
      /\ UNCHANGED <<rows, table, request, web>>
  BY DEF LoadInputs, InputsRejected, Goto, TypeOK
<1> QED
  BY <1>1 DEF LinkInv, CaptureInv, AfterMarking

LEMMA ResultKeepsLinkInv ==
  ASSUME TypeOK, NEW j \in Jobs, Inv(j), LinkInv(j), CaptureInv(j),
         ComputeReturns(j) \/ ComputeRaises(j) \/ PersistResult(j) \/ PersistFails(j)
  PROVE  LinkInv(j)' /\ CaptureInv(j)'
<1> USE DEF dbVars
<1>0. mem[j] \in Locals
  BY DEF TypeOK
<1>1. UNCHANGED <<rows, table, request, web>>
  BY DEF ComputeReturns, ComputeRaises, PersistResult, PersistFails
<1>2. CASE ComputeReturns(j)
  <2>0. PICK res \in Outcomes :
          Goto(j, [mem[j] EXCEPT !.result = res, !.row = RowAfterCompute(request[j])],
               "persist")
    BY <1>2 DEF ComputeReturns
  <2>1. /\ pc[j] = "compute" /\ pc'[j] = "persist"
        /\ request[j].type = "capture" => mem'[j].row = "none"
    BY <1>0, <1>2, <2>0 DEF ComputeReturns, Goto, RowAfterCompute, TypeOK, Locals
  <2> QED
    BY <1>1, <2>1 DEF LinkInv, CaptureInv, AfterMarking
<1>3. CASE ComputeRaises(j)
  <2>1. pc[j] = "compute" /\ pc'[j] = "persist" /\ mem'[j].row = mem[j].row
    BY <1>0, <1>3 DEF ComputeRaises, Goto, TypeOK, Locals
  <2> QED
    BY <1>1, <2>1 DEF LinkInv, CaptureInv, AfterMarking
<1>4. CASE PersistResult(j)
  <2>1. pc[j] = "persist" /\ pc'[j] = "finish_read" /\ mem'[j].row = "saved"
    BY <1>0, <1>4 DEF PersistResult, Goto, TypeOK, Locals
  <2> QED
    BY <1>1, <2>1 DEF LinkInv, CaptureInv, AfterMarking
<1>5. CASE PersistFails(j)
  <2> DEFINE m == [mem[j] EXCEPT !.refused = ResultValid(j, mem[j])]
  <2>1. m \in Locals /\ m.row = mem[j].row
    BY <1>0, RefusedTyped DEF Locals
  <2>2. pc[j] = "persist" /\ Raise(j, m)
    BY <1>5 DEF PersistFails
  <2> HIDE DEF m
  <2>3. /\ mem'[j].row = mem[j].row
        /\ pc'[j] = IF mem[j].row = "none" THEN "record_read" ELSE "leave"
    BY <2>1, <2>2 DEF Raise, OuterExcept, TypeOK, Locals
  <2>4. mem[j].row \in {"none", "unsaved"}
    BY <1>0, <2>2 DEF Inv, CallableInv, Locals
  <2> QED
    BY <1>1, <2>2, <2>3, <2>4 DEF LinkInv, CaptureInv, AfterMarking
<1> QED
  BY <1>2, <1>3, <1>4, <1>5

LEMMA FinishKeepsLinkInv ==
  ASSUME TypeOK, NEW j \in Jobs, Inv(j), LinkInv(j), CaptureInv(j),
         FinishSuccessRead(j) \/ FinishSuccessSave(j) \/ FinishSuccessFails(j)
  PROVE  LinkInv(j)' /\ CaptureInv(j)'
<1> USE DEF dbVars
<1>0. mem[j] \in Locals /\ mem[j].copy \in PyatsJobRow /\ table[j] \in PyatsJobRow
  BY DEF TypeOK, Locals
<1>1. CASE FinishSuccessRead(j)
  <2>1. /\ pc[j] = "finish_read" /\ pc'[j] = "finish_save" /\ mem'[j].row = mem[j].row
        /\ mem'[j].copy = table[j] /\ UNCHANGED <<rows, table, request, web>>
    BY <1>0, <1>1 DEF FinishSuccessRead, ReadJob, Goto, TypeOK, Locals
  <2> QED
    BY <2>1 DEF LinkInv, CaptureInv, AfterMarking
<1>2. CASE FinishSuccessSave(j)
  <2>1. /\ pc[j] = "finish_save" /\ pc'[j] = "leave" /\ mem'[j] = mem[j]
        /\ table'[j] = Finished(mem[j].copy) /\ UNCHANGED <<request, web>>
    BY <1>2 DEF FinishSuccessSave, SaveJob, Goto, TypeOK
  <2>2. table'[j].status = "success"
    BY <1>0, <2>1 DEF Finished, PyatsJobRow
  <2> QED
    BY <2>1, <2>2 DEF LinkInv, CaptureInv, AfterMarking, Settled
<1>3. CASE FinishSuccessFails(j)
  <2>1. /\ pc[j] \in {"finish_read", "finish_save"} /\ Raise(j, Untracked(mem[j]))
        /\ UNCHANGED <<rows, table, request, web>>
    BY <1>3 DEF FinishSuccessFails
  <2>2. mem[j].row = "saved"
    BY <2>1 DEF Inv, CallableInv
  <2>3. pc'[j] = "leave" /\ ~mem'[j].tracked /\ mem'[j].row = "saved"
    BY <1>0, <2>1, <2>2 DEF Raise, Untracked, OuterExcept, TypeOK, Locals
  <2> QED
    BY <2>1, <2>3 DEF LinkInv, CaptureInv, AfterMarking
<1> QED
  BY <1>1, <1>2, <1>3

LEMMA RecordKeepsLinkInv ==
  ASSUME TypeOK, NEW j \in Jobs, Inv(j), LinkInv(j), CaptureInv(j),
         RecordErrorRead(j) \/ RecordErrorSave(j) \/ RecordErrorFails(j)
  PROVE  LinkInv(j)' /\ CaptureInv(j)'
<1> USE DEF dbVars
<1>0. mem[j] \in Locals /\ mem[j].copy \in PyatsJobRow /\ table[j] \in PyatsJobRow
  BY DEF TypeOK, Locals
<1>1. CASE RecordErrorRead(j)
  <2>1. /\ pc[j] = "record_read" /\ pc'[j] = "record_save" /\ mem'[j].row = mem[j].row
        /\ mem'[j].copy = table[j] /\ UNCHANGED <<rows, table, request, web>>
    BY <1>0, <1>1 DEF RecordErrorRead, ReadJob, Goto, TypeOK, Locals
  <2> QED
    BY <2>1 DEF LinkInv, CaptureInv, AfterMarking
<1>2. CASE RecordErrorSave(j)
  <2> DEFINE row == [mem[j].copy EXCEPT !.status = "error", !.error = TRUE, !.finished = TRUE]
  <2>1. /\ pc[j] = "record_save" /\ pc'[j] = "leave" /\ mem'[j] = mem[j]
        /\ table'[j] = row /\ UNCHANGED <<request, web>>
    BY <1>2 DEF RecordErrorSave, SaveJob, Goto, TypeOK
  <2>2. table'[j].status = "error"
    BY <1>0, <2>1 DEF PyatsJobRow
  <2> QED
    BY <2>1, <2>2 DEF LinkInv, CaptureInv, AfterMarking, Settled
<1>3. CASE RecordErrorFails(j)
  <2>1. /\ pc[j] \in {"record_read", "record_save"} /\ pc'[j] = "leave" /\ ~mem'[j].tracked
        /\ mem'[j].row = mem[j].row /\ UNCHANGED <<rows, table, request, web>>
    BY <1>0, <1>3 DEF RecordErrorFails, Goto, Untracked, TypeOK, Locals
  <2> QED
    BY <2>1 DEF LinkInv, CaptureInv, AfterMarking
<1> QED
  BY <1>1, <1>2, <1>3

LEMMA ExitKeepsLinkInv ==
  ASSUME TypeOK, NEW j \in Jobs, Inv(j), LinkInv(j), CaptureInv(j), Return(j) \/ Crash(j)
  PROVE  LinkInv(j)' /\ CaptureInv(j)'
<1> USE DEF dbVars
<1>1. CASE Return(j)
  <2>1. /\ pc[j] = "leave" /\ pc'[j] = "done" /\ mem'[j] = mem[j]
        /\ UNCHANGED <<rows, table, request, web>>
    BY <1>1 DEF Return, Goto, TypeOK
  <2> QED
    BY <2>1 DEF LinkInv, CaptureInv, AfterMarking, Settled
<1>2. CASE Crash(j)
  <2>1. /\ pc[j] \in CallableStates /\ pc'[j] = "crashed"
        /\ UNCHANGED <<rows, table, request, web, mem>>
    BY <1>2 DEF Crash, TypeOK
  <2> QED
    BY <2>1 DEF LinkInv, CaptureInv, AfterMarking, CallableStates
<1> QED
  BY <1>1, <1>2

\* Deletions and edits leave a job as it is, or take its row away.
LEMMA DeletionsSame ==
  ASSUME TypeOK, NEW j \in Jobs,
         \/ \E k \in Jobs : DeleteResult(k) \/ DeletePyatsJob(k)
         \/ OperatorStep
  PROVE  /\ SameJob(j) \/ (j \notin rows' /\ UNCHANGED <<pc, web, mem, request>>)
         /\ rows' \subseteq rows
         /\ written' = written
         /\ j \in rows' => table'[j].status = table[j].status /\ table'[j].core = table[j].core
<1> USE DEF dbVars, SameJob
<1>1. ASSUME NEW k \in Jobs, DeleteResult(k)
      PROVE  SameJob(j) /\ rows' \subseteq rows /\ written' = written
  BY <1>1, ClearLinksKeepsRows DEF DeleteResult
<1>2. ASSUME NEW d \in Devices, DeleteDevice(d)
      PROVE  SameJob(j) /\ rows' \subseteq rows /\ written' = written
  BY <1>2, ClearLinksKeepsRows DEF DeleteDevice
<1>3. ASSUME NEW k \in Jobs, DeletePyatsJob(k)
      PROVE  /\ SameJob(j) \/ (j \notin rows' /\ UNCHANGED <<pc, web, mem, request>>)
             /\ rows' \subseteq rows
             /\ written' = written
             /\ j \in rows' => table'[j] = table[j]
  BY <1>3 DEF DeletePyatsJob, TypeOK
<1>4. ASSUME \/ \E i \in Inputs : DeleteInput(i)
             \/ \E g \in Goldens, d \in Devices : EditGolden(g, d)
      PROVE  SameJob(j) /\ rows' \subseteq rows /\ written' = written
  BY <1>4 DEF DeleteInput, EditGolden
<1> QED
  BY <1>1, <1>2, <1>3, <1>4 DEF OperatorStep

LEMMA GoneKeepsLinkInv ==
  ASSUME NEW j \in Jobs, LinkInv(j), CaptureInv(j), j \notin rows',
         UNCHANGED <<pc, web, mem, request>>
  PROVE  LinkInv(j)' /\ CaptureInv(j)'
BY DEF LinkInv, CaptureInv

StrongInv == TypeOK /\ JobInv /\ \A j \in Jobs : LinkInv(j) /\ CaptureInv(j)

LEMMA NextLinkInv ==
  ASSUME LinkFirst, StrongInv, [Next]_vars, NEW j \in Jobs
  PROVE  LinkInv(j)' /\ CaptureInv(j)'
<1>1. TypeOK /\ Inv(j) /\ LinkInv(j) /\ CaptureInv(j)
  BY DEF StrongInv, JobInv, Inv
<1>2. ASSUME NEW k \in Jobs, CreatePyatsJob(k) \/ WebStep(k) \/ WorkerStep(k) \/ Crash(k)
      PROVE  LinkInv(j)' /\ CaptureInv(j)'
  <2>1. CASE j # k
    BY <1>1, <1>2, <2>1, OtherJobs, SameJobKeeps
  <2>2. CASE j = k
    BY <1>1, <1>2, <2>2, WebKeepsLinkInv, EntryKeepsLinkInv, InputsKeepLinkInv,
       ResultKeepsLinkInv, FinishKeepsLinkInv, RecordKeepsLinkInv, ExitKeepsLinkInv
       DEF WorkerStep
  <2> QED
    BY <2>1, <2>2
<1>3. ASSUME \/ \E k \in Jobs : DeleteResult(k) \/ DeletePyatsJob(k)
             \/ OperatorStep
      PROVE  LinkInv(j)' /\ CaptureInv(j)'
  BY <1>1, <1>3, DeletionsSame, SameJobKeeps, GoneKeepsLinkInv
<1>4. CASE UNCHANGED vars
  BY <1>1, <1>4, SameJobKeeps DEF vars, SameJob
<1> QED
  BY <1>2, <1>3, <1>4 DEF Next, JobStep

\* When the request is over before the worker begins, the row of every job
\* shows where its worker is, and a capture that has ended has settled it.
THEOREM LinkedInvariant == LinkFirst => (Spec => []StrongInv)
<1> SUFFICES ASSUME LinkFirst
             PROVE  Spec => []StrongInv
  OBVIOUS
<1>1. Init => StrongInv
  BY InitTypeOK, InitInv, InitLinkInv DEF StrongInv
<1>2. StrongInv /\ [Next]_vars => StrongInv'
  <2> SUFFICES ASSUME StrongInv, [Next]_vars
               PROVE  StrongInv'
    OBVIOUS
  <2>1. TypeOK'
    BY NextTypeOK DEF StrongInv
  <2>2. JobInv'
    BY <2>1, NextInv DEF StrongInv
  <2> QED
    BY <2>1, <2>2, NextLinkInv DEF StrongInv
<1> QED
  BY <1>1, <1>2, PTL DEF Spec

\* CaptureAccounted: a capture that has ended, and could update its row, has
\* settled it, whatever the database refused.
THEOREM CapturesAccounted == LinkFirst => (Spec => []CaptureAccounted)
<1> SUFFICES ASSUME LinkFirst
             PROVE  Spec => []CaptureAccounted
  OBVIOUS
<1>1. StrongInv => CaptureAccounted
  BY DEF StrongInv, TypeOK, CaptureInv, CaptureAccounted
<1> QED
  BY <1>1, LinkedInvariant, PTL
-----------------------------------------------------------------------------
(* The link is kept *)

LEMMA LinkKeptStep ==
  ASSUME StrongInv, [Next]_vars, NEW j \in rows \cap rows', table[j].core
  PROVE  table'[j].core
<1> USE DEF dbVars
<1>0. /\ TypeOK /\ j \in Jobs /\ LinkInv(j) /\ CaptureInv(j)
      /\ mem[j] \in Locals /\ mem[j].copy \in PyatsJobRow
  BY DEF StrongInv, TypeOK, Locals
<1>1. ASSUME NEW k \in Jobs, k # j,
             CreatePyatsJob(k) \/ WebStep(k) \/ WorkerStep(k) \/ Crash(k)
      PROVE  table'[j].core
  BY <1>0, <1>1, OtherJobs DEF SameJob
<1>2. CASE CreatePyatsJob(j)
  BY <1>0, <1>2 DEF CreatePyatsJob, LinkInv
<1>3. CASE LinkCoreJob(j)
  <2>1. table'[j] = [NewRow(request[j].device) EXCEPT !.core = TRUE]
    BY <1>0, <1>3 DEF LinkCoreJob, SaveJob, TypeOK
  <2> QED
    BY <2>1 DEF NewRow
<1>4. CASE MarkRunningSave(j)
  <2>1. table'[j] = [mem[j].copy EXCEPT !.status = "running", !.started = TRUE]
        /\ mem[j].copy.core
    BY <1>0, <1>4 DEF MarkRunningSave, SaveJob, TypeOK, LinkInv
  <2> QED
    BY <1>0, <2>1 DEF PyatsJobRow
<1>5. CASE FinishSuccessSave(j)
  <2>1. table'[j] = Finished(mem[j].copy) /\ mem[j].copy.core
    BY <1>0, <1>5 DEF FinishSuccessSave, SaveJob, TypeOK, LinkInv
  <2> QED
    BY <1>0, <2>1 DEF Finished, PyatsJobRow
<1>6. CASE RecordErrorSave(j)
  <2>1. table'[j] = [mem[j].copy EXCEPT !.status = "error", !.error = TRUE, !.finished = TRUE]
        /\ mem[j].copy.core
    BY <1>0, <1>6 DEF RecordErrorSave, SaveJob, TypeOK, LinkInv
  <2> QED
    BY <1>0, <2>1 DEF PyatsJobRow
<1>7. CASE \/ EnqueueCoreJob(j) \/ EnqueueFails(j) \/ LinkFails(j) \/ PickUp(j)
           \/ MarkRunningRead(j) \/ MarkRunningFails(j) \/ LoadInputs(j) \/ InputsRejected(j)
           \/ ComputeReturns(j) \/ ComputeRaises(j) \/ PersistResult(j) \/ PersistFails(j)
  BY <1>7 DEF EnqueueCoreJob, EnqueueFails, LinkFails, PickUp, MarkRunningRead, ReadJob,
              MarkRunningFails, LoadInputs, InputsRejected, ComputeReturns, ComputeRaises,
              PersistResult, PersistFails
<1>8. CASE \/ FinishSuccessRead(j) \/ FinishSuccessFails(j) \/ RecordErrorRead(j)
           \/ RecordErrorFails(j) \/ Return(j) \/ Crash(j)
  BY <1>8 DEF FinishSuccessRead, FinishSuccessFails, RecordErrorRead, ReadJob, RecordErrorFails,
              Return, Crash
<1>9. ASSUME \/ \E k \in Jobs : DeleteResult(k) \/ DeletePyatsJob(k)
             \/ OperatorStep
      PROVE  table'[j].core
  BY <1>0, <1>9, DeletionsSame DEF SameJob
<1>10. CASE UNCHANGED vars
  BY <1>10 DEF vars
<1> QED
  BY <1>1, <1>2, <1>3, <1>4, <1>5, <1>6, <1>7, <1>8, <1>9, <1>10
     DEF Next, JobStep, WebStep, WorkerStep

\* CoreLinkKept: no save of a row that was read earlier takes the link away.
THEOREM LinkIsKept == LinkFirst => (Spec => CoreLinkKept)
<1> SUFFICES ASSUME LinkFirst
             PROVE  Spec => CoreLinkKept
  OBVIOUS
<1>1. StrongInv /\ [Next]_vars
        => [\A j \in rows \cap rows' : table[j].core => table'[j].core]_<<rows, table>>
  BY LinkKeptStep
<1> QED
  BY <1>1, LinkedInvariant, PTL DEF Spec, CoreLinkKept
-----------------------------------------------------------------------------
(* The refinement *)

\* What the jobs view shows changes for one job at most.
Shown(j) == IF j \in rows THEN table[j].status ELSE "absent"

LEMMA OthersShown ==
  ASSUME TypeOK, NEW k \in Jobs,
         CreatePyatsJob(k) \/ WebStep(k) \/ WorkerStep(k) \/ Crash(k)
  PROVE  /\ shownStatus' = [shownStatus EXCEPT ![k] = Shown(k)']
         /\ written' = [written EXCEPT ![k] = written'[k]]
            => hasProduced' = [hasProduced EXCEPT ![k] = written'[k] > 0]
<1>1. \A j \in Jobs \ {k} : Shown(j)' = Shown(j)
  BY OtherJobs DEF Shown
<1>2. shownStatus = [j \in Jobs |-> Shown(j)]
  BY DEF shownStatus, Shown
<1>3. shownStatus' = [j \in Jobs |-> Shown(j)']
  BY DEF shownStatus, Shown
<1> QED
  BY <1>1, <1>2, <1>3 DEF hasProduced, TypeOK

LEMMA WrittenOnlyByPersist ==
  ASSUME NEW k \in Jobs,
         CreatePyatsJob(k) \/ WebStep(k) \/ WorkerStep(k) \/ Crash(k), ~PersistResult(k)
  PROVE  UNCHANGED written
BY DEF dbVars, CreatePyatsJob, WebStep, EnqueueCoreJob, EnqueueFails, LinkCoreJob, LinkFails,
       WorkerStep, PickUp, MarkRunningRead, MarkRunningSave, MarkRunningFails, ReadJob,
       LoadInputs, InputsRejected, ComputeReturns, ComputeRaises, PersistFails,
       FinishSuccessRead, FinishSuccessSave, FinishSuccessFails, RecordErrorRead,
       RecordErrorSave, RecordErrorFails, Return, Crash

LEMMA Advances ==
  ASSUME TypeOK, NEW k \in Jobs, NEW from, NEW to,
         CreatePyatsJob(k) \/ WebStep(k) \/ WorkerStep(k) \/ Crash(k), ~PersistResult(k),
         Shown(k) \in {"absent", from}, Shown(k)' = to
  PROVE  Lifecycle!Advance(k, from, to)
<1>1. shownStatus[k] = Shown(k) /\ shownStatus' = [shownStatus EXCEPT ![k] = to]
  BY OthersShown DEF shownStatus, Shown
<1>2. hasProduced' = hasProduced
  BY WrittenOnlyByPersist DEF hasProduced
<1> QED
  BY <1>1, <1>2 DEF Lifecycle!Advance

LEMMA NotProduced ==
  ASSUME TypeOK, NEW k \in Jobs
  PROVE  hasProduced[k] <=> written[k] # 0
<1>1. hasProduced[k] <=> written[k] > 0
  BY Zenon DEF hasProduced
<1>2. written[k] > 0 <=> written[k] # 0
  BY DEF TypeOK
<1> QED
  BY <1>1, <1>2

\* The saves of a job's row, and of its result row, are steps of the lifecycle.
LEMMA SavesRefine ==
  ASSUME StrongInv, NEW k \in Jobs,
         \/ CreatePyatsJob(k) \/ LinkCoreJob(k) \/ MarkRunningSave(k) \/ PersistResult(k)
         \/ FinishSuccessSave(k) \/ RecordErrorSave(k)
  PROVE  Lifecycle!Step(k) \/ UNCHANGED <<shownStatus, hasProduced>>
<1> USE DEF dbVars
<1>0. /\ TypeOK /\ Inv(k) /\ LinkInv(k) /\ mem[k] \in Locals /\ mem[k].copy \in PyatsJobRow
      /\ CreatePyatsJob(k) \/ WebStep(k) \/ WorkerStep(k) \/ Crash(k)
  BY DEF StrongInv, TypeOK, Locals, JobInv, Inv, WebStep, WorkerStep
<1>1. CASE CreatePyatsJob(k)
  <2>1. pc[k] = "none" /\ written[k] = 0 /\ Shown(k) = "absent"
    BY <1>0, <1>1 DEF CreatePyatsJob, Inv, CallableInv, BeforeRunning, LinkInv, Shown
  <2>2. Shown(k)' = "pending"
    BY <1>0, <1>1 DEF CreatePyatsJob, SaveJob, NewRow, TypeOK, Shown
  <2>3. ~PersistResult(k)
    BY <2>1 DEF PersistResult
  <2> QED
    BY <1>0, <2>1, <2>2, <2>3, Advances, NotProduced DEF Lifecycle!Step, Lifecycle!Register
<1>2. CASE LinkCoreJob(k)
  <2>1. pc[k] \in {"none", "queued"} /\ written[k] = 0 /\ Shown(k) \in {"absent", "pending"}
    BY <1>0, <1>2 DEF LinkCoreJob, Inv, CallableInv, RowInv, BeforeRunning, LinkInv, Shown
  <2>2. Shown(k)' = "pending"
    BY <1>0, <1>2 DEF LinkCoreJob, SaveJob, NewRow, TypeOK, Shown
  <2>3. ~PersistResult(k)
    BY <2>1 DEF PersistResult
  <2>4. CASE Shown(k) = "absent"
    BY <1>0, <2>1, <2>2, <2>3, <2>4, Advances, NotProduced DEF Lifecycle!Step, Lifecycle!Register
  <2>5. CASE Shown(k) = "pending"
    <3>1. shownStatus[k] = "pending" /\ shownStatus' = [shownStatus EXCEPT ![k] = "pending"]
      BY <1>0, <2>2, <2>5, OthersShown DEF shownStatus, Shown
    <3>2. UNCHANGED shownStatus
      BY <3>1 DEF shownStatus
    <3> QED
      BY <1>2, <3>2 DEF LinkCoreJob, hasProduced
  <2> QED
    BY <2>1, <2>4, <2>5
<1>3. CASE MarkRunningSave(k)
  <2>1. pc[k] = "mark_save" /\ written[k] = 0 /\ Shown(k) \in {"absent", "pending"}
    BY <1>0, <1>3 DEF MarkRunningSave, Inv, CallableInv, RowInv, BeforeRunning, Shown
  <2>2. Shown(k)' = "running"
    BY <1>0, <1>3 DEF MarkRunningSave, SaveJob, PyatsJobRow, TypeOK, Shown
  <2>3. ~PersistResult(k)
    BY <2>1 DEF PersistResult
  <2> QED
    BY <1>0, <2>1, <2>2, <2>3, Advances, NotProduced DEF Lifecycle!Step, Lifecycle!Start
<1>4. CASE PersistResult(k)
  <2>1. pc[k] = "persist" /\ written[k] = 0 /\ Shown(k) \in {"absent", "running"}
    BY <1>0, <1>4 DEF PersistResult, Inv, CallableInv, LinkInv, AfterMarking, Shown
  <2>2. UNCHANGED <<rows, table>> /\ written' = [written EXCEPT ![k] = 1]
    BY <1>0, <1>4, <2>1 DEF PersistResult, TypeOK
  <2>3. UNCHANGED shownStatus
    BY <2>2 DEF shownStatus
  <2>4. hasProduced' = [hasProduced EXCEPT ![k] = TRUE]
    <3>1. /\ (written'[k] > 0) = TRUE
          /\ \A j \in Jobs \ {k} : written'[j] = written[j]
      BY <1>0, <2>2 DEF TypeOK
    <3>2. /\ hasProduced = [j \in Jobs |-> written[j] > 0]
          /\ hasProduced' = [j \in Jobs |-> written'[j] > 0]
      BY DEF hasProduced
    <3> QED
      BY <3>1, <3>2, Zenon
  <2>5. shownStatus[k] = Shown(k)
    BY DEF shownStatus, Shown
  <2> QED
    BY <1>0, <2>1, <2>3, <2>4, <2>5, NotProduced DEF Lifecycle!Step, Lifecycle!Produce
<1>5. CASE FinishSuccessSave(k)
  <2>1. pc[k] = "finish_save" /\ written[k] = 1 /\ Shown(k) \in {"absent", "running"}
    BY <1>0, <1>5 DEF FinishSuccessSave, Inv, CallableInv, LinkInv, AfterMarking, Shown
  <2>2. Shown(k)' = "success"
    BY <1>0, <1>5 DEF FinishSuccessSave, SaveJob, Finished, PyatsJobRow, TypeOK, Shown
  <2>3. ~PersistResult(k)
    BY <2>1 DEF PersistResult
  <2> QED
    BY <1>0, <2>1, <2>2, <2>3, Advances, NotProduced DEF Lifecycle!Step, Lifecycle!Succeed
<1>6. CASE RecordErrorSave(k)
  <2>1. pc[k] = "record_save" /\ written[k] = 0 /\ Shown(k) \in {"absent", "running"}
    BY <1>0, <1>6 DEF RecordErrorSave, Inv, CallableInv, LinkInv, AfterMarking, Shown
  <2>2. Shown(k)' = "error"
    BY <1>0, <1>6 DEF RecordErrorSave, SaveJob, PyatsJobRow, TypeOK, Shown
  <2>3. ~PersistResult(k)
    BY <2>1 DEF PersistResult
  <2> QED
    BY <1>0, <2>1, <2>2, <2>3, Advances, NotProduced DEF Lifecycle!Step, Lifecycle!Fail
<1> QED
  BY <1>1, <1>2, <1>3, <1>4, <1>5, <1>6

LEMMA OtherStepsStutter ==
  ASSUME NEW k \in Jobs,
         \/ EnqueueCoreJob(k) \/ EnqueueFails(k) \/ LinkFails(k) \/ PickUp(k)
         \/ MarkRunningRead(k) \/ MarkRunningFails(k) \/ LoadInputs(k) \/ InputsRejected(k)
         \/ ComputeReturns(k) \/ ComputeRaises(k) \/ PersistFails(k)
         \/ FinishSuccessRead(k) \/ FinishSuccessFails(k)
         \/ RecordErrorRead(k) \/ RecordErrorFails(k) \/ Return(k) \/ Crash(k)
  PROVE  UNCHANGED <<shownStatus, hasProduced>>
<1>1. UNCHANGED <<rows, table, written>>
  BY DEF dbVars, EnqueueCoreJob, EnqueueFails, LinkFails, PickUp, MarkRunningRead, ReadJob,
         MarkRunningFails, LoadInputs, InputsRejected, ComputeReturns, ComputeRaises, PersistFails,
         FinishSuccessRead, FinishSuccessFails, RecordErrorRead, RecordErrorFails, Return, Crash
<1> QED
  BY <1>1 DEF shownStatus, hasProduced

LEMMA DeletionsRefine ==
  ASSUME StrongInv,
         \/ \E k \in Jobs : DeleteResult(k) \/ DeletePyatsJob(k)
         \/ OperatorStep
  PROVE  \/ \E k \in Jobs : Lifecycle!Step(k)
         \/ UNCHANGED <<shownStatus, hasProduced>>
<1>0. TypeOK
  BY DEF StrongInv
<1>1. UNCHANGED hasProduced
  BY <1>0, DeletionsSame DEF hasProduced
<1>2. ASSUME NEW k \in Jobs, DeletePyatsJob(k)
      PROVE  Lifecycle!Delete(k)
  <2>1. /\ rows' = rows \ {k}
        /\ \A j \in Jobs \ {k} : table'[j] = table[j]
    BY <1>0, <1>2 DEF DeletePyatsJob, TypeOK
  <2>2. shownStatus' = [shownStatus EXCEPT ![k] = "absent"]
    BY <2>1 DEF shownStatus
  <2> QED
    BY <1>1, <2>2 DEF Lifecycle!Delete
<1>3. CASE (\E k \in Jobs : DeleteResult(k)) \/ OperatorStep
  <2>1. rows' = rows
    BY <1>3 DEF DeleteResult, OperatorStep, DeleteDevice, DeleteInput, EditGolden
  <2>2. \A j \in rows : table'[j].status = table[j].status
    BY <1>0, <1>3, <2>1, DeletionsSame DEF TypeOK
  <2>3. UNCHANGED shownStatus
    BY <2>1, <2>2 DEF shownStatus
  <2> QED
    BY <1>1, <2>3
<1> QED
  BY <1>2, <1>3 DEF Lifecycle!Step

LEMMA InitRefines == Init => Lifecycle!Init
<1> SUFFICES ASSUME Init
             PROVE  Lifecycle!Init
  OBVIOUS
<1>1. shownStatus = [j \in Jobs |-> "absent"]
  BY DEF Init, shownStatus
<1>2. hasProduced = [j \in Jobs |-> FALSE]
  <2>1. ASSUME NEW j \in Jobs
        PROVE  (written[j] > 0) = FALSE
    <3>1. written[j] = 0
      BY DEF Init
    <3>2. written[j] > 0 <=> 0 > 0
      BY <3>1, Zenon
    <3>3. (0 > 0) <=> FALSE
      OBVIOUS
    <3> QED
      BY <3>2, <3>3, SMT
  <2> QED
    BY <2>1, Zenon DEF hasProduced
<1> QED
  BY <1>1, <1>2 DEF Lifecycle!Init

LEMMA NextRefines == StrongInv /\ [Next]_vars => [Lifecycle!Next]_(Lifecycle!vars)
<1> SUFFICES ASSUME StrongInv, [Next]_vars
             PROVE  (\E k \in Jobs : Lifecycle!Step(k)) \/ UNCHANGED <<shownStatus, hasProduced>>
  BY DEF Lifecycle!Next, Lifecycle!vars
<1>1. ASSUME NEW k \in Jobs, CreatePyatsJob(k) \/ WebStep(k) \/ WorkerStep(k) \/ Crash(k)
      PROVE  Lifecycle!Step(k) \/ UNCHANGED <<shownStatus, hasProduced>>
  BY <1>1, SavesRefine, OtherStepsStutter DEF WebStep, WorkerStep
<1>2. ASSUME \/ \E k \in Jobs : DeleteResult(k) \/ DeletePyatsJob(k)
             \/ OperatorStep
      PROVE  (\E k \in Jobs : Lifecycle!Step(k)) \/ UNCHANGED <<shownStatus, hasProduced>>
  BY <1>2, DeletionsRefine
<1>3. CASE UNCHANGED vars
  BY <1>3 DEF vars, dbVars, shownStatus, hasProduced
<1> QED
  BY <1>1, <1>2, <1>3 DEF Next, JobStep

\* ImplementsLifecycle: whatever fails or is deleted, an operator who watches
\* the jobs view sees each job go through the promised lifecycle.
THEOREM JobsImplementLifecycle == LinkFirst => (Spec => ImplementsLifecycle)
<1> SUFFICES ASSUME LinkFirst
             PROVE  Spec => ImplementsLifecycle
  OBVIOUS
<1>1. Init => Lifecycle!Init
  BY InitRefines
<1>2. StrongInv /\ [Next]_vars => [Lifecycle!Next]_(Lifecycle!vars)
  BY NextRefines
<1> QED
  BY <1>1, <1>2, LinkedInvariant, PTL DEF Spec, ImplementsLifecycle, Lifecycle!Spec
=============================================================================
