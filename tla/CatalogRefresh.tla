---------------------------- MODULE CatalogRefresh ----------------------------
(***************************************************************************)
(* The parser catalog, the jobs that refresh it, and the schedule that     *)
(* enqueues them.  Source: jobs.py, refresh_parser_catalog_job and         *)
(* run_parser_catalog_refresh_schedules_job; parser_catalog.py; models.py, *)
(* PyatsParserCatalog and PyatsParserCatalogRefreshSchedule; views.py.     *)
(*                                                                         *)
(* A refresh reads the list of commands of every OS from the Genie release *)
(* of its worker; a list stands for the release it is from.  Releases are  *)
(* upgraded while refreshes run, workers overlap, operators edit the       *)
(* schedule.  How a job's tracking row is linked and read is the subject   *)
(* of PyatsJobs: here it is enqueued and marked in one step.  The stamps   *)
(* of a schedule are display only, and those of CaptureSchedules: left out.*)
(***************************************************************************)
EXTENDS Naturals, Sequences, FiniteSets, Functions

CONSTANTS
  OsOrder,       \* the OSes that Genie supports, in the order of the loop
  Runs,          \* refresh jobs queued or running at the same time
  NoRow,         \* no row, list or version
  MaxRelease,    \* the last Genie release
  MaxPk,         \* how many primary keys of schedules are given out
  MaxFaults,     \* how many faults happen
  MaxRequests    \* how many requests operators make about schedules

ASSUME CatalogAssumption ==
  /\ OsOrder \in Seq(Range(OsOrder))
  /\ IsInjective(OsOrder)
  /\ MaxRelease \in Nat \ {0}
  /\ MaxPk \in Nat \ {0}
  /\ MaxFaults \in Nat
  /\ MaxRequests \in Nat
  /\ NoRow \notin Nat

Oses == Range(OsOrder)

VARIABLES
  release,      \* the Genie release new work is done with
  catalog,      \* the PyatsParserCatalog row of each OS
  refresh,      \* the refresh jobs
  schedules,    \* the PyatsParserCatalogRefreshSchedule rows, by primary key
  sequence,     \* the last primary key the database has given out
  form,         \* the schedule an operator's request is about to save
  requests,     \* how many requests operators have made about schedules
  dispatcher,   \* the run of the dispatcher
  faults        \* how many faults have happened

operatorVars == <<sequence, form, requests>>
vars == <<release, catalog, refresh, schedules, operatorVars, dispatcher, faults>>
-----------------------------------------------------------------------------
(* Types *)

Releases == 1..MaxRelease
Counters == {"refreshed", "skipped", "errored", "total"}
NoCounts == [c \in Counters |-> 0]

NewJob ==
  [state |-> "none", status |-> "pending", release |-> 1, next |-> 1, found |-> "list",
   counts |-> NoCounts, did |-> [o \in Oses |-> "nothing"]]

Init ==
  /\ release = 1
  /\ catalog = [o \in Oses |-> NoRow]
  /\ refresh = [r \in Runs |-> NewJob]
  /\ \/ schedules = <<>> /\ sequence = 0
     \/ schedules \in [{1} -> BOOLEAN] /\ sequence = 1
  /\ form = NoRow
  /\ requests = 0
  /\ dispatcher = [state |-> "idle", enabled |-> FALSE]
  /\ faults = 0
-----------------------------------------------------------------------------
Fault ==
  /\ faults < MaxFaults
  /\ faults' = faults + 1

\* Somebody installs the next release.
Upgrade ==
  /\ release < MaxRelease
  /\ release' = release + 1
  /\ UNCHANGED <<catalog, refresh, schedules, operatorVars, dispatcher, faults>>

Free(r) == refresh[r].state \in {"none", "ended"}

\* enqueue_refresh_parser_catalog; a finished job makes place for a new one.
EnqueueRefresh(r) ==
  /\ Free(r)
  /\ refresh' = [refresh EXCEPT ![r] = [NewJob EXCEPT !.state = "queued"]]

\* The Refresh parser list button of a device page.
RefreshParserList(r) ==
  /\ EnqueueRefresh(r)
  /\ UNCHANGED <<release, catalog, schedules, operatorVars, dispatcher, faults>>
-----------------------------------------------------------------------------
(* refresh_parser_catalog_job *)

jobOnly == <<release, catalog, schedules, operatorVars, dispatcher>>

MarkRunning(r) ==
  /\ refresh[r].state = "queued"
  /\ refresh' = [refresh EXCEPT ![r] = [@ EXCEPT !.state = "loop", !.status = "running",
                                                 !.release = release]]
  /\ UNCHANGED <<jobOnly, faults>>

\* _mark_running is outside the try.
MarkRunningFails(r) ==
  /\ refresh[r].state = "queued"
  /\ Fault
  /\ refresh' = [refresh EXCEPT ![r].state = "ended"]
  /\ UNCHANGED jobOnly

Counted(counts, result) ==
  LET c == CASE result = "list" -> "refreshed"
             [] result = "empty" -> "skipped"
             [] result = "raised" -> "errored"
  IN  [counts EXCEPT ![c] = @ + 1]

\* The turn of an OS is over.
Turned(job, result) ==
  [job EXCEPT !.next = @ + 1, !.counts = Counted(@, result), !.did[OsOrder[job.next]] = result]

\* The loop goes on to the row of the OS or, if reading its list raised, to
\* the next OS.
AfterDiscoveryStopping(found) == IF found = "raised" THEN "finish" ELSE "upsert"
AfterDiscovery(found) == IF found = "raised" THEN "loop" ELSE "upsert"

\* refresh_parser_catalog_for_os: the list, an empty one with a warning, or an
\* exception (no Genie on the worker).
Discover(r, found) ==
  LET job == refresh[r]
      counts == [job.counts EXCEPT !.total = @ + 1]
      turn == [job EXCEPT !.state = AfterDiscovery(found), !.found = found, !.counts = counts]
  IN  /\ job.state = "loop"
      /\ job.next <= Len(OsOrder)
      /\ IF found = "list" THEN UNCHANGED faults ELSE Fault
      /\ refresh' = [refresh EXCEPT ![r] =
           IF found = "raised" THEN Turned(turn, found) ELSE turn]
      /\ UNCHANGED jobOnly

\* The row of a result; an empty list comes without a version.
CatalogRow(found, from) ==
  IF found = "list" THEN [commands |-> from, version |-> from]
                    ELSE [commands |-> NoRow, version |-> NoRow]

StoredOnce(row, found, from) == IF row = NoRow THEN CatalogRow(found, from) ELSE row
Stored(row, found, from) == CatalogRow(found, from)

\* update_or_create, then the count.
Upsert(r) ==
  LET job == refresh[r]
  IN  /\ job.state = "upsert"
      /\ catalog' = [catalog EXCEPT ![OsOrder[job.next]] = Stored(@, job.found, job.release)]
      /\ refresh' = [refresh EXCEPT ![r] = [Turned(job, job.found) EXCEPT !.state = "loop"]]
      /\ UNCHANGED <<release, schedules, operatorVars, dispatcher, faults>>

\* The outer except: _record_error.
RecordError(job) == [job EXCEPT !.state = "ended", !.status = "error"]

UpsertFails(r) ==
  /\ refresh[r].state = "upsert"
  /\ Fault
  /\ refresh' = [refresh EXCEPT ![r] = RecordError(@)]
  /\ UNCHANGED jobOnly

\* The loop has ended.
EndLoop(r) ==
  /\ refresh[r].state = "loop"
  /\ refresh[r].next > Len(OsOrder)
  /\ refresh' = [refresh EXCEPT ![r].state = "finish"]
  /\ UNCHANGED <<jobOnly, faults>>

FinishSuccess(r) ==
  /\ refresh[r].state = "finish"
  /\ refresh' = [refresh EXCEPT ![r] = [@ EXCEPT !.state = "ended", !.status = "success"]]
  /\ UNCHANGED <<jobOnly, faults>>

FinishSuccessFails(r) ==
  /\ refresh[r].state = "finish"
  /\ Fault
  /\ refresh' = [refresh EXCEPT ![r] = RecordError(@)]
  /\ UNCHANGED jobOnly

\* The worker dies: nothing more happens to the job or its row.
CrashRefresh(r) ==
  /\ refresh[r].state \in {"loop", "upsert", "finish"}
  /\ Fault
  /\ refresh' = [refresh EXCEPT ![r].state = "ended"]
  /\ UNCHANGED jobOnly
-----------------------------------------------------------------------------
(* run_parser_catalog_refresh_schedules_job *)

dispatcherOnly == <<release, catalog, operatorVars, faults>>

WithRow(pk, enabled) ==
  [p \in {pk} \cup DOMAIN schedules |-> IF p = pk THEN enabled ELSE schedules[p]]

\* get_or_create with the primary key 1, which the sequence does not notice.
GetOrCreate ==
  LET known == IF 1 \in DOMAIN schedules THEN schedules ELSE WithRow(1, FALSE)
  IN  /\ dispatcher.state = "idle"
      /\ schedules' = known
      /\ dispatcher' = [state |-> IF known[1] THEN "enqueue" ELSE "stamp", enabled |-> known[1]]
      /\ UNCHANGED <<dispatcherOnly, refresh>>

DispatchRefresh(r) ==
  /\ dispatcher.state = "enqueue"
  /\ EnqueueRefresh(r)
  /\ dispatcher' = [dispatcher EXCEPT !.state = "stamp"]
  /\ UNCHANGED <<dispatcherOnly, schedules>>

\* Nothing catches the exception; JobRunner.handle schedules the next run.
DispatchFails ==
  /\ dispatcher.state = "enqueue"
  /\ Fault
  /\ dispatcher' = [dispatcher EXCEPT !.state = "idle"]
  /\ UNCHANGED <<release, catalog, operatorVars, refresh, schedules>>

\* save(update_fields): of the row that was read no more than the stamps.
StampedCopy(enabled) == dispatcher.enabled
Stamped(enabled) == enabled

Stamp ==
  /\ dispatcher.state = "stamp"
  /\ 1 \in DOMAIN schedules
  /\ schedules' = [schedules EXCEPT ![1] = Stamped(@)]
  /\ dispatcher' = [dispatcher EXCEPT !.state = "idle"]
  /\ UNCHANGED <<dispatcherOnly, refresh>>

\* The row was deleted meanwhile: the save raises.
StampFails ==
  /\ dispatcher.state = "stamp"
  /\ 1 \notin DOMAIN schedules
  /\ dispatcher' = [dispatcher EXCEPT !.state = "idle"]
  /\ UNCHANGED <<dispatcherOnly, refresh, schedules>>
-----------------------------------------------------------------------------
(* Operators and the schedule *)

operatorOnly == <<release, catalog, refresh, dispatcher, faults>>

Request ==
  /\ requests < MaxRequests
  /\ requests' = requests + 1

\* Post to the edit view, with a primary key or, to add a row, without: then
\* the first row, if there is one, takes its place.
OpenForm(pk, enabled) ==
  LET first == CHOOSE p \in DOMAIN schedules : \A q \in DOMAIN schedules : p <= q
  IN  /\ Request
      /\ form = NoRow
      /\ pk \in {0} \cup DOMAIN schedules
      /\ form' = [pk |-> IF pk = 0 /\ schedules # <<>> THEN first ELSE pk, enabled |-> enabled]
      /\ UNCHANGED <<operatorOnly, schedules, sequence>>

\* An insert takes the next number; the database refuses one that is in use.
Insert(enabled) ==
  LET pk == sequence + 1
  IN  /\ sequence < MaxPk
      /\ sequence' = pk
      /\ schedules' = IF pk \in DOMAIN schedules THEN schedules ELSE WithRow(pk, enabled)

\* The form saves the whole row it has read, and brings it back if it is gone.
SaveForm ==
  /\ form # NoRow
  /\ IF form.pk = 0
       THEN Insert(form.enabled)
       ELSE schedules' = WithRow(form.pk, form.enabled) /\ UNCHANGED sequence
  /\ form' = NoRow
  /\ UNCHANGED <<operatorOnly, requests>>

\* The REST API creates rows without looking for one.
PostSchedule(enabled) ==
  /\ Request
  /\ Insert(enabled)
  /\ UNCHANGED <<operatorOnly, form>>

DeleteSchedule(pk) ==
  /\ Request
  /\ pk \in DOMAIN schedules
  /\ schedules' = [p \in DOMAIN schedules \ {pk} |-> schedules[p]]
  /\ UNCHANGED <<operatorOnly, sequence, form>>
-----------------------------------------------------------------------------
RefreshStep(r) ==
  \/ MarkRunning(r)
  \/ Discover(r, "list")
  \/ Upsert(r)
  \/ EndLoop(r)
  \/ FinishSuccess(r)

RefreshFault(r) ==
  \/ MarkRunningFails(r)
  \/ \E found \in {"empty", "raised"} : Discover(r, found)
  \/ UpsertFails(r)
  \/ FinishSuccessFails(r)
  \/ CrashRefresh(r)

DispatcherStep ==
  \/ GetOrCreate
  \/ \E r \in Runs : DispatchRefresh(r)
  \/ Stamp
  \/ StampFails

OperatorStep ==
  \/ \E r \in Runs : RefreshParserList(r)
  \/ \E pk \in 0..MaxPk, enabled \in BOOLEAN : OpenForm(pk, enabled)
  \/ SaveForm
  \/ \E enabled \in BOOLEAN : PostSchedule(enabled)
  \/ \E pk \in 1..MaxPk : DeleteSchedule(pk)
  \/ Upgrade

Next ==
  \/ \E r \in Runs : RefreshStep(r) \/ RefreshFault(r)
  \/ DispatcherStep
  \/ DispatchFails
  \/ OperatorStep

Spec == Init /\ [][Next]_vars

\* The core.Job of the dispatcher recurs and the workers of the pyats queue
\* keep working; no operator has to do anything, no fault has to happen.
FairSpec ==
  /\ Spec
  /\ WF_vars(DispatcherStep)
  /\ \A r \in Runs : WF_vars(RefreshStep(r))
-----------------------------------------------------------------------------
(* Properties *)

Did(r, result) == Cardinality({o \in Oses : refresh[r].did[o] = result})

\* The counts that become the summary of a refresh are what it did to the
\* catalog, and a refresh that succeeds went through every OS, whatever went
\* wrong with some of them.
CountsTellTheRun ==
  \A r \in Runs :
    LET job == refresh[r]
        turns == Did(r, "list") + Did(r, "empty") + Did(r, "raised")
    IN  /\ job.counts.refreshed = Did(r, "list")
        /\ job.counts.skipped = Did(r, "empty")
        /\ job.counts.errored = Did(r, "raised")
        /\ job.status = "success" => turns = Len(OsOrder)
        /\ job.state \in {"finish", "loop"} => job.counts.total = turns

\* What an operator has decided stands: no step of the dispatcher enables or
\* disables a schedule, though it saves a row it has read before.
OperatorsDecide ==
  [][dispatcher' # dispatcher =>
       \A pk \in DOMAIN schedules : schedules'[pk] = schedules[pk]]_vars

\* An upgrade reaches every row: while the schedule of primary key 1 stays
\* enabled, the lists are those of the last release some day and stay so, even
\* when refreshes that started before the upgrade end after it and some turns
\* fail (run_parser_catalog_refresh_schedules_job, refresh_parser_catalog_job).
UpgradeReaches ==
  \A o \in Oses :
    <>[](1 \in DOMAIN schedules /\ schedules[1] /\ release = MaxRelease)
      => <>[](catalog[o] = CatalogRow("list", MaxRelease))

\* "reads the schedule row and, when enabled=True, enqueues one refresh": the
\* dispatcher does not pass over the only schedule there is, which is enabled.
EnabledIsDispatched ==
  [][dispatcher.state = "idle" /\ dispatcher'.state = "stamp" =>
       ~ \E pk \in 1..MaxPk : DOMAIN schedules = {pk} /\ schedules[pk]]_vars
=============================================================================
