# netbox-pyats: a TLA+ model of the plugin's jobs and engines

netbox-pyats is a NetBox plugin that captures device state with pyATS/Genie,
stores it as snapshots, and compares snapshots with each other (diff) and with
golden configurations (compliance). The web process creates and enqueues jobs;
RQ workers on the `pyats` queue run them; NetBox's scheduler runs two system
jobs that enqueue more.

## 1. The system

### 1.1 Components

| Component | State it keeps | Operations | What makes it correct |
|---|---|---|---|
| Single-device jobs (`jobs.py`, `models.PyatsJob`) | the `PyatsJob` row, the `core.Job` row, the RQ entry, the result row; in the worker, the callable's variables | `enqueue_capture/parse/learn/diff/compliance`; `capture_snapshot_job`, `parse_commands_job`, `learn_snapshot_job`, `run_diff_job`, `run_compliance_job`; `_mark_running`, `_finish_success`, `_record_error`, `_persist_*` | the tracking row, the result row and the core.Job agree, whatever fails or is deleted and however the web and the worker interleave; every request is settled |
| Batch capture (`jobs.py`) | the same, plus the counters of the loop | `enqueue_batch_capture`, `batch_capture_job`, `_finish_partial` | the counts add up, one bad device does not take the others down, `partial` says what it says |
| Capture schedules (`jobs.py`, `models.PyatsCaptureSchedule`) | `enabled`, `last_run_at`, `next_run_at` of each schedule | `run_capture_schedules_job` on NetBox's interval, the edit views | an enabled schedule with devices is captured every interval; a failing one does not starve the others |
| Parser catalog (`jobs.py`, `parser_catalog.py`, `models.PyatsParserCatalog`, `PyatsParserCatalogRefreshSchedule`) | one catalog row per OS; the refresh schedule | `refresh_parser_catalog_job`, `run_parser_catalog_refresh_schedules_job`, the edit view | a failing OS leaves the other rows; the one schedule is the one consulted |
| Capture engine (`capture.py`) | none; a connection per capture | `capture_snapshot`, `capture_snapshot_for_netbox_device` | a capture always returns a result; status, data and warnings agree; the device is disconnected |
| Testbed (`testbed.py`) | none | `build_testbed`, `_build_device_entry`, `TestbedBuildReport` | every listed device is in the report, under the name of its entry; one bad device is reported, not fatal |
| Diff engine (`diff.py`) | none | `diff_snapshots` | exactly the differing paths, summary counts the tree |
| Compliance engine (`compliance.py`) | none | `run_compliance` | `compliant` exactly when the configs agree as the mode says |
| Credentials (`crypto.py`, `models.PyatsCredential`, form, serializer) | encrypted secrets; the key each process was started with | create, edit and patch, delete, `encrypt`, `decrypt`, `_resolve_credential` | a device is logged in to with the password typed last, or not at all |
| Worker status (`worker_status.py`) | a 15 second cache entry | `get_worker_status` | the badge says what was true a short while ago |
| Device and Genie pages (`views.py`, `forms.py`, `panel_support.py`, `tab_context.py`) | the page in the operator's browser | the PyATS tab, the Parse, Learn and Diff pages, the POST endpoints that validate and enqueue | what a page offers is accepted, what a view accepts the worker accepts, unless rows went in between |
| REST API, GraphQL, tables, filters, search, navigation, templates, migrations | none of their own | presentation and CRUD generated from the models | left to NetBox and Django |

### 1.2 How they interact

A view validates a request and calls an `enqueue_*` helper: the helper saves a
`PyatsJob` row, calls `core.models.Job.enqueue` (which saves a `core.Job` row
and pushes the work on Redis), then saves the `PyatsJob` row again with the
link to the `core.Job`. A worker takes the work and runs the callable, which
reads and saves the same `PyatsJob` row at entry and at the end, and in between
calls an engine and saves a result row. A capture first builds a testbed, which
decrypts the device's credential with the key the worker was started with. The scheduler's system jobs call the
same `enqueue_*` helpers for the schedules that are due. Operators delete and
edit rows through NetBox at any time; foreign keys cascade from the device and
are nulled from result rows.

### 1.3 Where it is hard

* The web and the worker both load and save the whole `PyatsJob` row, without a
  lock: each may overwrite the other.
* Inputs are checked in the view and loaded by the worker later; devices,
  snapshots and goldens may be gone, or belong to someone else, by then.
* Every callable has an inner `except` that saves an error row and an outer one
  that records the error on the `PyatsJob`; which of them runs depends on
  whether a Python variable was assigned before the failing save.
* A result row and the tracking row are saved separately; a worker may die or a
  save may fail in between.
* Loops over devices, schedules and operating systems must survive the failure
  of one element.
* A form edits a row it read earlier: a save may bring back what another request
  has replaced. Web and worker processes read the key when they start.
* A page is submitted after what it shows was captured over, deleted or moved;
  the form, the view and the worker each check it in their own way.

## 2. Modules

| Module | Source | What it models |
|---|---|---|
| `JobLifecycle` | ADR-0005, `models.PyatsJob` | abstract: the statuses an operator may see a job go through, and its one result |
| `PyatsJobs` | `jobs.py`, `models.py`, `views.py` | the five single-device jobs, from the view to the worker's last save; implements `JobLifecycle` |
| `BatchCapture` | `jobs.py` 949-1095 | a batch: the enqueue, the loop over the devices, counters, summary |
| `CaptureSchedules` | `jobs.py` 1529-1671 | the dispatcher over the schedules; EXTENDS `BatchCapture`, whose steps of enqueueing it takes |
| `CatalogRefresh` | `jobs.py` 1193-1231, 1436-1524, 1679-1724; `parser_catalog.py` | the refresh jobs, the catalog rows, the refresh schedule and its dispatcher |
| `CaptureEngine` | `capture.py`, `testbed.py` | one capture, request by request, on one connection |
| `Compliance` | `compliance.py` | normalisation, ordered and set comparison, as operators |
| `SnapshotDiff` | `diff.py` | the recursive diff and the flattening for the table, as operators |
| `Comparisons` | `jobs.py` | a diff or compliance job's call of an engine; EXTENDS the two |
| `Selections` | `compliance.py`, `views.py` | the loops that keep some elements of a list, or each element once; used by `Compliance` and `DevicePage` |
| `Testbed` | `testbed.py`, `crypto.py` | building a testbed of a list of devices, and the encryption, as operators |
| `Credentials` | `models.py`, `forms.py`, `api/serializers.py`, `crypto.py`, `testbed.py` | the credential rows, the form and API edits, the keys; EXTENDS `Testbed`, whose testbeds it asks for |
| `WorkerStatus` | `worker_status.py` | the cached badge, the cache, Redis, the workers and overlapping requests |
| `DevicePage` | `views.py`, `forms.py`, `panel_support.py`, `tab_context.py`, `jobs.py` | what the pages offer, the views accept and the worker checks; EXTENDS `Testbed` for the platforms |
| `WebSide` | | the three above in one specification |
| `*_proofs` | | theorems and proofs: `PyatsJobs_proofs`, `BatchCapture_proofs`, `CaptureSchedules_proofs`, `CatalogRefresh_proofs`, `CaptureEngine_proofs`, `WebSide_proofs`, `Comparisons_proofs`; `Selections_proofs` has what they share |
| `MC*` | | instances for TLC |

How the modules fit: `PyatsJobs` takes from an engine only its promise, that it
returns one of the outcomes of `SnapshotStatusChoices` (or that of a diff or a
compliance run) or raises; `CaptureEngine` and `Comparisons` say which of them
and with what. `CaptureSchedules` composes the dispatcher with the enqueueing of
its batches, `Credentials` the credential store with the builder that reads it.
`CatalogRefresh` is apart: it shares with the others only the handling of a
tracking row, which `PyatsJobs` models step by step and `CatalogRefresh` in one.

### 2.1 `PyatsJobs`

* `web[j]` is where the `enqueue_*` helper of job `j` is: it saves the row
  (`CreatePyatsJob`), pushes the job (`EnqueueCoreJob`), and saves the row again
  with the link (`LinkCoreJob`).
* `rows`, `table` are the `PyatsJob` rows, with the columns the properties need;
  `core` the status of each `core.Job`; `request` the arguments of the job.
* `pc[j]` and `mem[j]` are the worker: the statement the callable is at and its
  locals, with the copy of the row a helper has read and not yet saved.
  `objects.get` and `save` are separate actions, so every interleaving of the
  web process, the worker and operators between them is explored.
* `devices`, `inputs`, `owner`, `results` are the other rows. Operators delete
  devices (cascading), snapshots, golden configurations and results, and move a
  golden configuration to another device.
* A callable's `except` clauses are `OuterExcept` and `Raise`: whether an error
  is recorded depends on the local variable of the result row, which diff and
  compliance assign before they save it, and captures after (`RowAfterCompute`).
* `Faults` names what may go wrong: the push, a save of a result row, a worker,
  a deletion, an edit.
* `LinkFirst` is an assumption about timing: no worker starts before the
  request has linked its `core.Job`. The code does not ensure it; with it FALSE the
  runs and theorems hold for every timing, and the properties that need it are
  checked with TRUE (run `linked`) and refuted without (run `pending`).

### 2.2 `BatchCapture` and `CaptureSchedules`

`todo[b]` is the multiset of device ids still to iterate: a queryset with a join
may name a device twice. `counts[b]` is the loop's dictionary, `stored[b]` and
`captured[b]` what was really saved. Capturing a device and saving its snapshot
are separate actions, between which the device may be deleted; the save is
outside the loop's `try`, so a failure ends the batch (`PersistSnapshotFails`).
`CaptureSchedules` adds runs of the dispatcher, which may overlap (a one-shot run
beside the recurring one). A run evaluates the queryset of schedules once
(`fetched`, whole rows), then per schedule counts the devices, evaluates the filter
again in `enqueue_batch_capture`, whose two further steps are those of
`BatchCapture`, and saves the stamps with `update_fields`. Operators edit (read
the row, later save all of it) and delete schedules at any point; another schedule
may take the name a copy still has, which `full_clean` refuses. A raising step
ends the run, as the code has no `try` around one schedule. The composition ends
where a batch is linked: from there on it is a batch of `BatchCapture`, of which
`EveryBatchEnds` says that it ends.

### 2.3 `CatalogRefresh`

A list of commands stands for the Genie release it is from. A refresh reads its
release when its worker starts it, then for every OS reads the list (`Discover`)
and stores it (`Upsert`). The dispatcher's `get_or_create`, enqueue and
stamp are three actions. Operators open the form (which redirects an "add" to the
first row) and save it in two steps, post by the API, and delete.

### 2.4 `CaptureEngine`

The inputs are the platform, the credential and the kind of capture; each
request to the device is one action with a `...Fails` sibling. An answer has
content, is blank, skipped or absent; a text is present, empty or lost. RQ's job
timeout is an exception like another inside a request; between two, the
`except Exception` of the section takes it and drops what the section found and
warned of (`...SectionFails`), and between sections it is `Interrupted` or
`InterruptedOutside`. A failure to disconnect leaves the connection `abandoned`:
`AlwaysDisconnects` asks for the attempt. A connect that fails is not followed by
a disconnect, and counts as no connection. `NoSilentEmptySuccess` looks at what is in
a green row and not at what Python counts as empty; the row that holds
nothing and hides a failure of the parser is its exception, `BlankFallback`.

### 2.5 `Testbed`, `Credentials`

Ciphertext is the pair of its key and its plaintext; the empty string stays empty
and a key that is no Fernet key raises. `Testbed` builds a list of devices as the
loop does: names, platforms, the device that is refused for the name of another,
the first credential that cannot be decrypted and ends the build. `Credentials`
keeps the rows under their two unique constraints, updates by the form and by
PATCH as a read of the row and a later save of the row, and the setting with
which each process was started. `typed` and `overtaken` record what operators
did. The one hole: an edit without a password that was read before another
request stored a new password saves the old ciphertext over it (`overtaken`). A
device with several credentials uses the first by name.

### 2.6 `WorkerStatus`

A request reads the cache, asks Redis and writes the cache in three actions; time
passes in between, at most `MaxDelay`. `seen` remembers when each status was true
last, which is what the property measures the badge against.

### 2.7 `DevicePage`

A page is the set of submissions its form can make (`picks`) and the part that it
offers as valid (`offers`). Others capture, delete, edit and refresh while it is
on the screen (`MaxChanges` times). `Post` is the form's `clean` and the view;
`WorkerAccepts` the checks of `run_diff_job` and `run_compliance_job`. One operator
is followed from one page to one request; devices are not deleted here; the
Genie Diff page is submitted by its own forms, so that in the mode "same" the
after device is the before device. `PyatsJobs` lets the web create all requests
that these views accept at once and goes on from there.

### 2.8 `WebSide`

The three parts share no variable: `part` picks the one that moves, so that the
run explores each and not their product.

### 2.9 `Compliance`, `SnapshotDiff`, `Comparisons`

Pure operators. difflib's matching is modelled as it works: the longest
block, the earliest among equals, and recursion on both sides, which is not
always a longest common subsequence. A line is a sequence of tokens, so that one may
end in the number that the key of a repeated line gets. Python values are records that carry their
type; `Equal` is Python's equality, with `True == 1`. What the code does by calling
itself is a recursive function of the values: `Values` are the JSON values
compared and what is in them, and `Depth` says that nesting ends. `Comparisons` takes a
request, calls the engine as the job does and keeps the outcome; its properties
compare it with definitions that have nothing in common with the algorithm.

## 3. Runs

| Run | Question | Bounds | Result |
|---|---|---|---|
| `race` | do the tracking row, the result row, the `core.Job` and the links agree under every interleaving and fault? | one job of any type, two devices, three snapshots, one golden configuration, all faults, `LinkFirst` FALSE | holds |
| `linked` | does a job whose link is saved first follow `JobLifecycle`, keep its link, and settle? | the same, `LinkFirst` TRUE, fairness | holds |
| `pending` | is a job shown as pending really not picked up? | no faults, `LinkFirst` FALSE | violated |
| `stuck` | does every run that ends leave a settled row? | one compliance job, deletions only | violated |
| `batch` | do counters, summary and status tell what was stored, what can end a batch early, and does every batch end? | one batch, two devices, each at most twice, all faults, `LinkFirst` FALSE, fairness | holds |
| `dispatch` | does a run dispatch what it fetched, once, with true stamps, respect operators, and get it done? | two schedules, one device, two runs that may overlap, two batches, one edit or deletion, names that clash, failing pushes, crashes, deletions of the device, fairness | holds |
| `catalog` | do refreshes tell the truth, and does an upgrade reach every row? | two OSes, two overlapping refreshes, two releases, one fault, one operator request | holds |
| `singleton` | is the enabled schedule the one that is read? | the same, two requests | violated |
| `capture` | does a capture account for every command, explain its failures and disconnect? | two commands, lists with none, one, two and a repeated one, one or two features | holds |
| `resolver` | is an unsupported platform reported as such, with the resolver the jobs pass? | one command | violated |
| `web` | do logins use the right password or refuse, do reports cover their devices, is the badge recent, do pages, views and workers agree? | two credentials, two names, two passwords, two editors, one key beside the derived one, four operator acts; two requests for the badge, lifetime 2, delay 1, time 9; two devices, at most five snapshots at first, two changes | holds |
| `comparisons` | are verdicts, trees, counts and tables right? | texts of up to three lines over six line forms, nested payloads | holds |

Why the bounds are enough. Jobs do not read each other's rows: they meet only in
the devices and inputs that operators delete, which the environment of one job
does too, so one job with every deletion shows what many would. Two devices let
an input belong to another device; three snapshots give a diff two inputs and
leave one to be wrong. A batch treats devices one after the other: two, each
named up to twice, give a loop of up to four turns with a first, a middle and a
last. Of two schedules either may fail or go before or after the other, and two
runs overlap in every order. Two refreshes are an old and a new
one; one fault and one request are enough for each error path, and the
properties of the catalog concern pairs. Texts of three lines contain the
moves, repetitions and numbered-key collisions that difflib and the tree
treat specially; payloads are nested two deep with lists of different lengths. Two
editors let one overtake the other, four acts are a creation, a retyping, a key
and an edit. The pages' snapshot limits are 3, below the five snapshots of the
largest history. The theorems of section 4 lift these bounds for every safety
property of every run that passes, and leave them to the liveness properties.

Every bound is a CONSTANT: `Repeats` how often a device may be in a queryset, `MaxRuns`,
`MaxEdits`, `Interval`, `MaxRelease`, `MaxPk`, `MaxFaults`, `MaxRequests`, `MaxActs`,
`MaxTime`, `MaxDelay`, `MaxWorkers`, `MaxChanges`. `web` is run with symmetry in editors
and passwords, and checks no liveness.

Fairness is asked of the program only: a web request that has begun goes on, a
worker that runs goes on and the `pyats` queue is served, NetBox re-enqueues
the dispatchers. Operators and faults have none. It is weak fairness of the web step and of the
worker step of each job and each batch, and of the step of each dispatcher run:
one process executes each, and nothing else disables it for good. `EveryRequestSettles`,
`EveryBatchEnds` and `FetchedIsDispatched` leave out what is lost (a row or worker that is
gone, a run that raised): the code has nothing that could settle it. `UpgradeReaches` supposes that the schedule stays enabled
from some time on and that the number of faults is finite.

Deadlock is not checked: jobs end, and a system where all have ended stops.

`capture` is run with a resolver (`Resolver` = "device") and `resolver` with
none, which is what all four callers in `jobs.py` pass. With none, every
capture raises today; the first run is about the engine as it is meant to be called
and as its tests call it. `PyatsJobs` keeps all outcomes of an engine, so its
properties hold either way.

## 4. Theorems

Proved for all values of the constants that meet the assumptions named in the
modules: any number of jobs, devices, schedules, operating systems, commands,
requests, editors, texts and snapshots, and every timing. The assumptions say no
more than what the constants are: that sets of different kinds do not
overlap, that bounds are numbers, and of the inputs

* `CredentialAssumption`: a device's row is found by its primary key, and a list
  of devices names rows;
* `PageAssumption`: the limits on listed snapshots are positive, as
  `panel_support.py` and `forms.py` have them, and a select offers lists of commands;
* `ComplianceAssumption`: texts are sequences of lines and a line any sequence of
  `Tokens`, the empty one too;
* `SnapshotAssumption`: a value of JSON is a scalar or holds finitely many values by keys
  that are strings, none of them as deeply nested as itself. `json.loads` yields
  nothing else, and stored payloads come from a `JSONField`.

| Module | Proved | By |
|---|---|---|
| `PyatsJobs_proofs` | type correctness; at most one result row per run of a job; an error means no result, a success or a link exactly one; a completed `core.Job` has its result; no dangling foreign keys; bad inputs are reported | `JobInv`, `NoDanglingLink`, `ReportInv` |
| `PyatsJobs_proofs` | with `LinkFirst`: a capture that ended and could save has settled its row; the link of a row is kept; the model implements `JobLifecycle` | `StrongInv` = `TypeOK`, `JobInv`, `LinkInv`, `CaptureInv` |
| `BatchCapture_proofs` | type correctness; counters match the work; the summary covers the whole loop; only a refused save ends a batch early | `BatchInv` = `InStep`, `Counted`, `Covered`, `Outcome` |
| `CaptureSchedules_proofs` | type correctness; at most one batch per run and schedule, for all devices of the filter that are there; a run that ends normally covers what it fetched; stamps are real; a dispatcher changes no operator's decision | `DispatchInv` = `RunInv`, `CoverInv`, `CountInv`, `BatchInv`, `OriginsDiffer`, `StampInv`; `WholeInv` |
| `CatalogRefresh_proofs` | counters and summary tell the run; the dispatcher enables, disables and deletes nothing | `CatalogInv` = types, `Account`, `Phase` |
| `CaptureEngine_proofs` | type correctness; an attempt to close each connection; only ready devices dialled; failures explained; lost texts warned of; no silent empty success; every command accounted for | `Typed`, `ConnectionInv`, `WarningInv`, `SkipInv`, `FallbackInv`, `ShownInv`, `AccountInv` |
| `WebSide_proofs` | the badge is recent | `StatusInv` = types, `SeenInv` |
| `WebSide_proofs` | what a page offers is accepted; workers refuse nothing a view accepted | `PageInv` |
| `WebSide_proofs` | a testbed logs in with the last password or refuses; the report covers the devices | `CredentialInv`; induction on the list of devices |
| `Comparisons_proofs` | verdicts are right; noise is ignored; the tree of a compliance check holds every line; a diff is lossless, symmetric, and its changes and counts are real | `ComparisonInv`; induction on texts and on depth |

The arguments. A property of a row alone is not inductive: the row that will be
saved next is in a local of some process.

* `JobInv` has, per job, `CallableInv`, which ties the locals to the result row at
  each statement (a result row exists exactly if the variable `row` says "saved";
  a callable that leaves without an exception has saved it), and `RowInv`, which
  says that until the callable settles the row, the row and every copy of it
  that may still be saved are fresh, neither linked nor settled. The stale row
  that `LinkCoreJob` saves is fresh too: it takes a status back but makes no false
  promise, which is why these theorems hold without `LinkFirst`. `NoDanglingLink` is
  inductive by itself: every save is preceded by the check of foreign keys and
  every deletion clears the links to what it deletes.
* `ReportInv`: inputs once loaded do not fit at a later step only if the row to be
  saved is an error row, or the device or an input is gone; a compliance job
  needs snapshots and golden configurations to be told apart.
* `LinkInv`: once the link is saved before the worker starts, the row shows where
  the worker is, and every copy the worker holds has the link. `CaptureInv`: a capture
  holds a saved snapshot or none, never an unsaved one, so that its outer
  `except` always records. The refinement takes one step per action: each
  changes a shown row as one action of `JobLifecycle` does, or leaves it.
* `Counted` adds the counters up to the devices taken from `todo`, `Covered` says
  what a counter of 0 means for the devices so far, `Outcome` what the row says of
  them.
* `CoverInv` splits what a run fetched into what is to do, in hand, sent and
  skipped; `OriginsDiffer` keeps the batches of one run apart, and `StampInv` and
  `BatchInv` tie a stamp to a batch that is linked. `WholeInv` carries the devices of
  the filter to the batch: devices go and do not come back, and neither the list nor
  the copy fetched changes meanwhile.
* `Account` adds the counters of a refresh up to what it did with each OS; `Phase`
  says where in a turn they are.
* `AccountInv`: every command is still to do, answered or warned of; the one that
  needs reasoning about sequences. `FallbackInv`: a text that was lost has been read
  again before a fallback is stored, which ties an empty fallback to what the
  device said.
* `SeenInv`: a status that is cached was true at most a request before it was
  cached.
* `PageInv`: what is offered can be picked, and every pick and offer fits the
  world as it was when the page was built; rows never change device or kind, so
  what is still there fits when it is posted. `NewestAre` says what the limited lists
  of snapshots hold.
* `CredentialInv`: outside `overtaken`, a row and the copy an editor has read hold
  the password typed last, under the key the web process had then. `behind` are the
  copies another edit has made old; their save is what adds to `overtaken`.
* `BuildCovers` has no invariant of a state: the loop of `build_testbed` is a
  function of how many devices it has seen, and `TurnCovers` is its loop invariant.
* Verdicts: `Matched` recurses on ranges that get smaller, finds only positions of
  equal lines (`MatchedIsSound`), pairs each position once, and matches equal texts
  wholly, because then the longest block is all of it. So there is no drift
  exactly if the texts are equal, whichever blocks difflib prefers.
* The tree of a check: a key is a line, or a line and its number, and no two
  leaves have the same one (`KeysDiffer`: two leaves with the same line have
  different numbers, and `AmbiguousKeys` excludes the rest), so that what the tree shows
  is what the buckets hold. What is matched is as often in the golden as in the
  actual text (`MatchedAlike`), and what is not matched is in the other buckets.
* Diffs: values are compared by induction on `Depth`. The two that are compared
  lose depth together; the nodes made of them are nested at most as deep
  (`NodeDepth`), so that what walks over the tree is defined by induction as well. A count
  of the summary is a sum over the children, and the rows of the table are the
  union of those of the children, disjoint since their paths begin with
  different keys (`RowsApart`).

Induction over data is by sets, since the theorems of the library that take an
operator cannot be used: `Induction` and `StrongInduction` of
`Selections_proofs` speak of a set of numbers and follow from the
well-foundedness of the order on them, and `Recursion` shows that
a function defined by what it is below its argument satisfies its definition.

Model-checked only: liveness (`EveryRequestSettles`, `EveryBatchEnds`,
`FetchedIsDispatched`, `UpgradeReaches`), which is out of the prover's reach.
Everything else that a run checks, with the result `pass`, is a theorem.

## 5. Where code and documentation disagree

Shown by a run:

* `pending` (`jobs.py:379`): a worker faster than the request has its update
  overwritten; the job is shown as pending for ever.
* `stuck` (`jobs.py:945`): the error row of a compliance or diff job is refused
  and no error is recorded: the job is running for ever.
* `resolver` (`capture.py:650`): no caller passes a resolver, the wrapper's
  default overrides that of the builder: every capture ends in error.
* `singleton` (`jobs.py:1702`): the refresh schedule, deleted and added again,
  is never read.

Seen on the way, without a run:

* A device deleted during its own capture ends its batch in error and the
  devices after it are not captured (`jobs.py:1071`), against "one bad device
  never aborts a 500-device sweep" (ADR-0002). `OnlyPersistenceAborts` says
  how far the promise holds.
* A configuration whose parser fails is stored as text without a warning
  (`capture.py:196`, against the docstring at 135-136). When the text is empty
  too, on both readings, the row is `{"raw": "", "_parser_error": ...}` with an
  empty `config_raw`, which Python counts as data: the capture is green, empty
  and without a warning, for all that the comment at 599 says of green-but-empty
  rows. `BlankFallback` names that case, and `NoEmptySuccess` is the theorem that
  no other failure is hidden so.
* ADR-0002 says that no exception is raised into the worker and every device gets a row; the
  callables re-raise, and a batch only counts its failures. ADR-0005 says
  that a job with an error row has status error; the code finishes it as
  success, with a comment that says why.
* `compliance.py:39` and `:82` speak of a longest common subsequence; difflib
  finds another alignment at times. Both modes' verdicts are right all the same.
* The keys of the ordered tree are not always unique (`compliance.py:208`): a
  line that ends in ` #2` collides with the second of a repeated line.
* `diff.py` promises to report changes of type; `True` and `1` are equal. The
  table shows `"1"` and `1`, and `""` and `None`, alike.
* An edit that leaves the password blank saves the ciphertext it read, although
  another request stored a new password meanwhile (`forms.py:99`, against "Leave
  blank to keep the existing password"); `overtaken` in `Credentials`.
* A cache that is down raises into the page (`worker_status.py:56`), against "Never
  raises" at `worker_status.py:48`; `CacheGetRaises`.
* Five newer captures of other kinds hide the last configuration from the
  compliance form of the tab (`views.py:139`), which then asks for a capture.
* A run without an interval blanks `next_run_at` (`jobs.py:1538` says untouched).
* The docstring of the refresh says that the warnings are in the summary and
  that registry failures are counted as errored; they are logged, and counted as skipped.

## 6. Not modelled

Tables, filters, search, navigation, rendering, permissions, GraphQL, the
CRUD that NetBox generates for the other models, migrations, development
scripts: they keep no state of their own, and what they do is Django's and
NetBox's. Of the REST API only the serializer of credentials and the creation of
refresh schedules are modelled, the parts with code of the plugin. Of a credential
the enable secret takes the same path as the password; user name, protocol and
port are passed on as they are. A job that an operator puts back on the queue after a crash is
not run a second time in the models, so the second result row this may leave is a
hazard without a property. A device leaves the filter of a schedule only by its
deletion; edits of its attributes come to the same. Text of warnings, timestamps beyond the stamps of
the schedules, sizes and versions of snapshots, and logging are left out of the
models. Genie, Unicon, RQ, Redis, Django and the database appear as what the
code may see of them.

## 7. Plan

Done: the jobs with their lifecycle, the batch, the schedules, the catalog, the
engine, the comparisons, credentials, testbeds, the badge and the pages; the
safety properties of all of them as theorems.

Left, in this order:

1. The deletion of devices while a page is on the screen, and several operators'
   pages at a time, in `DevicePage`.
2. The edit view of golden configurations with its promotion from a snapshot,
   and the compliance of a promoted one.
3. The steps that liveness rests on, as action properties: that a worker's step
   always brings its job nearer to its end.
