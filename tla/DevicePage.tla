------------------------------ MODULE DevicePage ------------------------------
(***************************************************************************)
(* The pages an operator starts jobs from, and what their forms make of a  *)
(* submission.  Source: views.py, the PyATS tab, the Genie pages and the   *)
(* views they post to; forms.py; panel_support.py; tab_context.py; the     *)
(* checks of the worker in jobs.py.                                        *)
(*                                                                         *)
(* A page stays on the screen while others capture, delete and edit what   *)
(* it shows, and a request stays on the queue.  A page is what it offers:  *)
(* the submissions it says will work, among all that its fields can make.  *)
(* Devices are not deleted here: PyatsJobs and Credentials delete them.    *)
(***************************************************************************)
EXTENDS Testbed, Selections

CONSTANTS
  PageDevices,                 \* devices whose pages are shown
  Slugs,                       \* slugs their platforms may have
  Histories,                   \* snapshots there are at first, oldest first
  Captures,                    \* rows of snapshots that workers may add
  Goldens,                     \* primary keys of PyatsGoldenConfig rows
  CommandLists,                \* what a refresh may find for an OS
  Manual,                      \* what may be typed as a manual command
  NoPage,                      \* no page is shown
  NoRequest,                   \* nothing is queued yet
  NoOwner,                     \* the device of a golden config that is gone
  NoRow,                       \* the commands of an OS without a catalog row
  DEVICE_PAGE_SNAPSHOT_LIMIT,  \* how many snapshots the tab shows
  SNAPSHOT_LIMIT,              \* and the Genie Diff page, of each device
  MaxChanges                   \* how often others change the rows

CAPTURE_KIND_CHOICES == {"config", "state", "full"}
SnapshotKindChoices == CAPTURE_KIND_CHOICES \cup {"parse", "learn"}
SnapshotRows == [device: PageDevices, kind: SnapshotKindChoices,
                 status: {"success", "unsupported", "error"}, there: {TRUE}]

ASSUME PageAssumption ==
  /\ {DEVICE_PAGE_SNAPSHOT_LIMIT, SNAPSHOT_LIMIT} \subseteq Nat \ {0}
  /\ MaxChanges \in Nat
  /\ NoOwner \notin PageDevices
  /\ Empty \in Manual
  /\ Histories # {} /\ Slugs # {}
  /\ \A history \in Histories : history \in Seq(SnapshotRows)
  /\ Captures \subseteq SnapshotRows
  /\ \A list \in CommandLists : list \in Seq(ToSet(list))

VARIABLES
  platform,   \* the slug of each device's platform
  snapshots,  \* PyatsSnapshot rows by primary key; one that was deleted is not there
  goldenOf,   \* the device of each golden config
  catalog,    \* the commands of each OS
  changes,    \* how often they have
  shown,      \* the page on the screen
  queued      \* the request that was accepted

pageVars == <<platform, snapshots, goldenOf, catalog, changes, shown, queued>>

SupportedOs == {PlatformToPyatsOs(slug) : slug \in Slugs} \ {UNSUPPORTED_OS}

\* What may be there when the first page is opened.
Worlds ==
  [platform: [PageDevices -> Slugs], snapshots: Histories,
   goldenOf: [Goldens -> PageDevices \cup {NoOwner}],
   catalog: [SupportedOs -> {NoRow} \cup CommandLists]]

PageInitIn(world) ==
  /\ platform = world.platform
  /\ snapshots = world.snapshots
  /\ goldenOf = world.goldenOf
  /\ catalog = world.catalog
  /\ changes = 0
  /\ shown = NoPage
  /\ queued = NoRequest

PageInit == \E world \in Worlds : PageInitIn(world)
-----------------------------------------------------------------------------
(* What the pages show *)

There(pk) == pk \in DOMAIN snapshots /\ snapshots[pk].there
Kind(pk) == snapshots[pk].kind
DeviceOf(pk) == snapshots[pk].device

SnapshotsOf(d) == {pk \in DOMAIN snapshots : There(pk) /\ DeviceOf(pk) = d}

Newest(d, limit) ==
  {pk \in SnapshotsOf(d) : Cardinality({later \in SnapshotsOf(d) : later > pk}) < limit}

UngroupedSnapshots(list) == {list}

\* group_snapshots_by_kind: the groups of the picker.
GroupSnapshotsByKind(list) ==
  {{pk \in list : Kind(pk) = kind} : kind \in SnapshotKindChoices} \ {{}}

\* resolve_panel_platform_support: the map, unless the newest snapshot says no.
ResolvePanelPlatformSupport(d, list) ==
  /\ IsSupportedOs(PlatformToPyatsOs(platform[d]))
  /\ \A pk \in list : snapshots[pk].status = "unsupported" => \E later \in list : later > pk

TabSupports(d) == ResolvePanelPlatformSupport(d, Newest(d, DEVICE_PAGE_SNAPSHOT_LIMIT))
ParseSupports(d) == IsSupportedOs(PlatformToPyatsOs(platform[d]))

\* The commands that can be checked on a parse page.
CommandChoices(d) ==
  LET os == PlatformToPyatsOs(platform[d])
  IN  IF IsSupportedOs(os) /\ catalog[os] # NoRow THEN catalog[os] ELSE <<>>

CaptureOf(d, kind) == [type |-> "capture", device |-> d, kind |-> kind]
DiffOf(d, before, after) == [type |-> "diff", device |-> d, before |-> before, after |-> after]
GenieDiffOf(mode, before, after) ==
  [type |-> "genie diff", mode |-> mode, before |-> before, after |-> after]
ComplianceOf(d, golden, snapshot) ==
  [type |-> "compliance", device |-> d, golden |-> golden, snapshot |-> snapshot]
ParseOf(d, commands, manual) ==
  [type |-> "parse", device |-> d, commands |-> commands, manual |-> manual]
LearnOf(d) == [type |-> "learn", device |-> d]

\* The forms of the tab; the diff needs two snapshots on it.
TabPage(d) ==
  LET list == Newest(d, DEVICE_PAGE_SNAPSHOT_LIMIT)
      configs == {pk \in list : Kind(pk) \in {"config", "full"}}
      safe == {CaptureOf(d, kind) : kind \in CAPTURE_KIND_CHOICES}
                \cup {ComplianceOf(d, g, pk) : g \in {h \in Goldens : goldenOf[h] = d}, pk \in configs}
      diffs == IF Cardinality(list) >= 2 THEN list \X list ELSE {}
      grouped == UNION {group \X group : group \in GroupSnapshotsByKind(list)}
  IN  [supported |-> TabSupports(d),
       picks |-> safe \cup {DiffOf(d, p[1], p[2]) : p \in diffs},
       offers |-> safe \cup {DiffOf(d, p[1], p[2]) : p \in {q \in diffs \cap grouped : q[1] # q[2]}}]

\* In same mode the after device is the before device.
GenieDiffPage(mode, d, e) ==
  LET pairs == Newest(d, SNAPSHOT_LIMIT) \X Newest(IF mode = "same" THEN d ELSE e, SNAPSHOT_LIMIT)
  IN  [supported |-> TRUE,
       picks |-> {GenieDiffOf(mode, p[1], p[2]) : p \in pairs},
       offers |-> {GenieDiffOf(mode, p[1], p[2]) : p \in {q \in pairs : q[1] # q[2]}}]

\* DeviceParseView and GenieParseView: any of the commands, and one by hand.
ParsePage(d) ==
  LET choices == CommandChoices(d)
      picks == {ParseOf(d, Kept(choices, checked), manual) :
                  checked \in SUBSET ToSet(choices), manual \in Manual}
  IN  [supported |-> ParseSupports(d),
       picks |-> picks, offers |-> picks \ {ParseOf(d, <<>>, Empty)}]

LearnPage(d) ==
  [supported |-> IsSupportedOs(PlatformToPyatsOs(platform[d])),
   picks |-> {LearnOf(d)}, offers |-> {LearnOf(d)}]

\* One operator is followed, from one page to one request.
Get(page) ==
  /\ shown = NoPage
  /\ queued = NoRequest
  /\ shown' = page
  /\ UNCHANGED <<platform, snapshots, goldenOf, catalog, changes, queued>>

GetTab(d) == Get(TabPage(d))
GetGenieDiff(mode, d, e) == Get(GenieDiffPage(mode, d, e))
GetParse(d) == Get(ParsePage(d))
GetLearn(d) == Get(LearnPage(d))
-----------------------------------------------------------------------------
(* What the views make of a submission *)

\* DeviceDiffForm.clean, and the view's own look-up.
DiffAccepted(s) ==
  /\ {s.before, s.after} \subseteq SnapshotsOf(s.device)
  /\ Kind(s.before) = Kind(s.after)
  /\ s.before # s.after

GenieDiffAccepted(s) ==
  /\ There(s.before) /\ There(s.after)
  /\ s.before # s.after
  /\ s.mode = "same" => DeviceOf(s.before) = DeviceOf(s.after)

ComplianceAccepted(s) ==
  /\ goldenOf[s.golden] = s.device
  /\ s.snapshot \in SnapshotsOf(s.device)

ParseAccepted(s) ==
  /\ ToSet(s.commands) \subseteq ToSet(CommandChoices(s.device))
  /\ s.commands # <<>> \/ s.manual # Empty

Accepted(s) ==
  CASE s.type = "capture" -> s.kind \in CAPTURE_KIND_CHOICES
    [] s.type = "diff" -> DiffAccepted(s)
    [] s.type = "genie diff" -> GenieDiffAccepted(s)
    [] s.type = "compliance" -> ComplianceAccepted(s)
    [] s.type = "parse" -> ParseAccepted(s)
    [] s.type = "learn" -> TRUE

CrossDeviceNever(s) == FALSE

\* Whether a diff asks the worker to leave out the check of the devices.
CrossDevice(s) ==
  /\ s.type = "genie diff"
  /\ s.mode = "cross"
  /\ DeviceOf(s.before) # DeviceOf(s.after)

\* The commands of a parse job: each once, the manual one last.
ParseCommands(s) ==
  LET commands == Deduplicated(s.commands)
  IN  IF s.manual = Empty \/ s.manual \in ToSet(commands)
        THEN commands ELSE Append(commands, s.manual)

\* What is put on the queue; a Genie diff belongs to the before device.
Request(s) ==
  CASE s.type \in {"diff", "genie diff"} ->
         [type |-> "diff", device |-> IF s.type = "diff" THEN s.device ELSE DeviceOf(s.before),
          before |-> s.before, after |-> s.after, cross |-> CrossDevice(s)]
    [] s.type = "parse" -> [type |-> "parse", device |-> s.device, commands |-> ParseCommands(s)]
    [] OTHER -> s

\* The answer to an accepted submission, or to a refused one, is a redirect;
\* only a parse form that is refused is shown again, with today's choices.
Post(s) ==
  /\ shown # NoPage
  /\ s \in shown.picks
  /\ queued' = IF Accepted(s) THEN Request(s) ELSE queued
  /\ shown' = IF s.type = "parse" /\ ~Accepted(s) THEN ParsePage(s.device) ELSE NoPage
  /\ UNCHANGED <<platform, snapshots, goldenOf, catalog, changes>>
-----------------------------------------------------------------------------
(* What others do meanwhile *)

Change == changes < MaxChanges /\ changes' = changes + 1

\* A worker saves a snapshot.
SnapshotSaved(row) ==
  /\ Change
  /\ snapshots' = Append(snapshots, row)
  /\ UNCHANGED <<platform, goldenOf, catalog, shown, queued>>

SnapshotDeleted(pk) ==
  /\ Change
  /\ There(pk)
  /\ snapshots' = [snapshots EXCEPT ![pk].there = FALSE]
  /\ UNCHANGED <<platform, goldenOf, catalog, shown, queued>>

\* The form of a golden config, which has a field for the device, or a deletion.
GoldenChanged(g, d) ==
  /\ Change
  /\ goldenOf[g] # d
  /\ goldenOf' = [goldenOf EXCEPT ![g] = d]
  /\ UNCHANGED <<platform, snapshots, catalog, shown, queued>>

CatalogRefreshed(os, commands) ==
  /\ Change
  /\ catalog[os] # commands
  /\ catalog' = [catalog EXCEPT ![os] = commands]
  /\ UNCHANGED <<platform, snapshots, goldenOf, shown, queued>>

PlatformChanged(d, slug) ==
  /\ Change
  /\ platform[d] # slug
  /\ platform' = [platform EXCEPT ![d] = slug]
  /\ UNCHANGED <<snapshots, goldenOf, catalog, shown, queued>>

PageNext ==
  \/ \E d \in PageDevices : GetTab(d) \/ GetParse(d) \/ GetLearn(d)
  \/ \E mode \in {"same", "cross"}, d, e \in PageDevices : GetGenieDiff(mode, d, e)
  \/ shown # NoPage /\ \E s \in shown.picks : Post(s)
  \/ \E row \in Captures : SnapshotSaved(row)
  \/ \E pk \in DOMAIN snapshots : SnapshotDeleted(pk)
  \/ \E g \in Goldens, d \in PageDevices \cup {NoOwner} : GoldenChanged(g, d)
  \/ \E os \in SupportedOs, commands \in CommandLists : CatalogRefreshed(os, commands)
  \/ \E d \in PageDevices, slug \in Slugs : PlatformChanged(d, slug)
-----------------------------------------------------------------------------
(* Properties *)

\* The rows that a submission or a request names are still what they were.
Intact(s) ==
  CASE s.type \in {"diff", "genie diff"} -> There(s.before) /\ There(s.after)
    [] s.type = "compliance" -> There(s.snapshot) /\ goldenOf[s.golden] = s.device
    [] s.type = "parse" -> \A i \in DOMAIN s.commands : Contains(CommandChoices(s.device), s.commands[i])
    [] OTHER -> TRUE

Latest(d) == {pk \in SnapshotsOf(d) : \A later \in SnapshotsOf(d) : later <= pk}

\* What a page offers is accepted, however much has been captured, deleted or
\* edited since, unless a row that the submission names is gone or has moved;
\* and then it is refused.  And the tab calls a device supported where the
\* parse page does, unless the device's newest snapshot says otherwise.
PageKeepsItsWord ==
  /\ shown # NoPage => \A s \in shown.offers : Accepted(s) <=> Intact(s)
  /\ \A d \in PageDevices :
       TabSupports(d) <=>
         ParseSupports(d) /\ \A pk \in Latest(d) : snapshots[pk].status # "unsupported"

\* The worker's own checks: run_diff_job and run_compliance_job.
WorkerAccepts(r) ==
  CASE r.type = "diff" ->
         /\ There(r.before) /\ There(r.after)
         /\ r.cross \/ (DeviceOf(r.before) = r.device /\ DeviceOf(r.after) = r.device)
    [] r.type = "compliance" ->
         /\ goldenOf[r.golden] = r.device
         /\ There(r.snapshot) /\ DeviceOf(r.snapshot) = r.device
    [] OTHER -> TRUE

\* The worker does not refuse what a view has accepted, unless rows went or
\* moved in between; and a parse job has something to do, and nothing twice.
WorkerAgrees ==
  queued # NoRequest =>
    /\ queued.type \in {"diff", "compliance"} => (Intact(queued) <=> WorkerAccepts(queued))
    /\ queued.type = "parse" => queued.commands # <<>> /\ IsInjective(queued.commands)
=============================================================================
