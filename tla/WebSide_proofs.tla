----------------------------- MODULE WebSide_proofs -----------------------------
(***************************************************************************)
(* Proofs about what the web process keeps: the pages, the badge and the   *)
(* credentials, each for any number of rows, requests and steps.           *)
(***************************************************************************)
EXTENDS WebSide, Selections_proofs, FiniteSetTheorems

(***************************************************************************)
(* The pages: what a page offers, and what is on the queue, speaks of rows *)
(* whose device and kind never change, so that only their absence, a moved *)
(* golden config or a refreshed catalog can refuse it.                     *)
(***************************************************************************)
StoredSnapshots == [device: PageDevices, kind: SnapshotKindChoices,
                    status: {"success", "unsupported", "error"}, there: BOOLEAN]

PageTypeOK ==
  /\ platform \in [PageDevices -> Slugs]
  /\ snapshots \in Seq(StoredSnapshots)
  /\ goldenOf \in [Goldens -> PageDevices \cup {NoOwner}]
  /\ catalog \in [SupportedOs -> {NoRow} \cup CommandLists]

AreCommands(list) == list \in Seq(ToSet(list))

\* What a page can submit, ...
IsPick(s) ==
  \/ \E d \in PageDevices, kind \in CAPTURE_KIND_CHOICES : s = CaptureOf(d, kind)
  \/ \E d \in PageDevices, before, after \in DOMAIN snapshots :
       s = DiffOf(d, before, after) /\ DeviceOf(before) = d /\ DeviceOf(after) = d
  \/ \E mode \in {"same", "cross"}, before, after \in DOMAIN snapshots :
       /\ s = GenieDiffOf(mode, before, after)
       /\ mode = "same" => DeviceOf(before) = DeviceOf(after)
  \/ \E d \in PageDevices, g \in Goldens, pk \in DOMAIN snapshots :
       s = ComplianceOf(d, g, pk) /\ DeviceOf(pk) = d
  \/ /\ s.type = "parse" /\ AreCommands(s.commands)
     /\ \E d \in PageDevices : s = ParseOf(d, s.commands, s.manual)
  \/ \E d \in PageDevices : s = LearnOf(d)

\* ... what else holds of what it offers, ...
IsOffer(s) ==
  /\ s.type \in {"diff", "genie diff"} => s.before # s.after
  /\ s.type = "diff" => Kind(s.before) = Kind(s.after)
  /\ s.type = "parse" => s.commands # <<>> \/ s.manual # Empty

\* ... and what is put on the queue.
IsQueued(r) ==
  \/ r.type \in {"capture", "learn"}
  \/ \E d \in PageDevices, before, after \in DOMAIN snapshots, cross \in BOOLEAN :
       /\ r = [type |-> "diff", device |-> d, before |-> before, after |-> after, cross |-> cross]
       /\ cross \/ (DeviceOf(before) = d /\ DeviceOf(after) = d)
  \/ \E d \in PageDevices, g \in Goldens, pk \in DOMAIN snapshots :
       r = ComplianceOf(d, g, pk) /\ DeviceOf(pk) = d
  \/ r.type = "parse" /\ r.commands # <<>> /\ IsInjective(r.commands)

PageInv ==
  /\ PageTypeOK
  /\ shown # NoPage =>
       /\ shown.offers \subseteq shown.picks
       /\ \A s \in shown.picks : IsPick(s)
       /\ \A s \in shown.offers : IsOffer(s)
  /\ queued # NoRequest => IsQueued(queued)

\* Rows of snapshots stay where they are, with their device and kind.
RowsStay ==
  \A pk \in DOMAIN snapshots :
    /\ pk \in DOMAIN snapshots'
    /\ snapshots'[pk].device = snapshots[pk].device
    /\ snapshots'[pk].kind = snapshots[pk].kind

LEMMA SubmissionsStay ==
  ASSUME RowsStay, NEW s
  PROVE  /\ IsPick(s) => IsPick(s)'
         /\ IsPick(s) /\ IsOffer(s) => IsOffer(s)'
         /\ IsQueued(s) => IsQueued(s)'
<1>1. \A pk \in DOMAIN snapshots :
        pk \in DOMAIN snapshots' /\ DeviceOf(pk)' = DeviceOf(pk) /\ Kind(pk)' = Kind(pk)
  BY DEF RowsStay, DeviceOf, Kind
<1> HIDE DEF DeviceOf, Kind
<1>2. ASSUME IsPick(s) PROVE IsPick(s)'
  BY <1>1, <1>2 DEF IsPick
<1>3. ASSUME IsPick(s), IsOffer(s) PROVE IsOffer(s)'
  <2>1. s.type = "diff" => s.before \in DOMAIN snapshots /\ s.after \in DOMAIN snapshots
    <3> SUFFICES ASSUME s.type = "diff" PROVE s.before \in DOMAIN snapshots /\ s.after \in DOMAIN snapshots
      OBVIOUS
    <3>1. PICK d \in PageDevices, before \in DOMAIN snapshots, after \in DOMAIN snapshots :
            s = DiffOf(d, before, after)
      <4>1. /\ \A d, k : CaptureOf(d, k).type # "diff"
            /\ \A mode, p, q : GenieDiffOf(mode, p, q).type # "diff"
            /\ \A d, g, pk : ComplianceOf(d, g, pk).type # "diff"
            /\ \A d, commands, manual : ParseOf(d, commands, manual).type # "diff"
            /\ \A d : LearnOf(d).type # "diff"
        BY DEF CaptureOf, GenieDiffOf, ComplianceOf, ParseOf, LearnOf
      <4> QED
        BY <1>3, <4>1 DEF IsPick
    <3> QED
      BY <3>1 DEF DiffOf
  <2> QED
    BY <1>1, <1>3, <2>1 DEF IsOffer
<1>4. ASSUME IsQueued(s) PROVE IsQueued(s)'
  BY <1>1, <1>4 DEF IsQueued
<1> QED
  BY <1>2, <1>3, <1>4

(* What the pages make of the rows. *)

LEMMA NewestAre ==
  ASSUME NEW d, NEW limit
  PROVE  \A pk \in Newest(d, limit) : pk \in DOMAIN snapshots /\ There(pk) /\ DeviceOf(pk) = d
BY DEF Newest, SnapshotsOf

LEMMA ElementsAre ==
  ASSUME NEW T, NEW s \in Seq(T)
  PROVE  s \in Seq(ToSet(s)) /\ ToSet(s) \subseteq T
BY DEF ToSet

LEMMA ChoicesAre ==
  ASSUME PageTypeOK, NEW d \in PageDevices
  PROVE  CommandChoices(d) \in Seq(ToSet(CommandChoices(d)))
<1> DEFINE os == PlatformToPyatsOs(platform[d])
<1>1. CASE IsSupportedOs(os) /\ catalog[os] # NoRow
  <2>1. os \in SupportedOs
    BY <1>1 DEF SupportedOs, IsSupportedOs, PageTypeOK
  <2> HIDE DEF os
  <2>2. catalog[os] \in CommandLists
    BY <1>1, <2>1 DEF PageTypeOK
  <2>3. CommandChoices(d) = catalog[os]
    BY <1>1 DEF CommandChoices, os
  <2> QED
    BY <2>2, <2>3, PageAssumption
<1>2. CASE ~ (IsSupportedOs(os) /\ catalog[os] # NoRow)
  <2>1. CommandChoices(d) = <<>>
    BY <1>2 DEF CommandChoices
  <2> QED
    BY <2>1
<1> QED
  BY <1>1, <1>2

LEMMA TabPageInv ==
  ASSUME PageTypeOK, NEW d \in PageDevices
  PROVE  /\ TabPage(d).offers \subseteq TabPage(d).picks
         /\ \A s \in TabPage(d).picks : IsPick(s)
         /\ \A s \in TabPage(d).offers : IsOffer(s)
<1> DEFINE list == Newest(d, DEVICE_PAGE_SNAPSHOT_LIMIT)
           configs == {pk \in list : Kind(pk) \in {"config", "full"}}
           safe == {CaptureOf(d, kind) : kind \in CAPTURE_KIND_CHOICES}
                \cup {ComplianceOf(d, g, pk) : g \in {h \in Goldens : goldenOf[h] = d}, pk \in configs}
           diffs == IF Cardinality(list) >= 2 THEN list \X list ELSE {}
           grouped == UNION {group \X group : group \in GroupSnapshotsByKind(list)}
           offered == {q \in diffs \cap grouped : q[1] # q[2]}
<1>1. /\ TabPage(d).picks = safe \cup {DiffOf(d, p[1], p[2]) : p \in diffs}
      /\ TabPage(d).offers = safe \cup {DiffOf(d, p[1], p[2]) : p \in offered}
  BY DEF TabPage
<1>2. \A pk \in list : pk \in DOMAIN snapshots /\ DeviceOf(pk) = d
  BY NewestAre
<1>3. \A p \in diffs : p[1] \in list /\ p[2] \in list
  OBVIOUS
<1>4. offered \subseteq diffs /\ \A p \in offered : p[1] # p[2] /\ Kind(p[1]) = Kind(p[2])
  BY DEF GroupSnapshotsByKind
<1> HIDE DEF list, diffs, grouped, offered
<1>5. \A s \in safe : IsPick(s) /\ IsOffer(s)
  <2>1. ASSUME NEW kind \in CAPTURE_KIND_CHOICES
        PROVE  IsPick(CaptureOf(d, kind)) /\ IsOffer(CaptureOf(d, kind))
    BY DEF IsPick, IsOffer, CaptureOf
  <2>2. ASSUME NEW g \in Goldens, NEW pk \in list
        PROVE  IsPick(ComplianceOf(d, g, pk)) /\ IsOffer(ComplianceOf(d, g, pk))
    BY <1>2 DEF IsPick, IsOffer, ComplianceOf
  <2> QED
    BY <2>1, <2>2
<1> HIDE DEF safe
<1>6. ASSUME NEW p \in diffs PROVE IsPick(DiffOf(d, p[1], p[2]))
  BY <1>2, <1>3 DEF IsPick
<1>7. ASSUME NEW p \in offered PROVE IsOffer(DiffOf(d, p[1], p[2]))
  BY <1>4 DEF IsOffer, DiffOf
<1> QED
  BY <1>1, <1>4, <1>5, <1>6, <1>7

LEMMA GenieDiffPageInv ==
  ASSUME PageTypeOK, NEW mode \in {"same", "cross"}, NEW d \in PageDevices, NEW e \in PageDevices
  PROVE  /\ GenieDiffPage(mode, d, e).offers \subseteq GenieDiffPage(mode, d, e).picks
         /\ \A s \in GenieDiffPage(mode, d, e).picks : IsPick(s)
         /\ \A s \in GenieDiffPage(mode, d, e).offers : IsOffer(s)
<1> DEFINE after == IF mode = "same" THEN d ELSE e
           pairs == Newest(d, SNAPSHOT_LIMIT) \X Newest(after, SNAPSHOT_LIMIT)
           offered == {q \in pairs : q[1] # q[2]}
<1>1. /\ GenieDiffPage(mode, d, e).picks = {GenieDiffOf(mode, p[1], p[2]) : p \in pairs}
      /\ GenieDiffPage(mode, d, e).offers = {GenieDiffOf(mode, p[1], p[2]) : p \in offered}
  BY DEF GenieDiffPage
<1>2. \A p \in pairs : /\ p[1] \in DOMAIN snapshots /\ DeviceOf(p[1]) = d
                       /\ p[2] \in DOMAIN snapshots /\ DeviceOf(p[2]) = after
  BY NewestAre
<1>3. mode = "same" => after = d
  OBVIOUS
<1>4. offered \subseteq pairs /\ \A p \in offered : p[1] # p[2]
  OBVIOUS
<1> HIDE DEF pairs, after, offered
<1>5. ASSUME NEW p \in pairs PROVE IsPick(GenieDiffOf(mode, p[1], p[2]))
  BY <1>2, <1>3 DEF IsPick
<1>6. ASSUME NEW p \in offered PROVE IsOffer(GenieDiffOf(mode, p[1], p[2]))
  BY <1>4 DEF IsOffer, GenieDiffOf
<1> QED
  BY <1>1, <1>4, <1>5, <1>6

LEMMA ParsePageInv ==
  ASSUME PageTypeOK, NEW d \in PageDevices
  PROVE  /\ ParsePage(d).offers \subseteq ParsePage(d).picks
         /\ \A s \in ParsePage(d).picks : IsPick(s)
         /\ \A s \in ParsePage(d).offers : IsOffer(s)
<1> DEFINE choices == CommandChoices(d)
           picks == {ParseOf(d, Kept(choices, checked), manual) :
                       checked \in SUBSET ToSet(choices), manual \in Manual}
<1>1. ParsePage(d).picks = picks /\ ParsePage(d).offers = picks \ {ParseOf(d, <<>>, Empty)}
  BY DEF ParsePage
<1>2. choices \in Seq(ToSet(choices))
  BY ChoicesAre
<1> HIDE DEF choices
<1>3. ASSUME NEW checked, NEW manual
      PROVE  /\ IsPick(ParseOf(d, Kept(choices, checked), manual))
             /\ ParseOf(d, Kept(choices, checked), manual) # ParseOf(d, <<>>, Empty) =>
                  IsOffer(ParseOf(d, Kept(choices, checked), manual))
  <2> DEFINE kept == Kept(choices, checked)
  <2>0. kept \in Seq(ToSet(choices))
    BY <1>2, KeptElements
  <2> HIDE DEF kept
  <2>1. AreCommands(kept)
    BY <2>0, ElementsAre DEF AreCommands
  <2>2. IsPick(ParseOf(d, kept, manual))
    BY <2>1 DEF IsPick, ParseOf
  <2>3. ParseOf(d, kept, manual) # ParseOf(d, <<>>, Empty) => IsOffer(ParseOf(d, kept, manual))
    BY DEF IsOffer, ParseOf
  <2> QED
    BY <2>2, <2>3 DEF kept
<1> QED
  BY <1>1, <1>3

LEMMA LearnPageInv ==
  ASSUME NEW d \in PageDevices
  PROVE  /\ LearnPage(d).offers \subseteq LearnPage(d).picks
         /\ \A s \in LearnPage(d).picks : IsPick(s)
         /\ \A s \in LearnPage(d).offers : IsOffer(s)
<1>1. LearnPage(d).picks = {LearnOf(d)} /\ LearnPage(d).offers = {LearnOf(d)}
  BY DEF LearnPage
<1>2. IsPick(LearnOf(d))
  BY DEF IsPick
<1>3. IsOffer(LearnOf(d))
  BY DEF IsOffer, LearnOf
<1> QED
  BY <1>1, <1>2, <1>3

\* What a view accepts can be queued: the devices of a diff agree with what
\* the worker is told of them, and a parse job has each command once.
LEMMA ParseRequestInv ==
  ASSUME NEW s, AreCommands(s.commands), s.commands # <<>> \/ s.manual # Empty
  PROVE  ParseCommands(s) # <<>> /\ IsInjective(ParseCommands(s))
<1> DEFINE T == ToSet(s.commands) \cup {s.manual}
           commands == Deduplicated(s.commands)
<1>1. s.commands \in Seq(T)
  BY DEF AreCommands
<1>2. commands \in Seq(T) /\ HasEach(commands, s.commands, Len(s.commands))
  <2> HIDE DEF T
  <2> QED
    BY <1>1, DeduplicatedElements
<1>3. s.manual \in T
  OBVIOUS
<1>4. ParseCommands(s) = IF s.manual = Empty \/ s.manual \in ToSet(commands)
                           THEN commands ELSE Append(commands, s.manual)
  BY DEF ParseCommands
<1> HIDE DEF commands, T
<1>5. s.commands # <<>> => 1 \in 1..Len(s.commands)
  BY <1>1
<1>6. DOMAIN commands = 1..Len(commands) /\ Len(commands) \in Nat
  BY <1>2
<1>7. IsInjective(commands)
  BY <1>2, <1>6 DEF HasEach, IsInjective
<1>8. s.commands # <<>> => commands # <<>>
  <2> SUFFICES ASSUME s.commands # <<>> PROVE commands # <<>>
    OBVIOUS
  <2>1. \E i \in 1..Len(commands) : commands[i] = s.commands[1]
    BY <1>2, <1>5 DEF HasEach
  <2>2. Len(<<>>) = 0 /\ 1..0 = {}
    OBVIOUS
  <2> QED
    BY <2>1, <2>2
<1>9. CASE s.manual = Empty \/ s.manual \in ToSet(commands)
  <2>1. ParseCommands(s) = commands
    BY <1>4, <1>9
  <2>2. s.manual \in ToSet(commands) => commands # <<>>
    BY DEF ToSet
  <2> QED
    BY <1>7, <1>8, <1>9, <2>1, <2>2
<1>10. CASE s.manual # Empty /\ s.manual \notin ToSet(commands)
  <2>1. PICK u : u = Append(commands, s.manual)
    OBVIOUS
  <2>2. ParseCommands(s) = u
    BY <1>4, <1>10, <2>1
  <2>3. /\ u \in Seq(T) /\ Len(u) = Len(commands) + 1 /\ u # <<>>
        /\ u[Len(commands) + 1] = s.manual
        /\ \A i \in 1..Len(commands) : u[i] = commands[i]
    BY <1>2, <1>3, <2>1, AppendIs
  <2>4. DOMAIN u = 1..(Len(commands) + 1)
    BY <2>3
  <2>5. \A i \in 1..Len(commands) : commands[i] # s.manual
    BY <1>6, <1>10 DEF ToSet
  <2>6. \A i, j \in 1..Len(commands) : commands[i] = commands[j] => i = j
    BY <1>2 DEF HasEach
  <2>7. \A i \in 1..(Len(commands) + 1) : i \in 1..Len(commands) \/ i = Len(commands) + 1
    BY <1>6
  <2>8. \A i, j \in DOMAIN u : u[i] = u[j] => i = j
    BY <2>3, <2>4, <2>5, <2>6, <2>7
  <2> QED
    BY <2>2, <2>3, <2>8 DEF IsInjective
<1> QED
  BY <1>9, <1>10

LEMMA RequestInv ==
  ASSUME PageTypeOK, NEW s, IsPick(s), Accepted(s)
  PROVE  IsQueued(Request(s))
<1>1. ASSUME NEW d \in PageDevices, NEW kind, s = CaptureOf(d, kind) PROVE IsQueued(Request(s))
  <2>1. s.type = "capture"
    BY <1>1 DEF CaptureOf
  <2>2. Request(s) = s
    BY <2>1 DEF Request
  <2> QED
    BY <2>1, <2>2 DEF IsQueued
<1>2. ASSUME NEW d \in PageDevices, NEW before \in DOMAIN snapshots, NEW after \in DOMAIN snapshots,
             s = DiffOf(d, before, after), DeviceOf(before) = d, DeviceOf(after) = d
      PROVE  IsQueued(Request(s))
  <2>1. s.type = "diff" /\ s.device = d /\ s.before = before /\ s.after = after
    BY <1>2 DEF DiffOf
  <2>2. CrossDevice(s) = FALSE
    BY <2>1 DEF CrossDevice
  <2>3. Request(s) =
          [type |-> "diff", device |-> d, before |-> before, after |-> after, cross |-> FALSE]
    BY <2>1, <2>2 DEF Request
  <2> QED
    BY <1>2, <2>3 DEF IsQueued
<1>3. ASSUME NEW mode \in {"same", "cross"}, NEW before \in DOMAIN snapshots,
             NEW after \in DOMAIN snapshots, s = GenieDiffOf(mode, before, after),
             mode = "same" => DeviceOf(before) = DeviceOf(after)
      PROVE  IsQueued(Request(s))
  <2>1. s.type = "genie diff" /\ s.mode = mode /\ s.before = before /\ s.after = after
    BY <1>3 DEF GenieDiffOf
  <2>2. DeviceOf(before) \in PageDevices
    <3>1. snapshots[before] \in StoredSnapshots
      BY DEF PageTypeOK
    <3> QED
      BY <3>1 DEF DeviceOf, StoredSnapshots
  <2>3. PICK cross \in BOOLEAN : cross = CrossDevice(s)
    BY DEF CrossDevice
  <2>4. cross \/ DeviceOf(after) = DeviceOf(before)
    BY <1>3, <2>1, <2>3 DEF CrossDevice
  <2>5. Request(s) = [type |-> "diff", device |-> DeviceOf(before),
                      before |-> before, after |-> after, cross |-> cross]
    BY <2>1, <2>3 DEF Request
  <2> QED
    BY <2>2, <2>4, <2>5 DEF IsQueued
<1>4. ASSUME NEW d \in PageDevices, NEW g \in Goldens, NEW pk \in DOMAIN snapshots,
             s = ComplianceOf(d, g, pk), DeviceOf(pk) = d
      PROVE  IsQueued(Request(s))
  <2>1. s.type = "compliance"
    BY <1>4 DEF ComplianceOf
  <2>2. Request(s) = s
    BY <2>1 DEF Request
  <2> QED
    BY <1>4, <2>2 DEF IsQueued
<1>5. ASSUME s.type = "parse", AreCommands(s.commands) PROVE IsQueued(Request(s))
  <2>1. s.commands # <<>> \/ s.manual # Empty
    BY <1>5 DEF Accepted, ParseAccepted
  <2>2. Request(s) = [type |-> "parse", device |-> s.device, commands |-> ParseCommands(s)]
    BY <1>5 DEF Request
  <2>3. Request(s).type = "parse" /\ Request(s).commands = ParseCommands(s)
    BY <2>2
  <2> QED
    BY <1>5, <2>1, <2>3, ParseRequestInv DEF IsQueued
<1>6. ASSUME NEW d \in PageDevices, s = LearnOf(d) PROVE IsQueued(Request(s))
  <2>1. s.type = "learn"
    BY <1>6 DEF LearnOf
  <2>2. Request(s) = s
    BY <2>1 DEF Request
  <2> QED
    BY <2>1, <2>2 DEF IsQueued
<1> QED
  BY <1>1, <1>2, <1>3, <1>4, <1>5, <1>6 DEF IsPick

LEMMA WorldsInhabited == Worlds # {}
<1>1. PICK history \in Histories, slug \in Slugs : TRUE
  BY PageAssumption
<1> DEFINE world == [platform |-> [d \in PageDevices |-> slug], snapshots |-> history,
                     goldenOf |-> [g \in Goldens |-> NoOwner],
                     catalog |-> [os \in SupportedOs |-> NoRow]]
<1>2. world \in Worlds
  BY DEF Worlds
<1> QED
  BY <1>2

LEMMA PageInvInit ==
  ASSUME NEW world \in Worlds, PageInitIn(world)
  PROVE  PageInv
<1>1. snapshots \in Seq(StoredSnapshots)
  <2>1. snapshots \in Seq(SnapshotRows)
    BY PageAssumption DEF Worlds, PageInitIn
  <2>2. SnapshotRows \subseteq StoredSnapshots
    BY DEF SnapshotRows, StoredSnapshots
  <2> QED
    BY <2>1, <2>2
<1>2. PageTypeOK
  BY <1>1 DEF PageTypeOK, Worlds, PageInitIn
<1> QED
  BY <1>2 DEF PageInv, PageInitIn

\* What is shown and queued keeps its form while rows stay.
LEMMA ShownStays ==
  ASSUME PageInv, RowsStay, PageTypeOK', UNCHANGED <<shown, queued>>
  PROVE  PageInv'
<1>1. shown # NoPage =>
        /\ shown.offers \subseteq shown.picks
        /\ \A s \in shown.picks : IsPick(s) /\ IsPick(s)'
        /\ \A s \in shown.offers : IsOffer(s)'
  BY SubmissionsStay DEF PageInv
<1>2. queued' # NoRequest => IsQueued(queued)'
  <2>1. PICK r : r = queued
    OBVIOUS
  <2>2. r # NoRequest => IsQueued(r)'
    BY <2>1, SubmissionsStay DEF PageInv
  <2> QED
    BY <2>1, <2>2
<1> QED
  BY <1>1, <1>2 DEF PageInv

LEMMA RowsOfSame == ASSUME UNCHANGED snapshots PROVE RowsStay
BY DEF RowsStay

\* A page that is opened, or shown again, is one of these.
IsPage(page) ==
  /\ page.offers \subseteq page.picks
  /\ \A s \in page.picks : IsPick(s)
  /\ \A s \in page.offers : IsOffer(s)

LEMMA GetInv ==
  ASSUME PageInv, NEW page, IsPage(page), Get(page)
  PROVE  PageInv'
<1>1. PageTypeOK'
  BY DEF PageInv, PageTypeOK, Get
<1>2. RowsStay
  BY RowsOfSame DEF Get
<1>3. /\ page.offers \subseteq page.picks
      /\ \A s \in page.picks : IsPick(s) /\ IsPick(s)'
      /\ \A s \in page.offers : IsOffer(s)'
  BY <1>2, SubmissionsStay DEF IsPage
<1>4. shown' = page /\ queued' = queued /\ queued = NoRequest
  BY DEF Get
<1> QED
  BY <1>1, <1>3, <1>4 DEF PageInv

LEMMA PostInv ==
  ASSUME PageInv, NEW s, Post(s)
  PROVE  PageInv'
<1>1. PageTypeOK /\ PageTypeOK' /\ RowsStay
  BY RowsOfSame DEF PageInv, PageTypeOK, Post
<1>2. IsPick(s)
  BY DEF PageInv, Post
<1>3. queued' # NoRequest => IsQueued(queued)'
  <2>1. CASE Accepted(s)
    <3>1. IsQueued(Request(s))
      BY <1>1, <1>2, <2>1, RequestInv
    <3>2. PICK r : r = Request(s)
      OBVIOUS
    <3>3. IsQueued(r)'
      BY <1>1, <3>1, <3>2, SubmissionsStay
    <3>4. queued' = r
      BY <2>1, <3>2 DEF Post
    <3> QED
      BY <3>3, <3>4
  <2>2. CASE ~Accepted(s)
    <3>1. queued' = queued
      BY <2>2 DEF Post
    <3>2. PICK r : r = queued
      OBVIOUS
    <3>3. r # NoRequest => IsQueued(r)'
      BY <1>1, <3>2, SubmissionsStay DEF PageInv
    <3> QED
      BY <3>1, <3>2, <3>3
  <2> QED
    BY <2>1, <2>2
<1>4. shown' # NoPage =>
        /\ shown'.offers \subseteq shown'.picks
        /\ \A q \in shown'.picks : IsPick(q)'
        /\ \A q \in shown'.offers : IsOffer(q)'
  <2> SUFFICES ASSUME shown' # NoPage
               PROVE  /\ shown'.offers \subseteq shown'.picks
                      /\ \A q \in shown'.picks : IsPick(q)'
                      /\ \A q \in shown'.offers : IsOffer(q)'
    OBVIOUS
  <2>1. s.type = "parse" /\ shown' = ParsePage(s.device)
    BY DEF Post
  <2>2. s.device \in PageDevices
    <3>1. /\ \A d, k : CaptureOf(d, k).type # "parse"
          /\ \A d, p, q : DiffOf(d, p, q).type # "parse"
          /\ \A mode, p, q : GenieDiffOf(mode, p, q).type # "parse"
          /\ \A d, g, pk : ComplianceOf(d, g, pk).type # "parse"
          /\ \A d, commands, manual : ParseOf(d, commands, manual).device = d
          /\ \A d : LearnOf(d).type # "parse"
      BY DEF CaptureOf, DiffOf, GenieDiffOf, ComplianceOf, ParseOf, LearnOf
    <3> QED
      BY <1>2, <2>1, <3>1 DEF IsPick
  <2>3. PICK page : page = ParsePage(s.device)
    OBVIOUS
  <2>4. /\ page.offers \subseteq page.picks
        /\ \A q \in page.picks : IsPick(q)
        /\ \A q \in page.offers : IsOffer(q)
    BY <1>1, <2>2, <2>3, ParsePageInv
  <2>5. \A q \in page.picks : IsPick(q) /\ IsPick(q)'
    BY <1>1, <2>4, SubmissionsStay
  <2>6. \A q \in page.offers : IsOffer(q)'
    BY <1>1, <2>4, <2>5, SubmissionsStay
  <2> QED
    BY <2>1, <2>3, <2>4, <2>5, <2>6
<1> QED
  BY <1>1, <1>3, <1>4 DEF PageInv

LEMMA PageInvStep == PageInv /\ [PageNext]_pageVars => PageInv'
<1> SUFFICES ASSUME PageInv, [PageNext]_pageVars PROVE PageInv'
  OBVIOUS
<1>0. PageTypeOK
  BY DEF PageInv
<1>1. ASSUME NEW d \in PageDevices, GetTab(d) \/ GetParse(d) \/ GetLearn(d) PROVE PageInv'
  <2>1. IsPage(TabPage(d)) /\ IsPage(ParsePage(d)) /\ IsPage(LearnPage(d))
    BY <1>0, TabPageInv, ParsePageInv, LearnPageInv DEF IsPage
  <2> QED
    BY <1>1, <2>1, GetInv DEF GetTab, GetParse, GetLearn
<1>2. ASSUME NEW mode \in {"same", "cross"}, NEW d \in PageDevices, NEW e \in PageDevices,
             GetGenieDiff(mode, d, e)
      PROVE  PageInv'
  <2>1. IsPage(GenieDiffPage(mode, d, e))
    BY <1>0, GenieDiffPageInv DEF IsPage
  <2> QED
    BY <1>2, <2>1, GetInv DEF GetGenieDiff
<1>3. ASSUME NEW s, Post(s) PROVE PageInv'
  BY <1>3, PostInv
<1>4. ASSUME NEW row \in Captures, SnapshotSaved(row) PROVE PageInv'
  <2>1. row \in StoredSnapshots
    BY PageAssumption DEF SnapshotRows, StoredSnapshots
  <2>2. snapshots \in Seq(StoredSnapshots) /\ snapshots' = Append(snapshots, row)
    BY <1>0, <1>4 DEF PageTypeOK, SnapshotSaved
  <2>3. /\ snapshots' \in Seq(StoredSnapshots)
        /\ \A pk \in DOMAIN snapshots : pk \in DOMAIN snapshots' /\ snapshots'[pk] = snapshots[pk]
    BY <2>1, <2>2
  <2>4. PageTypeOK'
    BY <1>0, <1>4, <2>3 DEF PageTypeOK, SnapshotSaved
  <2>5. RowsStay
    BY <2>3 DEF RowsStay
  <2> QED
    BY <1>4, <2>4, <2>5, ShownStays DEF SnapshotSaved
<1>5. ASSUME NEW pk \in DOMAIN snapshots, SnapshotDeleted(pk) PROVE PageInv'
  <2>1. snapshots \in Seq(StoredSnapshots) /\ snapshots' = [snapshots EXCEPT ![pk].there = FALSE]
    BY <1>0, <1>5 DEF PageTypeOK, SnapshotDeleted
  <2>2. snapshots[pk] \in StoredSnapshots
    BY <2>1
  <2>3. [snapshots[pk] EXCEPT !.there = FALSE] \in StoredSnapshots
    BY <2>2 DEF StoredSnapshots
  <2>4. /\ DOMAIN snapshots' = DOMAIN snapshots
        /\ \A q \in DOMAIN snapshots : snapshots'[q] =
             IF q = pk THEN [snapshots[pk] EXCEPT !.there = FALSE] ELSE snapshots[q]
    BY <2>1
  <2>5. snapshots' \in Seq(StoredSnapshots)
    BY <2>1, <2>3
  <2>6. PageTypeOK'
    BY <1>0, <1>5, <2>5 DEF PageTypeOK, SnapshotDeleted
  <2>7. RowsStay
    BY <2>2, <2>4 DEF RowsStay, StoredSnapshots
  <2> QED
    BY <1>5, <2>6, <2>7, ShownStays DEF SnapshotDeleted
<1>6. ASSUME NEW g \in Goldens, NEW d \in PageDevices \cup {NoOwner}, GoldenChanged(g, d)
      PROVE  PageInv'
  <2>1. PageTypeOK'
    BY <1>0, <1>6 DEF PageTypeOK, GoldenChanged
  <2> QED
    BY <1>6, <2>1, RowsOfSame, ShownStays DEF GoldenChanged
<1>7. ASSUME NEW os \in SupportedOs, NEW commands \in CommandLists, CatalogRefreshed(os, commands)
      PROVE  PageInv'
  <2>1. PageTypeOK'
    BY <1>0, <1>7 DEF PageTypeOK, CatalogRefreshed
  <2> QED
    BY <1>7, <2>1, RowsOfSame, ShownStays DEF CatalogRefreshed
<1>8. ASSUME NEW d \in PageDevices, NEW slug \in Slugs, PlatformChanged(d, slug) PROVE PageInv'
  <2>1. PageTypeOK'
    BY <1>0, <1>8 DEF PageTypeOK, PlatformChanged
  <2> QED
    BY <1>8, <2>1, RowsOfSame, ShownStays DEF PlatformChanged
<1>9. CASE UNCHANGED pageVars
  <2>1. PageTypeOK'
    BY <1>0, <1>9 DEF PageTypeOK, pageVars
  <2> QED
    BY <1>9, <2>1, RowsOfSame, ShownStays DEF pageVars
<1> QED
  BY <1>1, <1>2, <1>3, <1>4, <1>5, <1>6, <1>7, <1>8, <1>9 DEF PageNext

(* What the invariant says of the two properties. *)

LEMMA OffersAccepted ==
  ASSUME PageTypeOK, NEW s, IsPick(s), IsOffer(s)
  PROVE  Accepted(s) <=> Intact(s)
<1>1. ASSUME NEW d \in PageDevices, NEW kind \in CAPTURE_KIND_CHOICES, s = CaptureOf(d, kind)
      PROVE  Accepted(s) <=> Intact(s)
  <2>1. s.type = "capture" /\ s.kind = kind
    BY <1>1 DEF CaptureOf
  <2> QED
    BY <2>1 DEF Accepted, Intact
<1>2. ASSUME NEW d \in PageDevices, NEW before \in DOMAIN snapshots, NEW after \in DOMAIN snapshots,
             s = DiffOf(d, before, after), DeviceOf(before) = d, DeviceOf(after) = d
      PROVE  Accepted(s) <=> Intact(s)
  <2>1. s.type = "diff" /\ s.device = d /\ s.before = before /\ s.after = after
    BY <1>2 DEF DiffOf
  <2>2. before # after /\ Kind(before) = Kind(after)
    BY <2>1 DEF IsOffer
  <2>3. Accepted(s) <=> {before, after} \subseteq SnapshotsOf(d)
    BY <2>1, <2>2 DEF Accepted, DiffAccepted
  <2>4. Intact(s) <=> There(before) /\ There(after)
    BY <2>1 DEF Intact
  <2> QED
    BY <1>2, <2>3, <2>4 DEF SnapshotsOf
<1>3. ASSUME NEW mode \in {"same", "cross"}, NEW before \in DOMAIN snapshots,
             NEW after \in DOMAIN snapshots, s = GenieDiffOf(mode, before, after),
             mode = "same" => DeviceOf(before) = DeviceOf(after)
      PROVE  Accepted(s) <=> Intact(s)
  <2>1. s.type = "genie diff" /\ s.mode = mode /\ s.before = before /\ s.after = after
    BY <1>3 DEF GenieDiffOf
  <2>2. before # after
    BY <2>1 DEF IsOffer
  <2>3. Accepted(s) <=> There(before) /\ There(after)
    BY <1>3, <2>1, <2>2 DEF Accepted, GenieDiffAccepted
  <2>4. Intact(s) <=> There(before) /\ There(after)
    BY <2>1 DEF Intact
  <2> QED
    BY <2>3, <2>4
<1>4. ASSUME NEW d \in PageDevices, NEW g \in Goldens, NEW pk \in DOMAIN snapshots,
             s = ComplianceOf(d, g, pk), DeviceOf(pk) = d
      PROVE  Accepted(s) <=> Intact(s)
  <2>1. s.type = "compliance" /\ s.device = d /\ s.golden = g /\ s.snapshot = pk
    BY <1>4 DEF ComplianceOf
  <2>2. Accepted(s) <=> goldenOf[g] = d /\ pk \in SnapshotsOf(d)
    BY <2>1 DEF Accepted, ComplianceAccepted
  <2>3. Intact(s) <=> There(pk) /\ goldenOf[g] = d
    BY <2>1 DEF Intact
  <2> QED
    BY <1>4, <2>2, <2>3 DEF SnapshotsOf
<1>5. ASSUME s.type = "parse", AreCommands(s.commands), NEW d \in PageDevices,
             s = ParseOf(d, s.commands, s.manual)
      PROVE  Accepted(s) <=> Intact(s)
  <2>1. s.device = d
    BY <1>5 DEF ParseOf
  <2>2. Accepted(s) <=> ToSet(s.commands) \subseteq ToSet(CommandChoices(d))
    BY <1>5, <2>1 DEF Accepted, ParseAccepted, IsOffer
  <2>3. Intact(s) <=> \A i \in DOMAIN s.commands : Contains(CommandChoices(d), s.commands[i])
    BY <1>5, <2>1 DEF Intact
  <2>4. CommandChoices(d) \in Seq(ToSet(CommandChoices(d)))
    BY ChoicesAre
  <2>5. DOMAIN CommandChoices(d) = 1..Len(CommandChoices(d))
    BY <2>4
  <2> QED
    BY <2>2, <2>3, <2>5 DEF Contains, ToSet
<1>6. ASSUME NEW d \in PageDevices, s = LearnOf(d) PROVE Accepted(s) <=> Intact(s)
  <2>1. s.type = "learn"
    BY <1>6 DEF LearnOf
  <2> QED
    BY <2>1 DEF Accepted, Intact
<1> QED
  BY <1>1, <1>2, <1>3, <1>4, <1>5, <1>6 DEF IsPick

\* The newest snapshot of a device is among those its tab shows.
LEMMA LatestIsShown ==
  ASSUME PageTypeOK, NEW d
  PROVE  TabSupports(d) <=>
           ParseSupports(d) /\ \A pk \in Latest(d) : snapshots[pk].status # "unsupported"
<1> DEFINE list == Newest(d, DEVICE_PAGE_SNAPSHOT_LIMIT)
           S == SnapshotsOf(d)
<1>1. Len(snapshots) \in Nat /\ S \in SUBSET (0..Len(snapshots)) /\ list \subseteq S
  BY DEF PageTypeOK, SnapshotsOf, Newest
<1>2. \A pk \in S : pk \in Nat
  BY <1>1
<1>3. TabSupports(d) <=>
        ParseSupports(d) /\ \A pk \in list : snapshots[pk].status = "unsupported" =>
                                               \E later \in list : later > pk
  BY DEF TabSupports, ResolvePanelPlatformSupport, ParseSupports
<1>4. Latest(d) \subseteq list
  <2> SUFFICES ASSUME NEW pk \in Latest(d) PROVE pk \in list
    OBVIOUS
  <2>1. pk \in S /\ \A later \in S : later <= pk
    BY DEF Latest
  <2>2. {later \in S : later > pk} = {}
    BY <1>2, <2>1
  <2>3. Cardinality({later \in S : later > pk}) < DEVICE_PAGE_SNAPSHOT_LIMIT
    <3>1. DEVICE_PAGE_SNAPSHOT_LIMIT \in Nat \ {0}
      BY PageAssumption
    <3>2. Cardinality({}) = 0
      BY FS_EmptySet
    <3> QED
      BY <2>2, <3>1, <3>2
  <2> QED
    BY <2>1, <2>3 DEF Newest
<1>5. \A pk \in list : \E x \in Latest(d) : pk <= x
  <2> SUFFICES ASSUME NEW pk \in list PROVE \E x \in Latest(d) : pk <= x
    OBVIOUS
  <2>1. pk \in S
    BY <1>1
  <2> HIDE DEF S
  <2>2. PICK x \in S : \A y \in S : y <= x
    BY <1>1, <2>1, Greatest
  <2>3. x \in Latest(d)
    BY <2>2 DEF Latest, S
  <2> QED
    BY <2>1, <2>2, <2>3
<1>6. \A x \in Latest(d) : \A pk \in S : pk <= x
  BY DEF Latest
<1>7. (\A pk \in list : snapshots[pk].status = "unsupported" => \E later \in list : later > pk)
        <=> \A pk \in Latest(d) : snapshots[pk].status # "unsupported"
  <2>1. ASSUME \A pk \in list : snapshots[pk].status = "unsupported" => \E later \in list : later > pk,
               NEW x \in Latest(d), snapshots[x].status = "unsupported"
        PROVE  FALSE
    <3>1. PICK later \in list : later > x
      BY <1>4, <2>1
    <3>2. later <= x /\ later \in Nat /\ x \in Nat
      BY <1>1, <1>2, <1>4, <1>6
    <3> QED
      BY <3>1, <3>2
  <2>2. ASSUME \A x \in Latest(d) : snapshots[x].status # "unsupported",
               NEW pk \in list, snapshots[pk].status = "unsupported"
        PROVE  \E later \in list : later > pk
    <3>1. PICK x \in Latest(d) : pk <= x
      BY <1>5
    <3>2. x # pk /\ x \in list /\ x \in Nat /\ pk \in Nat
      BY <1>1, <1>2, <1>4, <2>2, <3>1
    <3> QED
      BY <3>1, <3>2
  <2> QED
    BY <2>1, <2>2
<1> QED
  BY <1>3, <1>7

LEMMA PageInvKeepsWord == PageInv => PageKeepsItsWord
BY OffersAccepted, LatestIsShown DEF PageInv, PageKeepsItsWord

LEMMA PageInvAgrees == PageInv => WorkerAgrees
<1> SUFFICES ASSUME PageInv, NEW r, r = queued, r # NoRequest
             PROVE  /\ r.type \in {"diff", "compliance"} => (Intact(r) <=> WorkerAccepts(r))
                    /\ r.type = "parse" => r.commands # <<>> /\ IsInjective(r.commands)
  BY DEF WorkerAgrees
<1>0. IsQueued(r)
  BY DEF PageInv
<1>1. CASE r.type \in {"capture", "learn"}
  BY <1>1
<1>2. ASSUME NEW d \in PageDevices, NEW before \in DOMAIN snapshots, NEW after \in DOMAIN snapshots,
             NEW cross \in BOOLEAN,
             r = [type |-> "diff", device |-> d, before |-> before, after |-> after, cross |-> cross],
             cross \/ (DeviceOf(before) = d /\ DeviceOf(after) = d)
      PROVE  r.type = "diff" /\ (Intact(r) <=> WorkerAccepts(r))
  <2>1. /\ r.type = "diff" /\ r.device = d /\ r.before = before /\ r.after = after
        /\ r.cross = cross
    BY <1>2
  <2>2. Intact(r) <=> There(before) /\ There(after)
    BY <2>1 DEF Intact
  <2>3. WorkerAccepts(r) <=> There(before) /\ There(after)
    BY <1>2, <2>1 DEF WorkerAccepts
  <2> QED
    BY <2>1, <2>2, <2>3
<1>3. ASSUME NEW d \in PageDevices, NEW g \in Goldens, NEW pk \in DOMAIN snapshots,
             r = ComplianceOf(d, g, pk), DeviceOf(pk) = d
      PROVE  r.type = "compliance" /\ (Intact(r) <=> WorkerAccepts(r))
  <2>1. r.type = "compliance" /\ r.device = d /\ r.golden = g /\ r.snapshot = pk
    BY <1>3 DEF ComplianceOf
  <2> QED
    BY <1>3, <2>1 DEF Intact, WorkerAccepts
<1> QED
  BY <1>0, <1>1, <1>2, <1>3 DEF IsQueued

LEMMA WebPageInv == Spec => []PageInv
<1>1. Init => PageInv
  <2> SUFFICES ASSUME Init PROVE PageInv
    OBVIOUS
  <2>1. (CHOOSE world \in Worlds : TRUE) \in Worlds
    BY WorldsInhabited
  <2>2. PICK world \in Worlds : PageInitIn(world)
    BY <2>1 DEF Init
  <2> QED
    BY <2>2, PageInvInit
<1>2. PageInv /\ [Next]_webVars => PageInv'
  <2> SUFFICES ASSUME PageInv, [Next]_webVars PROVE PageInv'
    OBVIOUS
  <2>1. [PageNext]_pageVars
    BY DEF Next, webVars
  <2> QED
    BY <2>1, PageInvStep
<1> QED
  BY <1>1, <1>2, PTL DEF Spec

\* What a page of views.py offers is accepted until a row it names goes or
\* moves, whatever the histories, limits and changes; and the tab calls a device
\* supported as the parse page does but for its newest snapshot.
THEOREM PagesKeepTheirWord == Spec => []PageKeepsItsWord
BY WebPageInv, PageInvKeepsWord, PTL

\* The checks of run_diff_job and run_compliance_job never refuse what a view
\* accepted while its rows are there, and no parse job is empty or repeats a
\* command.
THEOREM WorkersAgree == Spec => []WorkerAgrees
BY WebPageInv, PageInvAgrees, PTL

(***************************************************************************)
(* The badge: for any number of requests, any lifetime of the cached       *)
(* status and any delay of a request.                                      *)
(***************************************************************************)
StatusTypeOK ==
  /\ time \in Nat
  /\ workers \in Nat
  /\ entry \in Entries \cup {NoEntry}
  /\ request \in [Pages -> [pc: {"idle", "checked"}, online: BOOLEAN, at: Nat]]
  /\ seen \in [BOOLEAN -> Nat]

\* A status was true when it was asked for, and one that is cached was asked for
\* at most MaxDelay before.
SeenInv ==
  /\ seen[CheckWorkerStatus(redis, workers)] = time
  /\ seen[TRUE] <= time /\ seen[FALSE] <= time
  /\ \A p \in Pages : request[p].pc = "checked" =>
       /\ request[p].at <= seen[request[p].online]
       /\ time <= request[p].at + MaxDelay
  /\ entry # NoEntry => entry.at <= seen[entry.online] + MaxDelay

StatusInv == StatusTypeOK /\ SeenInv /\ BadgeIsRecent

LEMMA StatusInvInit == StatusInit => StatusInv
<1> SUFFICES ASSUME StatusInit PROVE StatusInv
  OBVIOUS
<1> USE StatusAssumption DEF StatusInit, Idle
<1>1. StatusTypeOK
  BY DEF StatusTypeOK, Entries
<1>2. CheckWorkerStatus(redis, workers) = FALSE
  BY DEF CheckWorkerStatus
<1>3. SeenInv
  <2>1. seen[TRUE] = 0 /\ seen[FALSE] = time
    OBVIOUS
  <2>2. seen[CheckWorkerStatus(redis, workers)] = time
    BY <1>2, <2>1
  <2>3. 0 <= time /\ time <= time
    OBVIOUS
  <2>4. \A p \in Pages : request[p].pc # "checked"
    OBVIOUS
  <2>5. entry = NoEntry
    OBVIOUS
  <2> QED
    BY <2>1, <2>2, <2>3, <2>4, <2>5 DEF SeenInv
<1> QED
  BY <1>1, <1>3 DEF StatusInv, BadgeIsRecent

\* A change of the world, or of the time, is observed.
LEMMA Observed ==
  ASSUME StatusTypeOK, SeenInv, time' \in Nat, time <= time', Observe,
         UNCHANGED <<entry, request>>,
         \A p \in Pages : request[p].pc = "checked" => time' <= request[p].at + MaxDelay
  PROVE  seen' \in [BOOLEAN -> Nat] /\ SeenInv'
<1>1. CheckWorkerStatus(redis', workers') \in BOOLEAN
  BY DEF CheckWorkerStatus
<1>2. /\ seen' \in [BOOLEAN -> Nat]
      /\ seen'[CheckWorkerStatus(redis', workers')] = time'
      /\ \A online \in BOOLEAN : seen[online] <= seen'[online] /\ seen'[online] <= time'
  <2> DEFINE now == CheckWorkerStatus(redis', workers')
  <2>1. seen' = [seen EXCEPT ![now] = time'] /\ now \in BOOLEAN
    BY <1>1 DEF Observe
  <2> HIDE DEF now
  <2>2. seen \in [BOOLEAN -> Nat]
    BY DEF StatusTypeOK
  <2>3. seen' \in [BOOLEAN -> Nat]
    BY <2>1, <2>2
  <2>4. seen'[now] = time'
    BY <2>1, <2>2
  <2>5. ASSUME NEW online \in BOOLEAN
        PROVE  seen[online] <= seen'[online] /\ seen'[online] <= time'
    <3>1. seen[online] \in Nat /\ time \in Nat
      BY <2>2 DEF StatusTypeOK
    <3>2. seen[online] <= time
      BY DEF SeenInv
    <3>3. seen'[online] = time' \/ seen'[online] = seen[online]
      BY <2>1, <2>2
    <3> QED
      BY <3>1, <3>2, <3>3
  <2> QED
    BY <2>3, <2>4, <2>5 DEF now
<1>3. ASSUME NEW p \in Pages, request'[p].pc = "checked"
      PROVE  request'[p].at <= seen'[request'[p].online] /\ time' <= request'[p].at + MaxDelay
  BY <1>2, <1>3 DEF StatusTypeOK, SeenInv
<1>4. entry' # NoEntry => entry'.at <= seen'[entry'.online] + MaxDelay
  BY <1>2, StatusAssumption DEF StatusTypeOK, SeenInv, Entries
<1> QED
  BY <1>2, <1>3, <1>4 DEF SeenInv

LEMMA StatusInvStep == StatusInv /\ [StatusNext]_statusVars => StatusInv'
<1> SUFFICES ASSUME StatusInv, [StatusNext]_statusVars PROVE StatusInv'
  OBVIOUS
<1> USE StatusAssumption DEF StatusInv
<1>1. CASE WorkersChange \/ RedisChanges
  <2>1. seen' \in [BOOLEAN -> Nat] /\ SeenInv'
    <3>1. Observe /\ UNCHANGED <<time, entry, request>>
      BY <1>1 DEF WorkersChange, RedisChanges
    <3>2. time' \in Nat /\ time <= time'
      BY <3>1 DEF StatusTypeOK
    <3>3. \A p \in Pages : request[p].pc = "checked" => time' <= request[p].at + MaxDelay
      BY <3>1 DEF SeenInv
    <3> QED
      BY <3>1, <3>2, <3>3, Observed
  <2> QED
    BY <1>1, <2>1 DEF WorkersChange, RedisChanges, StatusTypeOK, BadgeIsRecent
<1>2. CASE CacheChanges
  BY <1>2 DEF CacheChanges, StatusTypeOK, SeenInv, BadgeIsRecent
<1>3. CASE Tick
  <2>1. time' \in Nat /\ time <= time'
    BY <1>3 DEF Tick, StatusTypeOK
  <2>2. \A p \in Pages : request[p].pc = "checked" => time' <= request[p].at + MaxDelay
    BY <1>3 DEF Tick, StatusTypeOK
  <2>3. seen' \in [BOOLEAN -> Nat] /\ SeenInv'
    BY <1>3, <2>1, <2>2, Observed DEF Tick
  <2> QED
    BY <1>3, <2>1, <2>3 DEF Tick, StatusTypeOK, BadgeIsRecent
<1>4. ASSUME NEW p \in Pages, ShowCached(p)
      PROVE  StatusInv'
  <2>1. time - seen[entry.online] <= TTL + MaxDelay
    BY <1>4 DEF ShowCached, Cached, StatusTypeOK, SeenInv, Entries
  <2> QED
    BY <1>4, <2>1 DEF ShowCached, Show, StatusTypeOK, SeenInv, BadgeIsRecent
<1>5. ASSUME NEW p \in Pages, CacheGetRaises(p)
      PROVE  StatusInv'
  BY <1>5 DEF CacheGetRaises, StatusTypeOK, SeenInv, BadgeIsRecent
<1>6. ASSUME NEW p \in Pages, Check(p)
      PROVE  StatusInv'
  <2> DEFINE online == CheckWorkerStatus(redis, workers)
  <2>1. online \in BOOLEAN
    BY DEF CheckWorkerStatus
  <2>2. /\ request'[p] = [pc |-> "checked", online |-> online, at |-> time]
        /\ \A q \in Pages \ {p} : request'[q] = request[q]
        /\ UNCHANGED <<time, workers, redis, cache, entry, badge, seen>>
    BY <1>6 DEF Check, StatusTypeOK
  <2>3. StatusTypeOK'
    BY <1>6, <2>1 DEF Check, StatusTypeOK
  <2>4. SeenInv'
    <3>1. seen[online] = time /\ time <= time + MaxDelay
      BY DEF SeenInv, StatusTypeOK
    <3>2. /\ request'[p].at = time /\ request'[p].online = online
          /\ seen' = seen /\ time' = time
      BY <2>2
    <3>3. CheckWorkerStatus(redis, workers)' = online
      BY <2>2 DEF CheckWorkerStatus
    <3> HIDE DEF online
    <3>4. request'[p].at <= seen'[request'[p].online] /\ time' <= request'[p].at + MaxDelay
      <4>1. seen'[request'[p].online] = time
        BY <3>1, <3>2
      <4>2. time \in Nat
        BY DEF StatusTypeOK
      <4> QED
        BY <3>1, <3>2, <4>1, <4>2
    <3>5. \A q \in Pages : request'[q].pc = "checked" =>
            request'[q].at <= seen'[request'[q].online] /\ time' <= request'[q].at + MaxDelay
      BY <2>2, <3>4 DEF SeenInv
    <3>6. seen'[CheckWorkerStatus(redis', workers')] = time'
      BY <3>1, <3>2, <3>3
    <3> QED
      BY <2>2, <3>5, <3>6 DEF SeenInv
  <2> QED
    BY <2>2, <2>3, <2>4 DEF BadgeIsRecent
<1>7. ASSUME NEW p \in Pages, StoreAndShow(p)
      PROVE  StatusInv'
  <2>1. /\ request[p].online \in BOOLEAN /\ request[p].at \in Nat
        /\ request[p].at <= seen[request[p].online] /\ time <= request[p].at + MaxDelay
    BY <1>7 DEF StoreAndShow, StatusTypeOK, SeenInv
  <2>2. seen[request[p].online] \in Nat /\ time <= seen[request[p].online] + MaxDelay
    BY <2>1 DEF StatusTypeOK
  <2>3. StatusTypeOK'
    BY <1>7, <2>1 DEF StoreAndShow, StatusTypeOK, Entries, Idle
  <2>4. SeenInv'
    <3>1. \A q \in Pages : request'[q].pc = "checked" => request'[q] = request[q]
      BY <1>7 DEF StoreAndShow, StatusTypeOK, Idle
    <3>2. entry' = entry \/ entry' = [online |-> request[p].online, at |-> time]
      BY <1>7 DEF StoreAndShow
    <3>3. entry' # NoEntry => entry'.at <= seen[entry'.online] + MaxDelay
      BY <2>1, <2>2, <3>2 DEF SeenInv
    <3> QED
      BY <1>7, <3>1, <3>3 DEF StoreAndShow, SeenInv
  <2>5. BadgeIsRecent'
    BY <1>7, <2>2 DEF StoreAndShow, Show, BadgeIsRecent, StatusTypeOK
  <2> QED
    BY <2>3, <2>4, <2>5
<1>8. CASE UNCHANGED statusVars
  BY <1>8 DEF statusVars, StatusTypeOK, SeenInv, BadgeIsRecent
<1> QED
  BY <1>1, <1>2, <1>3, <1>4, <1>5, <1>6, <1>7, <1>8 DEF StatusNext

\* The badge of get_worker_status is at most TTL and the time of one request
\* old, however many requests race to the cache and whatever fails meanwhile.
THEOREM BadgeAlwaysRecent == Spec => []BadgeIsRecent
<1>1. Init => StatusInv
  BY StatusInvInit DEF Init
<1>2. StatusInv /\ [Next]_webVars => StatusInv'
  <2> SUFFICES ASSUME StatusInv, [Next]_webVars PROVE StatusInv'
    OBVIOUS
  <2>1. [StatusNext]_statusVars
    BY DEF Next, webVars
  <2> QED
    BY <2>1, StatusInvStep
<1>3. StatusInv => BadgeIsRecent
  BY DEF StatusInv
<1> QED
  BY <1>1, <1>2, <1>3, PTL DEF Spec

(***************************************************************************)
(* The credentials: for any rows, passwords, keys, requests and steps.     *)
(***************************************************************************)
CredentialTypeOK ==
  /\ hosts \subseteq Devices
  /\ rows \in [Credentials -> CredentialRows \cup {NoCredential}]
  /\ session \in [Editors -> CredentialRows \cup {NoCredential}]
  /\ setting \in Settings
  /\ started \in [Processes -> Settings]
  /\ typed \in [Credentials -> Passwords \cup {Empty, NoCredential}]
  /\ retyped \subseteq Credentials
  /\ behind \subseteq Editors
  /\ overtaken \subseteq Credentials

Text(token) == IF token = Empty THEN Empty ELSE token.text

\* A row holds what was typed last for it, under the key of the web process if
\* it was typed since that process was started.
HoldsTyped(row) ==
  /\ Text(row.password) = typed[row.pk]
  /\ row.pk \in retyped /\ row.password # Empty => row.password.key = GetFernetKey(started["web"])

\* Every row holds it but one that was overtaken, and so does what an update has
\* read but for one that has fallen behind.
CredentialInv ==
  /\ CredentialTypeOK
  /\ \A c \in Credentials : rows[c] # NoCredential =>
       /\ rows[c].pk = c
       /\ typed[c] # NoCredential
       /\ c \notin overtaken => HoldsTyped(rows[c])
  /\ \A e \in Editors : session[e] # NoCredential =>
       /\ typed[session[e].pk] # NoCredential
       /\ e \notin behind /\ session[e].pk \notin overtaken => HoldsTyped(session[e])

LEMMA KeyTypes ==
  ASSUME NEW s \in Settings
  PROVE  GetFernetKey(s) \in Keys \cup {Derived, Raises}
BY DEF Settings, GetFernetKey

\* What a write stores is a row, and its token is of what was sent.
LEMMA TokenIs ==
  ASSUME CredentialTypeOK, NEW password \in Passwords \cup {Empty}, Token(password) # Raises
  PROVE  /\ Token(password) \in Tokens \cup {Empty}
         /\ Text(Token(password)) = password
         /\ Token(password) # Empty => Token(password).key = GetFernetKey(started["web"])
<1>1. started["web"] \in Settings
  BY DEF CredentialTypeOK, Processes
<1>2. CASE password = Empty
  BY <1>2 DEF Token, Encrypt, Text
<1>3. CASE password # Empty
  <2>1. GetFernetKey(started["web"]) # Raises
    BY <1>3 DEF Token, Encrypt
  <2>2. Token(password) = [key |-> GetFernetKey(started["web"]), text |-> password]
    BY <1>3, <2>1 DEF Token, Encrypt
  <2>3. GetFernetKey(started["web"]) \in Keys \cup {Derived}
    BY <1>1, <2>1, KeyTypes
  <2>4. Token(password) \in Tokens
    BY <1>3, <2>2, <2>3 DEF Tokens
  <2>5. Token(password) # Empty
    BY <2>4, CredentialAssumption
  <2> QED
    BY <2>2, <2>4, <2>5 DEF Text
<1> QED
  BY <1>2, <1>3

LEMMA CredentialInvInit == CredentialInit => CredentialInv
<1> SUFFICES ASSUME CredentialInit PROVE CredentialInv
  OBVIOUS
<1>1. CredentialTypeOK
  BY DEF CredentialInit, CredentialTypeOK, Settings
<1>2. \A c \in Credentials : rows[c] = NoCredential
  BY DEF CredentialInit
<1>3. \A e \in Editors : session[e] = NoCredential
  BY DEF CredentialInit
<1> QED
  BY <1>1, <1>2, <1>3 DEF CredentialInv

\* A form over a row that was read, when the database lets it in.
LEMMA FormRowIs ==
  ASSUME CredentialTypeOK, NEW read, read.pk \in Credentials, read.password \in Tokens \cup {Empty},
         NEW sent, sent.name \in Names, sent.scope \in Scopes,
         sent.device \in Devices \cup {NoDevice}, sent.password \in Passwords \cup {Empty},
         FormRow(read, sent).password # Raises
  PROVE  /\ FormRow(read, sent) \in CredentialRows
         /\ FormRow(read, sent).pk = read.pk
         /\ sent.password = Empty => FormRow(read, sent).password = read.password
         /\ sent.password # Empty => FormRow(read, sent).password = Token(sent.password)
<1>1. sent.password # Empty => Token(sent.password) # Raises
  BY DEF FormRow
<1>2. FormRow(read, sent).password \in Tokens \cup {Empty}
  BY <1>1, TokenIs DEF FormRow
<1> QED
  BY <1>2 DEF FormRow, CredentialRows

\* What a form sends, and what a PATCH leaves as it was read.
LEMMA ApiRowIs ==
  ASSUME CredentialTypeOK, NEW read \in CredentialRows, NEW sent \in Submissions,
         NEW fields \in PatchedFields, ApiRow(read, sent, fields).password # Raises,
         NEW password, password = IF "password" \in fields THEN sent.password ELSE Empty
  PROVE  /\ ApiRow(read, sent, fields) \in CredentialRows
         /\ ApiRow(read, sent, fields).pk = read.pk
         /\ password \in Passwords \cup {Empty}
         /\ password = Empty => ApiRow(read, sent, fields).password = read.password
         /\ password # Empty => ApiRow(read, sent, fields).password = Token(password)
<1> DEFINE merged == [f \in Columns |->
                        CASE f \in fields -> sent[f]
                          [] f \notin fields /\ f = "password" -> Empty
                          [] OTHER -> read[f]]
<1>1. ApiRow(read, sent, fields) = FormRow(read, merged)
  BY DEF ApiRow
<1>2. /\ sent.name \in Names /\ sent.scope \in Scopes /\ sent.device \in Devices \cup {NoDevice}
      /\ sent.password \in Passwords \cup {Empty}
  BY DEF Submissions, Scopes
<1>3. /\ read.pk \in Credentials /\ read.name \in Names /\ read.scope \in Scopes
      /\ read.device \in Devices \cup {NoDevice} /\ read.password \in Tokens \cup {Empty}
  BY DEF CredentialRows
<1>4. merged.name = IF "name" \in fields THEN sent.name ELSE read.name
  BY DEF Columns
<1>5. merged.scope = IF "scope" \in fields THEN sent.scope ELSE read.scope
  BY DEF Columns
<1>6. merged.device = IF "device" \in fields THEN sent.device ELSE read.device
  BY DEF Columns
<1>7. merged.password = password
  BY DEF Columns
<1> HIDE DEF merged
<1>8. /\ merged.name \in Names /\ merged.scope \in Scopes
      /\ merged.device \in Devices \cup {NoDevice}
  BY <1>2, <1>3, <1>4, <1>5, <1>6
<1>9. password \in Passwords \cup {Empty}
  BY <1>2
<1>10. FormRow(read, merged).password # Raises
  BY <1>1
<1> QED
  BY <1>1, <1>3, <1>7, <1>8, <1>9, <1>10, FormRowIs

\* A row is created.
LEMMA CreateKeepsInv ==
  ASSUME CredentialInv, NEW c \in Credentials, NEW sent \in Submissions, CreateCredential(c, sent)
  PROVE  CredentialInv'
<1> DEFINE row == FormRow([pk |-> c, password |-> Empty], sent)
           password == sent.password
<1> USE DEF CredentialInv
<1>1. /\ password \in Passwords \cup {Empty} /\ sent.name \in Names /\ sent.scope \in Scopes
      /\ sent.device \in Devices \cup {NoDevice}
  BY DEF Submissions, Scopes
<1>2. row.password # Raises /\ typed[c] = NoCredential
  BY DEF CreateCredential, Write, Storable
<1>3. /\ row \in CredentialRows /\ row.pk = c
      /\ password = Empty => row.password = Empty
      /\ password # Empty => row.password = Token(password)
  <2>1. PICK read : read = [pk |-> c, password |-> Empty]
    OBVIOUS
  <2>2. read.pk = c /\ read.password = Empty /\ row = FormRow(read, sent)
    BY <2>1
  <2>3. CredentialTypeOK
    OBVIOUS
  <2> QED
    BY <1>1, <1>2, <2>2, <2>3, FormRowIs
<1>4. /\ rows' = [rows EXCEPT ![row.pk] = row]
      /\ typed' = [typed EXCEPT ![row.pk] = password]
      /\ retyped' = retyped \cup {row.pk}
      /\ UNCHANGED <<hosts, setting, started, session, behind, overtaken>>
  BY <1>2, <1>3 DEF CreateCredential, Write
<1>5. /\ Text(row.password) = password
      /\ row.password # Empty => row.password.key = GetFernetKey(started["web"])
  <2>1. CASE password = Empty
    BY <1>3, <2>1 DEF Text
  <2>2. CASE password # Empty
    <3>1. Token(password) # Raises
      BY <1>2, <1>3, <2>2
    <3> QED
      BY <1>1, <1>3, <2>2, <3>1, TokenIs
  <2> QED
    BY <2>1, <2>2
<1> HIDE DEF row, password
<1>6. /\ rows' = [rows EXCEPT ![c] = row]
      /\ typed' = [typed EXCEPT ![c] = password]
      /\ retyped' = retyped \cup {c}
  BY <1>3, <1>4
<1>7. CredentialTypeOK'
  BY <1>1, <1>3, <1>4, <1>6 DEF CredentialTypeOK
<1>8. ASSUME NEW b \in Credentials, rows'[b] # NoCredential
      PROVE  /\ rows'[b].pk = b
             /\ typed'[b] # NoCredential
             /\ b \notin overtaken' => HoldsTyped(rows[b])'
  <2>1. CASE b = c
    <3>1. rows'[b] = row /\ typed'[b] = password
      BY <1>6, <2>1 DEF CredentialTypeOK
    <3>2. password # NoCredential
      BY <1>1, CredentialAssumption
    <3>3. HoldsTyped(rows[b])'
      BY <1>3, <1>4, <1>5, <2>1, <3>1 DEF HoldsTyped
    <3> QED
      BY <1>3, <2>1, <3>1, <3>2, <3>3
  <2>2. CASE b # c
    <3>1. rows'[b] = rows[b] /\ typed'[b] = typed[b] /\ (b \in retyped' <=> b \in retyped)
      BY <1>6, <2>2 DEF CredentialTypeOK
    <3>2. rows[b].pk = b
      BY <1>8, <3>1
    <3> QED
      BY <1>4, <1>8, <3>1, <3>2 DEF HoldsTyped
  <2> QED
    BY <2>1, <2>2
<1>9. ASSUME NEW e \in Editors, session'[e] # NoCredential
      PROVE  /\ typed'[session'[e].pk] # NoCredential
             /\ e \notin behind' /\ session'[e].pk \notin overtaken' => HoldsTyped(session[e])'
  <2>1. session'[e] = session[e] /\ session[e] \in CredentialRows
    BY <1>4, <1>9 DEF CredentialTypeOK
  <2>2. PICK b \in Credentials : session[e].pk = b
    BY <2>1 DEF CredentialRows
  <2>3. typed[b] # NoCredential
    BY <1>9, <2>1, <2>2
  <2>4. b # c
    BY <1>2, <2>3
  <2>5. typed'[b] = typed[b] /\ (b \in retyped' <=> b \in retyped)
    BY <1>6, <2>4 DEF CredentialTypeOK
  <2> QED
    BY <1>4, <1>9, <2>1, <2>2, <2>3, <2>5 DEF HoldsTyped
<1> QED
  BY <1>7, <1>8, <1>9

\* An update is saved: by a form or a call, with or without a password.
LEMMA SaveKeepsInv ==
  ASSUME CredentialInv, NEW e \in Editors, NEW row \in CredentialRows,
         NEW password \in Passwords \cup {Empty},
         SaveCredential(e, row, password), row.pk = session[e].pk,
         password = Empty => row.password = session[e].password,
         password # Empty => row.password = Token(password)
  PROVE  CredentialInv'
<1> USE DEF CredentialInv
<1>1. PICK c \in Credentials : row.pk = c
  BY DEF CredentialRows
<1>2. session[e] # NoCredential /\ session[e].pk = c /\ typed[c] # NoCredential
  BY <1>1 DEF SaveCredential
<1>3. /\ rows' = [rows EXCEPT ![c] = row]
      /\ session' = [session EXCEPT ![e] = NoCredential]
      /\ row.password # Raises
      /\ UNCHANGED <<hosts, setting, started>>
  BY <1>1 DEF SaveCredential, Write, Storable
<1>4. CASE password = Empty
  <2>1. /\ UNCHANGED <<typed, retyped>> /\ behind' = behind \ {e}
        /\ overtaken' = IF e \in behind THEN overtaken \cup {c} ELSE overtaken
    BY <1>1, <1>2, <1>4 DEF SaveCredential, Write
  <2>2. CredentialTypeOK'
    BY <1>3, <2>1 DEF CredentialTypeOK
  <2>3. ASSUME NEW b \in Credentials, rows'[b] # NoCredential
        PROVE  /\ rows'[b].pk = b
               /\ typed'[b] # NoCredential
               /\ b \notin overtaken' => HoldsTyped(rows[b])'
    <3>1. CASE b = c
      <4>1. rows'[b] = row
        BY <1>3, <3>1 DEF CredentialTypeOK
      <4>2. b \notin overtaken' => e \notin behind /\ c \notin overtaken
        BY <2>1, <3>1
      <4>3. b \notin overtaken' => HoldsTyped(session[e])
        BY <1>2, <4>2
      <4>4. row.password = session[e].password
        BY <1>4
      <4>5. HoldsTyped(session[e]) => HoldsTyped(rows[b])'
        BY <1>1, <1>2, <1>3, <2>1, <4>1, <4>4 DEF HoldsTyped
      <4> QED
        BY <1>1, <1>2, <2>1, <3>1, <4>1, <4>3, <4>5
    <3>2. CASE b # c
      <4>1. rows'[b] = rows[b]
        BY <1>3, <3>2 DEF CredentialTypeOK
      <4>2. b \notin overtaken' => b \notin overtaken
        BY <2>1
      <4> QED
        BY <1>3, <2>1, <2>3, <4>1, <4>2 DEF HoldsTyped
    <3> QED
      BY <3>1, <3>2
  <2>4. ASSUME NEW f \in Editors, session'[f] # NoCredential
        PROVE  /\ typed'[session'[f].pk] # NoCredential
               /\ f \notin behind' /\ session'[f].pk \notin overtaken' => HoldsTyped(session[f])'
    <3>1. session'[f] = session[f] /\ f # e
      BY <1>3, <2>4 DEF CredentialTypeOK
    <3>2. f \notin behind' /\ session'[f].pk \notin overtaken' =>
            f \notin behind /\ session[f].pk \notin overtaken
      BY <2>1, <3>1
    <3> QED
      BY <1>3, <2>1, <2>4, <3>1, <3>2 DEF HoldsTyped
  <2> QED
    BY <2>2, <2>3, <2>4
<1>5. CASE password # Empty
  <2>1. /\ typed' = [typed EXCEPT ![c] = password] /\ retyped' = retyped \cup {c}
        /\ behind' = (behind \cup OnCredential(c)) \ {e}
        /\ overtaken' = overtaken \ {c}
    BY <1>1, <1>5 DEF SaveCredential, Write
  <2>2. CredentialTypeOK'
    <3>1. behind' \subseteq Editors
      BY <2>1 DEF OnCredential, CredentialTypeOK
    <3> QED
      BY <1>3, <2>1, <3>1 DEF CredentialTypeOK
  <2>3. /\ Text(row.password) = password
        /\ row.password # Empty => row.password.key = GetFernetKey(started["web"])
    <3>1. Token(password) # Raises
      BY <1>3, <1>5
    <3> QED
      BY <1>5, <3>1, TokenIs
  <2>4. ASSUME NEW b \in Credentials, rows'[b] # NoCredential
        PROVE  /\ rows'[b].pk = b
               /\ typed'[b] # NoCredential
               /\ b \notin overtaken' => HoldsTyped(rows[b])'
    <3>1. CASE b = c
      <4>1. rows'[b] = row /\ typed'[b] = password
        BY <1>3, <2>1, <3>1 DEF CredentialTypeOK
      <4>2. password # NoCredential
        BY CredentialAssumption
      <4>3. HoldsTyped(rows[b])'
        BY <1>1, <1>3, <2>3, <3>1, <4>1 DEF HoldsTyped
      <4> QED
        BY <1>1, <3>1, <4>1, <4>2, <4>3
    <3>2. CASE b # c
      <4>1. rows'[b] = rows[b] /\ typed'[b] = typed[b] /\ (b \in retyped' <=> b \in retyped)
        BY <1>3, <2>1, <3>2 DEF CredentialTypeOK
      <4>2. rows[b].pk = b /\ (b \notin overtaken' <=> b \notin overtaken)
        BY <2>1, <2>4, <3>2, <4>1
      <4> QED
        BY <1>3, <2>4, <4>1, <4>2 DEF HoldsTyped
    <3> QED
      BY <3>1, <3>2
  <2>5. ASSUME NEW f \in Editors, session'[f] # NoCredential
        PROVE  /\ typed'[session'[f].pk] # NoCredential
               /\ f \notin behind' /\ session'[f].pk \notin overtaken' => HoldsTyped(session[f])'
    <3>1. session'[f] = session[f] /\ session[f] # NoCredential /\ f # e
      BY <1>3, <2>5 DEF CredentialTypeOK
    <3>2. PICK b \in Credentials : session[f].pk = b
      BY <3>1 DEF CredentialTypeOK, CredentialRows
    <3>3. CASE b = c
      <4>1. f \in behind'
        BY <2>1, <3>1, <3>2, <3>3 DEF OnCredential
      <4>2. typed'[b] = password
        BY <2>1, <3>3 DEF CredentialTypeOK
      <4>3. password # NoCredential
        BY CredentialAssumption
      <4> QED
        BY <3>1, <3>2, <4>1, <4>2, <4>3
    <3>4. CASE b # c
      <4>1. typed'[b] = typed[b] /\ (b \in retyped' <=> b \in retyped)
        BY <2>1, <3>4 DEF CredentialTypeOK
      <4>2. f \notin behind' /\ b \notin overtaken' => f \notin behind /\ b \notin overtaken
        BY <2>1, <3>1, <3>4
      <4> QED
        BY <1>3, <3>1, <3>2, <4>1, <4>2 DEF HoldsTyped
    <3> QED
      BY <3>3, <3>4
  <2> QED
    BY <2>2, <2>4, <2>5
<1> QED
  BY <1>4, <1>5

LEMMA CredentialInvStep == CredentialInv /\ [CredentialNext]_credentialVars => CredentialInv'
<1> SUFFICES ASSUME CredentialInv, [CredentialNext]_credentialVars PROVE CredentialInv'
  OBVIOUS
<1> USE DEF CredentialInv
<1>1. ASSUME NEW c \in Credentials, NEW sent \in Submissions, CreateCredential(c, sent)
      PROVE  CredentialInv'
  BY <1>1, CreateKeepsInv
<1>2. ASSUME NEW e \in Editors, NEW c \in Credentials, OpenCredential(e, c)
      PROVE  CredentialInv'
  <2>1. /\ session' = [session EXCEPT ![e] = rows[c]] /\ rows[c] # NoCredential
        /\ UNCHANGED <<hosts, rows, setting, started, typed, retyped, behind, overtaken>>
    BY <1>2 DEF OpenCredential
  <2>2. CredentialTypeOK'
    BY <2>1 DEF CredentialTypeOK
  <2>3. session'[e] = rows[c] /\ \A f \in Editors \ {e} : session'[f] = session[f]
    BY <2>1 DEF CredentialTypeOK
  <2>4. /\ typed'[session'[e].pk] # NoCredential
        /\ session'[e].pk \notin overtaken' => HoldsTyped(session[e])'
    BY <2>1, <2>3 DEF HoldsTyped
  <2>5. \A f \in Editors : session'[f] # NoCredential =>
          /\ typed'[session'[f].pk] # NoCredential
          /\ f \notin behind' /\ session'[f].pk \notin overtaken' => HoldsTyped(session[f])'
    BY <2>1, <2>3, <2>4 DEF HoldsTyped
  <2>6. \A b \in Credentials : rows'[b] # NoCredential =>
          /\ rows'[b].pk = b
          /\ typed'[b] # NoCredential
          /\ b \notin overtaken' => HoldsTyped(rows[b])'
    BY <2>1 DEF HoldsTyped
  <2> QED
    BY <2>2, <2>5, <2>6
<1>3. ASSUME NEW e \in Editors, NEW sent \in Submissions, SaveForm(e, sent)
      PROVE  CredentialInv'
  <2> DEFINE row == FormRow(session[e], sent)
  <2>1. SaveCredential(e, row, sent.password) /\ row.password # Raises /\ session[e] # NoCredential
    BY <1>3 DEF SaveForm, SaveCredential, Write, Storable
  <2>2. session[e].pk \in Credentials /\ session[e].password \in Tokens \cup {Empty}
    BY <2>1 DEF CredentialTypeOK, CredentialRows
  <2>3. /\ sent.name \in Names /\ sent.scope \in Scopes /\ sent.device \in Devices \cup {NoDevice}
        /\ sent.password \in Passwords \cup {Empty}
    BY DEF Submissions, Scopes
  <2>4. /\ row \in CredentialRows /\ row.pk = session[e].pk
        /\ sent.password = Empty => row.password = session[e].password
        /\ sent.password # Empty => row.password = Token(sent.password)
    BY <2>1, <2>2, <2>3, FormRowIs
  <2> HIDE DEF row
  <2> QED
    BY <2>1, <2>3, <2>4, SaveKeepsInv
<1>4. ASSUME NEW e \in Editors, NEW sent \in Submissions, NEW fields \in PatchedFields,
             SaveApi(e, sent, fields)
      PROVE  CredentialInv'
  <2> DEFINE row == ApiRow(session[e], sent, fields)
             password == IF "password" \in fields THEN sent.password ELSE Empty
  <2>1. SaveCredential(e, row, password) /\ row.password # Raises /\ session[e] \in CredentialRows
    BY <1>4 DEF SaveApi, SaveCredential, Write, Storable, CredentialTypeOK
  <2>2. /\ row \in CredentialRows /\ row.pk = session[e].pk
        /\ password \in Passwords \cup {Empty}
        /\ password = Empty => row.password = session[e].password
        /\ password # Empty => row.password = Token(password)
    BY <2>1, ApiRowIs
  <2> HIDE DEF row, password
  <2> QED
    BY <2>1, <2>2, SaveKeepsInv
<1>5. ASSUME NEW e \in Editors, UpdateFails(e)
      PROVE  CredentialInv'
  <2>1. /\ session' = [session EXCEPT ![e] = NoCredential] /\ behind' = behind \ {e}
        /\ UNCHANGED <<hosts, rows, setting, started, typed, retyped, overtaken>>
    BY <1>5 DEF UpdateFails
  <2>2. CredentialTypeOK'
    BY <2>1 DEF CredentialTypeOK
  <2>3. \A f \in Editors : session'[f] # NoCredential => session'[f] = session[f] /\ f # e
    BY <2>1 DEF CredentialTypeOK
  <2> QED
    BY <2>1, <2>2, <2>3 DEF HoldsTyped
<1>6. ASSUME \A c \in Credentials : rows'[c] \in {rows[c], NoCredential},
             rows' \in [Credentials -> CredentialRows \cup {NoCredential}],
             hosts' \subseteq hosts, setting' \in Settings,
             UNCHANGED <<session, started, typed, retyped, behind, overtaken>>
      PROVE  CredentialInv'
  <2>1. CredentialTypeOK'
    BY <1>6 DEF CredentialTypeOK
  <2>2. \A c \in Credentials : rows'[c] # NoCredential => rows'[c] = rows[c]
    BY <1>6
  <2> QED
    BY <1>6, <2>1, <2>2 DEF HoldsTyped
<1>7. ASSUME NEW c \in Credentials, DeleteCredential(c)
      PROVE  CredentialInv'
  BY <1>6, <1>7 DEF DeleteCredential, CredentialTypeOK
<1>8. ASSUME NEW d \in Devices, DeleteHost(d)
      PROVE  CredentialInv'
  BY <1>6, <1>8 DEF DeleteHost, CredentialTypeOK
<1>9. ASSUME NEW s \in Settings, ConfigureKey(s)
      PROVE  CredentialInv'
  BY <1>6, <1>9 DEF ConfigureKey, CredentialTypeOK
<1>10. ASSUME NEW p \in Processes, RestartProcess(p)
       PROVE  CredentialInv'
  <2>1. /\ started' = [started EXCEPT ![p] = setting] /\ retyped' = IF p = "web" THEN {} ELSE retyped
        /\ UNCHANGED <<hosts, rows, session, setting, typed, behind, overtaken>>
    BY <1>10 DEF RestartProcess
  <2>2. CredentialTypeOK'
    BY <2>1 DEF CredentialTypeOK
  <2>3. \A row : HoldsTyped(row) =>
          /\ Text(row.password) = typed'[row.pk]
          /\ row.pk \in retyped' /\ row.password # Empty => row.password.key = GetFernetKey(started'["web"])
    <3>1. CASE p = "web"
      BY <2>1, <3>1 DEF HoldsTyped
    <3>2. CASE p # "web"
      <4>1. started'["web"] = started["web"]
        BY <2>1, <3>2 DEF CredentialTypeOK, Processes
      <4> QED
        BY <2>1, <3>2, <4>1 DEF HoldsTyped
    <3> QED
      BY <3>1, <3>2
  <2>4. \A b \in Credentials : rows'[b] # NoCredential =>
          /\ rows'[b].pk = b
          /\ typed'[b] # NoCredential
          /\ b \notin overtaken' => HoldsTyped(rows[b])'
    BY <2>1, <2>3 DEF HoldsTyped
  <2>5. \A f \in Editors : session'[f] # NoCredential =>
          /\ typed'[session'[f].pk] # NoCredential
          /\ f \notin behind' /\ session'[f].pk \notin overtaken' => HoldsTyped(session[f])'
    BY <2>1, <2>3 DEF HoldsTyped
  <2> QED
    BY <2>2, <2>4, <2>5
<1>11. CASE UNCHANGED credentialVars
  <2>1. UNCHANGED <<hosts, rows, session, setting, started, typed, retyped, behind, overtaken>>
    BY <1>11 DEF credentialVars
  <2> QED
    BY <2>1 DEF CredentialTypeOK, HoldsTyped
<1> QED
  BY <1>1, <1>2, <1>3, <1>4, <1>5, <1>7, <1>8, <1>9, <1>10, <1>11 DEF CredentialNext

\* The credential of a device is one of its rows.
LEMMA ResolvedIs ==
  ASSUME CredentialInv, NEW d, ResolveCredential(d) # NoCredential
  PROVE  \E c \in Credentials : /\ rows[c] # NoCredential
                                /\ ResolveCredential(d) = rows[c]
<1>1. Bound(d) # {} /\ Bound(d) \subseteq Credentials
  BY DEF ResolveCredential, Bound
<1>2. \A c \in Bound(d) : rows[c].name \in Nat
  BY CredentialAssumption DEF Bound, CredentialInv, CredentialTypeOK, CredentialRows
<1> DEFINE T == {rows[c].name : c \in Bound(d)}
<1>3. T # {} /\ T \in SUBSET Nat
  BY <1>1, <1>2
<1> HIDE DEF T
<1>4. PICK x \in T : \A y \in T : x <= y
  BY <1>3, Least
<1>5. \E c \in Bound(d) : \A o \in Bound(d) : rows[c].name <= rows[o].name
  BY <1>4 DEF T
<1>6. PICK c \in Bound(d) : c = CHOOSE b \in Bound(d) : \A o \in Bound(d) : rows[b].name <= rows[o].name
  BY <1>5
<1>7. ResolveCredential(d) = rows[c]
  BY <1>1, <1>6 DEF ResolveCredential
<1> QED
  BY <1>1, <1>6, <1>7 DEF Bound

(***************************************************************************)
(* The loop over the devices of a testbed.                                 *)
(***************************************************************************)
Reasons == {"supported", "platform", "skipped", "duplicate"}

EntryOf(devices, credentialOf, setting1, i) ==
  BuildDeviceEntry(devices[i], credentialOf[devices[i].pk], setting1)

Testbeds(E, R) == [entries: Seq(E), supported: Seq(R), unsupported: Seq(R), raised: BOOLEAN]

\* What a testbed of these devices can be after any number of them.
TestbedsOf(devices, credentialOf, s) ==
  Testbeds({EntryOf(devices, credentialOf, s, i) : i \in 1..Len(devices)},
           {Report(devices[i], reason) : i \in 1..Len(devices), reason \in Reasons})

\* What one turn of the loop does: it raises, refuses the device or adds it.
TurnRaises(tb, d, item, onUnsupported, next) ==
  ~Skipped(d, onUnsupported) /\ item.password = Raises /\ next.raised

TurnRefuses(tb, d, item, onUnsupported, next) ==
  /\ Skipped(d, onUnsupported) \/ OnTestbed(tb, item.name)
  /\ \E reason \in Reasons :
       next = [entries |-> tb.entries, supported |-> tb.supported,
               unsupported |-> Append(tb.unsupported, Report(d, reason)), raised |-> FALSE]

TurnAdds(tb, d, item, onUnsupported, next) ==
  /\ ~Skipped(d, onUnsupported) /\ item.password # Raises /\ ~OnTestbed(tb, item.name)
  /\ \/ /\ IsSupportedOs(item.os)
        /\ next = [entries |-> Append(tb.entries, item),
                   supported |-> Append(tb.supported, Report(d, "supported")),
                   unsupported |-> tb.unsupported, raised |-> FALSE]
     \/ \E reason \in Reasons :
          next = [entries |-> Append(tb.entries, item), supported |-> tb.supported,
                  unsupported |-> Append(tb.unsupported, Report(d, reason)), raised |-> FALSE]

IsTurn(tb, d, item, onUnsupported, next) ==
  IF tb.raised THEN next = tb
    ELSE \/ TurnRaises(tb, d, item, onUnsupported, next)
         \/ TurnRefuses(tb, d, item, onUnsupported, next)
         \/ TurnAdds(tb, d, item, onUnsupported, next)

LEMMA AddNextIs ==
  ASSUME NEW E, NEW R, NEW tb \in Testbeds(E, R),
         NEW d, \A reason \in Reasons : Report(d, reason) \in R,
         NEW credential, NEW s, BuildDeviceEntry(d, credential, s) \in E,
         NEW onUnsupported
  PROVE  /\ AddNext(tb, d, credential, s, onUnsupported) \in Testbeds(E, R)
         /\ IsTurn(tb, d, BuildDeviceEntry(d, credential, s), onUnsupported,
                   AddNext(tb, d, credential, s, onUnsupported))
<1> USE DEF Testbeds, IsTurn
<1> DEFINE item == BuildDeviceEntry(d, credential, s)
           next == AddNext(tb, d, credential, s, onUnsupported)
           X == [entries: Seq(E), supported: Seq(R), unsupported: Seq(R), raised: BOOLEAN]
<1> HIDE DEF item
<1>1. \A reason \in Reasons : Append(tb.unsupported, Report(d, reason)) \in Seq(R)
  OBVIOUS
<1>2. Append(tb.supported, Report(d, "supported")) \in Seq(R)
  BY DEF Reasons
<1>3. Append(tb.entries, item) \in Seq(E)
  BY DEF item
<1>4. /\ tb.entries \in Seq(E) /\ tb.supported \in Seq(R) /\ tb.unsupported \in Seq(R)
      /\ tb.raised \in BOOLEAN
      /\ tb = [entries |-> tb.entries, supported |-> tb.supported,
               unsupported |-> tb.unsupported, raised |-> tb.raised]
  OBVIOUS
<1>5. CASE tb.raised
  BY <1>5 DEF AddNext
<1>6. CASE ~tb.raised /\ Skipped(d, onUnsupported)
  <2>1. next = AddUnsupported(tb, d, "skipped")
    BY <1>6 DEF AddNext, item
  <2>2. next = [entries |-> tb.entries, supported |-> tb.supported,
                unsupported |-> Append(tb.unsupported, Report(d, "skipped")), raised |-> FALSE]
    BY <1>4, <1>6, <2>1 DEF AddUnsupported
  <2>3. next \in X /\ "skipped" \in Reasons
    BY <1>1, <1>4, <2>2 DEF Reasons
  <2> QED
    BY <1>6, <2>2, <2>3 DEF TurnRefuses
<1>7. CASE ~tb.raised /\ ~Skipped(d, onUnsupported) /\ item.password = Raises
  <2>1. next = [tb EXCEPT !.raised = TRUE]
    BY <1>7 DEF AddNext, item
  <2>2. next.raised /\ next \in X
    BY <1>4, <2>1
  <2> QED
    BY <1>7, <2>2 DEF TurnRaises, item
<1>8. CASE ~tb.raised /\ ~Skipped(d, onUnsupported) /\ item.password # Raises
  <2>1. next = AddDevice(tb, d, item)
    BY <1>8 DEF AddNext, item
  <2> DEFINE added == [tb EXCEPT !.entries = Append(@, item)]
  <2>2. added = [entries |-> Append(tb.entries, item), supported |-> tb.supported,
                 unsupported |-> tb.unsupported, raised |-> FALSE]
    <3>1. \A entries : [tb EXCEPT !.entries = entries] =
             [entries |-> entries, supported |-> tb.supported, unsupported |-> tb.unsupported,
              raised |-> tb.raised]
      BY <1>4
    <3> QED
      BY <1>8, <3>1
  <2>3. CASE OnTestbed(tb, item.name)
    <3>1. next = AddUnsupported(tb, d, "duplicate")
      BY <2>1, <2>3 DEF AddDevice
    <3>2. next = [entries |-> tb.entries, supported |-> tb.supported,
                  unsupported |-> Append(tb.unsupported, Report(d, "duplicate")), raised |-> FALSE]
      BY <1>4, <1>8, <3>1 DEF AddUnsupported
    <3>3. next \in X /\ "duplicate" \in Reasons
      BY <1>1, <1>4, <3>2 DEF Reasons
    <3> QED
      BY <1>8, <2>3, <3>2, <3>3 DEF TurnRefuses, item
  <2>4. CASE ~OnTestbed(tb, item.name) /\ IsSupportedOs(item.os)
    <3>1. next = AddSupported(added, d)
      BY <2>1, <2>4 DEF AddDevice
    <3>2. next = [entries |-> Append(tb.entries, item),
                  supported |-> Append(tb.supported, Report(d, "supported")),
                  unsupported |-> tb.unsupported, raised |-> FALSE]
      BY <2>2, <3>1 DEF AddSupported
    <3>3. next \in X
      BY <1>2, <1>3, <1>4, <3>2
    <3> QED
      BY <1>8, <2>4, <3>2, <3>3 DEF TurnAdds, Reasons, item
  <2>5. CASE ~OnTestbed(tb, item.name) /\ ~IsSupportedOs(item.os)
    <3>1. next = AddUnsupported(added, d, "platform")
      BY <2>1, <2>5 DEF AddDevice
    <3>2. next = [entries |-> Append(tb.entries, item), supported |-> tb.supported,
                  unsupported |-> Append(tb.unsupported, Report(d, "platform")), raised |-> FALSE]
      BY <2>2, <3>1 DEF AddUnsupported
    <3>3. next \in X
      BY <1>1, <1>3, <1>4, <3>2 DEF Reasons
    <3> QED
      BY <1>8, <2>5, <3>2, <3>3 DEF TurnAdds, Reasons, item
  <2> QED
    BY <2>3, <2>4, <2>5
<1> QED
  BY <1>4, <1>5, <1>6, <1>7, <1>8

Built(devices, credentialOf, s, onUnsupported) ==
  CHOOSE built : built = [n \in 0..Len(devices) |->
    IF n = 0 THEN NoTestbed
    ELSE AddNext(built[n - 1], devices[n], credentialOf[devices[n].pk], s, onUnsupported)]

\* What the loop has built after n devices, for every n.
LEMMA BuiltIsDefined ==
  ASSUME NEW D, NEW devices \in Seq(D), NEW credentialOf, NEW s,
         NEW onUnsupported \in {"flag", "skip"},
         NEW built, built = Built(devices, credentialOf, s, onUnsupported)
  PROVE  /\ BuildTestbed(devices, credentialOf, s, onUnsupported) = built[Len(devices)]
         /\ built[0] = NoTestbed
         /\ \A n \in 1..Len(devices) :
              built[n] = AddNext(built[n - 1], devices[n], credentialOf[devices[n].pk], s, onUnsupported)
         /\ \A n \in 0..Len(devices) : built[n] \in TestbedsOf(devices, credentialOf, s)
<1> DEFINE X == TestbedsOf(devices, credentialOf, s)
           N == Len(devices)
           Turn(n, tb) == AddNext(tb, devices[n], credentialOf[devices[n].pk], s, onUnsupported)
           step == [p \in (1..N) \X X |-> Turn(p[1], p[2])]
<1>1. N \in Nat /\ NoTestbed \in X
  BY DEF NoTestbed, TestbedsOf, Testbeds
<1>2. ASSUME NEW n \in 1..N, NEW tb \in X PROVE Turn(n, tb) \in X
  <2> DEFINE E == {EntryOf(devices, credentialOf, s, i) : i \in 1..N}
             R == {Report(devices[i], reason) : i \in 1..N, reason \in Reasons}
  <2>1. \A reason \in Reasons : Report(devices[n], reason) \in R
    OBVIOUS
  <2>2. BuildDeviceEntry(devices[n], credentialOf[devices[n].pk], s) \in E
    BY DEF EntryOf
  <2>3. X = Testbeds(E, R)
    BY DEF TestbedsOf
  <2> HIDE DEF E, R, X
  <2> QED
    BY <2>1, <2>2, <2>3, AddNextIs
<1>3. step \in [(1..N) \X X -> X]
  <2> HIDE DEF Turn, X
  <2> QED
    BY <1>2
<1>4. \A n \in 1..N : \A tb \in X : step[<<n, tb>>] = Turn(n, tb)
  <2> HIDE DEF Turn, X
  <2> QED
    OBVIOUS
<1> HIDE DEF step, N, X, Turn
<1>5. PICK f \in [0..N -> X] : Runs(f, N, NoTestbed, step)
  <2>1. IsLoop(N, X, NoTestbed, step)
    BY <1>1, <1>3 DEF IsLoop
  <2> QED
    BY <2>1, PrefixRecursion
<1>6. \A n \in 0..N : n # 0 => n \in 1..N /\ f[n - 1] \in X
  BY <1>1, <1>5
<1>7. f = [n \in 0..N |-> IF n = 0 THEN NoTestbed ELSE step[<<n, f[n - 1]>>]]
  BY <1>5 DEF Runs
<1>8. f = [n \in 0..N |-> IF n = 0 THEN NoTestbed ELSE Turn(n, f[n - 1])]
  BY <1>4, <1>6, <1>7
<1>9. built = [n \in 0..N |-> IF n = 0 THEN NoTestbed ELSE Turn(n, built[n - 1])]
  BY <1>8 DEF Built, N, Turn
<1>10. BuildTestbed(devices, credentialOf, s, onUnsupported) = built[N]
  BY DEF BuildTestbed, Built, N
<1>11. built[0] = NoTestbed /\ \A n \in 1..N : built[n] = Turn(n, built[n - 1])
  <2>1. 0 \in 0..N /\ \A n \in 1..N : n \in 0..N /\ n # 0
    BY <1>1
  <2> QED
    BY <1>9, <2>1
<1>12. \A n \in 0..N : built[n] \in X
  <2> DEFINE P == {n \in Nat : n \in 0..N => built[n] \in X}
  <2>1. 0 \in P
    BY <1>1, <1>11
  <2>2. ASSUME NEW n \in Nat, n \in P PROVE n + 1 \in P
    <3> SUFFICES ASSUME n + 1 \in 0..N PROVE built[n + 1] \in X
      OBVIOUS
    <3>1. n \in 0..N /\ n + 1 \in 1..N /\ (n + 1) - 1 = n
      BY <1>1
    <3>2. built[n] \in X /\ built[n + 1] = Turn(n + 1, built[n])
      BY <1>11, <2>2, <3>1
    <3> QED
      BY <1>2, <3>1, <3>2
  <2> HIDE DEF P
  <2>3. Nat \subseteq P
    BY <2>1, <2>2, Induction
  <2> QED
    BY <1>1, <2>3 DEF P
<1> QED
  BY <1>10, <1>11, <1>12 DEF N, X, Turn

\* The testbed of one device.
LEMMA BuildOne ==
  ASSUME NEW d \in DOMAIN DeviceRow, NEW onUnsupported \in {"flag", "skip"},
         NEW item,
         item = BuildDeviceEntry(DeviceRow[d], ResolveCredential(d), started["worker"]),
         NEW tb, tb = Build(<<d>>, onUnsupported)
  PROVE  /\ tb.raised <=> ~Skipped(DeviceRow[d], onUnsupported) /\ item.password = Raises
         /\ ~tb.raised /\ onUnsupported = "flag" => tb.entries = <<item>>
<1> DEFINE devices == <<DeviceRow[d]>>
           credentialOf == [h \in DOMAIN DeviceRow |-> ResolveCredential(h)]
           built == Built(devices, credentialOf, started["worker"], onUnsupported)
           E == {item}
           R == {Report(DeviceRow[d], reason) : reason \in Reasons}
<1>1. [i \in DOMAIN <<d>> |-> DeviceRow[(<<d>>)[i]]] = devices
  OBVIOUS
<1>2. tb = BuildTestbed(devices, credentialOf, started["worker"], onUnsupported)
  BY <1>1 DEF Build
<1>3. devices \in Seq({DeviceRow[d]}) /\ Len(devices) = 1 /\ devices[1] = DeviceRow[d]
  OBVIOUS
<1>4. credentialOf[devices[1].pk] = ResolveCredential(d)
  BY CredentialAssumption
<1> HIDE DEF devices, credentialOf
<1>5. /\ tb = built[Len(devices)] /\ built[0] = NoTestbed
      /\ \A n \in 1..Len(devices) :
           built[n] = AddNext(built[n - 1], devices[n], credentialOf[devices[n].pk],
                              started["worker"], onUnsupported)
  BY <1>2, <1>3, BuiltIsDefined
<1> HIDE DEF built
<1>6. tb = AddNext(built[0], devices[1], credentialOf[devices[1].pk],
                   started["worker"], onUnsupported)
  BY <1>3, <1>5
<1>7. tb = AddNext(NoTestbed, DeviceRow[d], ResolveCredential(d), started["worker"], onUnsupported)
  BY <1>3, <1>4, <1>5, <1>6
<1>8. /\ NoTestbed \in Testbeds(E, R)
      /\ ~NoTestbed.raised /\ NoTestbed.entries = <<>>
  BY DEF NoTestbed, Testbeds
<1>9. ~OnTestbed(NoTestbed, item.name)
  BY <1>8 DEF OnTestbed
<1>10. item \in E /\ \A reason \in Reasons : Report(DeviceRow[d], reason) \in R
  OBVIOUS
<1> HIDE DEF E, R
<1>11. onUnsupported = "flag" => ~Skipped(DeviceRow[d], onUnsupported)
  BY DEF Skipped
<1>12. Append(<<>>, item) = <<item>>
  OBVIOUS
<1>13. \/ ~Skipped(DeviceRow[d], onUnsupported) /\ item.password = Raises /\ tb.raised
       \/ Skipped(DeviceRow[d], onUnsupported) /\ ~tb.raised
       \/ /\ ~Skipped(DeviceRow[d], onUnsupported) /\ item.password # Raises
          /\ ~tb.raised /\ tb.entries = <<item>>
  <2>1. PICK none : none = NoTestbed
    OBVIOUS
  <2>2. /\ none \in Testbeds(E, R)
        /\ ~none.raised /\ none.entries = <<>> /\ ~OnTestbed(none, item.name)
        /\ tb = AddNext(none, DeviceRow[d], ResolveCredential(d), started["worker"], onUnsupported)
    BY <1>7, <1>8, <1>9, <2>1
  <2>3. IsTurn(none, DeviceRow[d], item, onUnsupported, tb)
    BY <1>10, <2>2, AddNextIs
  <2>4. CASE TurnRaises(none, DeviceRow[d], item, onUnsupported, tb)
    BY <2>4 DEF TurnRaises
  <2>5. CASE TurnRefuses(none, DeviceRow[d], item, onUnsupported, tb)
    BY <2>2, <2>5 DEF TurnRefuses
  <2>6. CASE TurnAdds(none, DeviceRow[d], item, onUnsupported, tb)
    <3>1. tb.entries = Append(none.entries, item) /\ ~tb.raised
      <4>1. PICK supported, unsupported :
              tb = [entries |-> Append(none.entries, item), supported |-> supported,
                    unsupported |-> unsupported, raised |-> FALSE]
        BY <2>6, Zenon DEF TurnAdds
      <4> QED
        BY <4>1
    <3> QED
      BY <1>12, <2>2, <2>6, <3>1 DEF TurnAdds
  <2> QED
    BY <2>2, <2>3, <2>4, <2>5, <2>6 DEF IsTurn
<1> QED
  BY <1>11, <1>13

\* What a build logs in with is what was typed last, and it can decrypt it once
\* its key is the one it was typed with.
LEMMA CredentialInvResolves == CredentialInv => LastPasswordOrRefused
<1> SUFFICES ASSUME CredentialInv, NEW d \in hosts,
                    ResolveCredential(d) # NoCredential,
                    ResolveCredential(d).pk \notin overtaken,
                    NEW tb, tb = Build(<<d>>, "flag")
             PROVE  /\ ~tb.raised => tb.entries[1].password = typed[ResolveCredential(d).pk]
                    /\ SameKey /\ ResolveCredential(d).pk \in retyped => ~tb.raised
  BY DEF LastPasswordOrRefused
<1>1. d \in DOMAIN DeviceRow
  BY CredentialAssumption DEF CredentialInv, CredentialTypeOK
<1>2. PICK c \in Credentials : rows[c] # NoCredential /\ ResolveCredential(d) = rows[c]
  BY ResolvedIs
<1>3. /\ rows[c].pk = c /\ HoldsTyped(rows[c])
      /\ rows[c].password \in Tokens \cup {Empty}
  BY <1>2 DEF CredentialInv, CredentialTypeOK, CredentialRows
<1>4. PICK item : item = BuildDeviceEntry(DeviceRow[d], ResolveCredential(d), started["worker"])
  OBVIOUS
<1>5. item.password = Decrypt(started["worker"], rows[c].password)
  BY <1>2, <1>4 DEF BuildDeviceEntry
<1>6. /\ tb.raised <=> item.password = Raises
      /\ ~tb.raised => tb.entries = <<item>>
  BY <1>1, <1>4, BuildOne DEF Skipped
<1>7. item.password # Raises => item.password = Text(rows[c].password)
  BY <1>5 DEF Decrypt, Text
<1>8. ~tb.raised => tb.entries[1].password = typed[c]
  BY <1>3, <1>6, <1>7 DEF HoldsTyped
<1>9. ASSUME SameKey, c \in retyped PROVE ~tb.raised
  <2>1. CASE rows[c].password = Empty
    BY <1>5, <1>6, <2>1, CredentialAssumption DEF Decrypt
  <2>2. CASE rows[c].password # Empty
    <3>1. rows[c].password.key = GetFernetKey(started["worker"])
      BY <1>3, <1>9, <2>2 DEF HoldsTyped, SameKey
    <3>2. item.password = rows[c].password.text /\ rows[c].password.text \in Passwords
      BY <1>3, <1>5, <2>2, <3>1 DEF Decrypt, Tokens
    <3> QED
      BY <1>6, <3>2, CredentialAssumption
  <2> QED
    BY <2>1, <2>2
<1> QED
  BY <1>2, <1>3, <1>8, <1>9

(***************************************************************************)
(* What a report says, after any number of devices.                        *)
(***************************************************************************)
LEMMA CountUpTo ==
  ASSUME NEW P, NEW n \in Nat
  PROVE  /\ Cardinality({i \in 1..n : i \in P}) \in Nat
         /\ Cardinality({i \in 1..(n + 1) : i \in P}) =
              Cardinality({i \in 1..n : i \in P}) + (IF n + 1 \in P THEN 1 ELSE 0)
<1> DEFINE T == {i \in 1..n : i \in P}
<1>1. IsFiniteSet(T)
  <2>1. IsFiniteSet(1..n)
    BY FS_Interval
  <2>2. T \in SUBSET (1..n)
    OBVIOUS
  <2> HIDE DEF T
  <2> QED
    BY <2>1, <2>2, FS_Subset
<1>2. n + 1 \notin T
  OBVIOUS
<1>3. {i \in 1..(n + 1) : i \in P} = IF n + 1 \in P THEN T \cup {n + 1} ELSE T
  OBVIOUS
<1> HIDE DEF T
<1>4. Cardinality(T) \in Nat
  BY <1>1, FS_CardinalityType
<1>5. Cardinality(T \cup {n + 1}) = Cardinality(T) + 1
  BY <1>1, <1>2, FS_AddElement
<1> QED
  BY <1>3, <1>4, <1>5 DEF T

LEMMA CountAppend ==
  ASSUME NEW R, NEW reports \in Seq(R), NEW report \in R, NEW pk
  PROVE  /\ Count(pk, reports) \in Nat
         /\ Count(pk, Append(reports, report)) =
              Count(pk, reports) + (IF report.pk = pk THEN 1 ELSE 0)
<1>1. PICK more : more = Append(reports, report)
  OBVIOUS
<1>2. PICK n \in Nat : n = Len(reports)
  OBVIOUS
<1>3. /\ DOMAIN reports = 1..n /\ DOMAIN more = 1..(n + 1)
      /\ more[n + 1] = report /\ \A i \in 1..n : more[i] = reports[i]
  BY <1>1, <1>2, AppendIs
<1> DEFINE P == {i \in 1..(n + 1) : more[i].pk = pk}
<1>4. {i \in DOMAIN reports : reports[i].pk = pk} = {i \in 1..n : i \in P}
  BY <1>2, <1>3
<1>5. {i \in DOMAIN more : more[i].pk = pk} = {i \in 1..(n + 1) : i \in P}
  BY <1>3
<1>6. n + 1 \in P <=> report.pk = pk
  BY <1>2, <1>3
<1> HIDE DEF P
<1>7. /\ Cardinality({i \in 1..n : i \in P}) \in Nat
      /\ Cardinality({i \in 1..(n + 1) : i \in P}) =
           Cardinality({i \in 1..n : i \in P}) + (IF n + 1 \in P THEN 1 ELSE 0)
  BY CountUpTo
<1>8. Count(pk, reports) = Cardinality({i \in 1..n : i \in P})
  BY <1>4 DEF Count
<1>9. Count(pk, more) = Cardinality({i \in 1..(n + 1) : i \in P})
  BY <1>5 DEF Count
<1> QED
  BY <1>1, <1>6, <1>7, <1>8, <1>9

NamesOf(entries) == {entries[i].name : i \in DOMAIN entries}

LEMMA NamesAppend ==
  ASSUME NEW E, NEW entries \in Seq(E), NEW item \in E
  PROVE  NamesOf(Append(entries, item)) = NamesOf(entries) \cup {item.name}
<1>1. PICK more : more = Append(entries, item)
  OBVIOUS
<1>2. PICK n \in Nat : n = Len(entries)
  OBVIOUS
<1>3. /\ DOMAIN entries = 1..n /\ DOMAIN more = 1..(n + 1)
      /\ more[n + 1] = item /\ \A i \in 1..n : more[i] = entries[i]
  BY <1>1, <1>2, AppendIs
<1>4. 1..(n + 1) = 1..n \cup {n + 1}
  BY <1>2
<1>5. NamesOf(more) \subseteq NamesOf(entries) \cup {item.name}
  BY <1>3, <1>4 DEF NamesOf
<1>6. NamesOf(entries) \subseteq NamesOf(more)
  BY <1>3, <1>4 DEF NamesOf
<1>7. item.name \in NamesOf(more)
  BY <1>3, <1>4 DEF NamesOf
<1> QED
  BY <1>1, <1>5, <1>6, <1>7

Listed(list, n, d) == {i \in 1..n : list[i] = d}

\* Every device has been reported once for each time it was listed, ...
Counts(tb, list, n) ==
  /\ Len(tb.supported) + Len(tb.unsupported) = n
  /\ \A d : Count(d, tb.supported) + Count(d, tb.unsupported) = Cardinality(Listed(list, n, d))

\* ... a supported one has an entry, ...
HasEntry(tb, d) ==
  \E j \in DOMAIN tb.entries :
    /\ tb.entries[j].pk = d
    /\ tb.entries[j].name = DeviceDisplayName(DeviceRow[d])
    /\ IsSupportedOs(tb.entries[j].os)

\* ... and no two entries share a name.
HasNames(tb, list, n, onUnsupported) ==
  /\ IsFiniteSet(NamesOf(tb.entries))
  /\ Cardinality(NamesOf(tb.entries)) = Len(tb.entries)
  /\ onUnsupported = "flag" =>
       NamesOf(tb.entries) = {DeviceDisplayName(DeviceRow[list[i]]) : i \in 1..n}

Covers(tb, list, n, onUnsupported) ==
  /\ Counts(tb, list, n)
  /\ \A i \in DOMAIN tb.supported : HasEntry(tb, tb.supported[i].pk)
  /\ HasNames(tb, list, n, onUnsupported)

LEMMA CountsMore ==
  ASSUME NEW E, NEW R, NEW tb \in Testbeds(E, R), NEW list, NEW n \in Nat, Counts(tb, list, n),
         NEW report \in R, report.pk = list[n + 1],
         NEW next,
         \/ /\ next.supported = Append(tb.supported, report)
            /\ next.unsupported = tb.unsupported
         \/ /\ next.supported = tb.supported
            /\ next.unsupported = Append(tb.unsupported, report)
  PROVE  Counts(next, list, n + 1)
<1>1. tb.supported \in Seq(R) /\ tb.unsupported \in Seq(R)
  BY DEF Testbeds
<1>2. Len(next.supported) + Len(next.unsupported) = n + 1
  <2>1. Len(tb.supported) + Len(tb.unsupported) = n
    BY DEF Counts
  <2>2. /\ Len(tb.supported) \in Nat /\ Len(tb.unsupported) \in Nat
        /\ Len(Append(tb.supported, report)) = Len(tb.supported) + 1
        /\ Len(Append(tb.unsupported, report)) = Len(tb.unsupported) + 1
    BY <1>1, AppendIs
  <2>3. PICK a, b \in Nat : a = Len(tb.supported) /\ b = Len(tb.unsupported)
    BY <2>2
  <2>4. \/ Len(next.supported) = a + 1 /\ Len(next.unsupported) = b
        \/ Len(next.supported) = a /\ Len(next.unsupported) = b + 1
    BY <2>2, <2>3, Zenon
  <2>5. a + b = n
    BY <2>1, <2>3
  <2>6. (a + 1) + b = n + 1 /\ a + (b + 1) = n + 1
    BY <2>5
  <2> QED
    BY <2>4, <2>6, Zenon
<1>3. ASSUME NEW d
      PROVE  Count(d, next.supported) + Count(d, next.unsupported) = Cardinality(Listed(list, n + 1, d))
  <2> DEFINE P == {i \in 1..(n + 1) : list[i] = d}
  <2>1. Listed(list, n, d) = {i \in 1..n : i \in P}
    BY DEF Listed
  <2>2. Listed(list, n + 1, d) = {i \in 1..(n + 1) : i \in P}
    BY DEF Listed
  <2>3. n + 1 \in P <=> report.pk = d
    OBVIOUS
  <2> HIDE DEF P
  <2>4. Cardinality(Listed(list, n + 1, d)) =
          Cardinality(Listed(list, n, d)) + (IF report.pk = d THEN 1 ELSE 0)
    BY <2>1, <2>2, <2>3, CountUpTo
  <2>5. Cardinality(Listed(list, n, d)) \in Nat
    BY <2>1, CountUpTo
  <2>6. PICK one : one = IF report.pk = d THEN 1 ELSE 0
    OBVIOUS
  <2>7. /\ Count(d, tb.supported) \in Nat
        /\ Count(d, Append(tb.supported, report)) = Count(d, tb.supported) + one
        /\ Count(d, tb.unsupported) \in Nat
        /\ Count(d, Append(tb.unsupported, report)) = Count(d, tb.unsupported) + one
    BY <1>1, <2>6, CountAppend
  <2>8. Count(d, tb.supported) + Count(d, tb.unsupported) = Cardinality(Listed(list, n, d))
    BY DEF Counts
  <2>9. one \in Nat
    BY <2>6
  <2>10. Count(d, next.supported) + Count(d, next.unsupported) =
           Count(d, tb.supported) + Count(d, tb.unsupported) + one
    <3>1. CASE next.supported = Append(tb.supported, report) /\ next.unsupported = tb.unsupported
      BY <2>7, <2>9, <3>1
    <3>2. CASE next.supported = tb.supported /\ next.unsupported = Append(tb.unsupported, report)
      BY <2>7, <2>9, <3>2
    <3> QED
      BY <3>1, <3>2
  <2> QED
    BY <2>4, <2>6, <2>8, <2>10
<1> QED
  BY <1>2, <1>3 DEF Counts

EntryFor(d) == BuildDeviceEntry(DeviceRow[d], ResolveCredential(d), started["worker"])

\* An entry that stays is one of the next testbed.
LEMMA EntriesStay ==
  ASSUME NEW E, NEW entries \in Seq(E), NEW item \in E, NEW tb, tb.entries = entries,
         NEW next, next.entries = entries \/ next.entries = Append(entries, item)
  PROVE  \A d : HasEntry(tb, d) => HasEntry(next, d)
<1> SUFFICES ASSUME NEW d, HasEntry(tb, d) PROVE HasEntry(next, d)
  OBVIOUS
<1>1. PICK j \in DOMAIN entries :
        /\ entries[j].pk = d
        /\ entries[j].name = DeviceDisplayName(DeviceRow[d])
        /\ IsSupportedOs(entries[j].os)
  BY DEF HasEntry
<1>2. CASE next.entries = entries
  BY <1>1, <1>2 DEF HasEntry
<1>3. CASE next.entries = Append(entries, item)
  <2>1. j \in DOMAIN next.entries /\ next.entries[j] = entries[j]
    BY <1>3
  <2> QED
    BY <1>1, <2>1 DEF HasEntry
<1> QED
  BY <1>2, <1>3

LEMMA OnlyRaisingRaises ==
  ASSUME NEW tb, NEW d, NEW item, NEW onUnsupported, NEW next,
         \/ TurnRefuses(tb, d, item, onUnsupported, next)
         \/ TurnAdds(tb, d, item, onUnsupported, next)
  PROVE  ~next.raised
<1>1. PICK entries, supported, unsupported :
        next = [entries |-> entries, supported |-> supported, unsupported |-> unsupported,
                raised |-> FALSE]
  BY Zenon DEF TurnRefuses, TurnAdds
<1> QED
  BY <1>1

LEMMA TurnCovers ==
  ASSUME NEW E, NEW R, NEW tb \in Testbeds(E, R), NEW next \in Testbeds(E, R),
         NEW n \in Nat, NEW list, NEW pk \in DOMAIN DeviceRow, list[n + 1] = pk,
         \A reason \in Reasons : Report(DeviceRow[pk], reason) \in R, EntryFor(pk) \in E,
         NEW onUnsupported \in {"flag", "skip"},
         IsTurn(tb, DeviceRow[pk], EntryFor(pk), onUnsupported, next), ~next.raised,
         Covers(tb, list, n, onUnsupported)
  PROVE  Covers(next, list, n + 1, onUnsupported)
<1>0. PICK d, item : d = DeviceRow[pk] /\ item = EntryFor(pk) /\ item \in E
  OBVIOUS
<1>1. d.pk = list[n + 1]
  BY <1>0, CredentialAssumption
<1>2. /\ item.pk = d.pk /\ item.name = DeviceDisplayName(d)
      /\ \A reason : Report(d, reason).pk = d.pk
  BY <1>0 DEF EntryFor, BuildDeviceEntry, Report
<1>3. \A reason \in Reasons : Report(d, reason) \in R
  BY <1>0
<1>4. /\ tb.entries \in Seq(E) /\ tb.supported \in Seq(R) /\ tb.unsupported \in Seq(R)
  BY DEF Testbeds
<1>5. TurnRefuses(tb, d, item, onUnsupported, next) \/ TurnAdds(tb, d, item, onUnsupported, next)
  BY <1>0 DEF IsTurn, TurnRaises
<1>6. PICK names : names = {DeviceDisplayName(DeviceRow[list[i]]) : i \in 1..n}
  OBVIOUS
<1>7. {DeviceDisplayName(DeviceRow[list[i]]) : i \in 1..(n + 1)} = names \cup {item.name}
  <2>1. 1..(n + 1) = 1..n \cup {n + 1}
    OBVIOUS
  <2> QED
    BY <1>0, <1>2, <1>6, <2>1
<1>8. /\ IsFiniteSet(NamesOf(tb.entries))
      /\ Cardinality(NamesOf(tb.entries)) = Len(tb.entries)
      /\ onUnsupported = "flag" => NamesOf(tb.entries) = names
      /\ Counts(tb, list, n)
      /\ \A i \in DOMAIN tb.supported : HasEntry(tb, tb.supported[i].pk)
  BY <1>6 DEF Covers, HasNames
<1>9. CASE TurnRefuses(tb, d, item, onUnsupported, next)
  <2>1. PICK reason \in Reasons :
          next = [entries |-> tb.entries, supported |-> tb.supported,
                  unsupported |-> Append(tb.unsupported, Report(d, reason)), raised |-> FALSE]
    BY <1>9 DEF TurnRefuses
  <2>2. /\ next.entries = tb.entries /\ next.supported = tb.supported
        /\ next.unsupported = Append(tb.unsupported, Report(d, reason))
    BY <2>1
  <2>3. Counts(next, list, n + 1)
    BY <1>1, <1>2, <1>3, <1>8, <2>2, CountsMore
  <2>4. onUnsupported = "flag" => item.name \in NamesOf(tb.entries)
    BY <1>9 DEF TurnRefuses, Skipped, OnTestbed, NamesOf
  <2>5. HasNames(next, list, n + 1, onUnsupported)
    BY <1>7, <1>8, <2>2, <2>4 DEF HasNames
  <2>6. \A i \in DOMAIN next.supported : HasEntry(next, next.supported[i].pk)
    BY <1>8, <2>2 DEF HasEntry
  <2> QED
    BY <2>3, <2>5, <2>6 DEF Covers
<1>10. CASE TurnAdds(tb, d, item, onUnsupported, next)
  <2>1. next.entries = Append(tb.entries, item)
    BY <1>10 DEF TurnAdds
  <2>2. \/ /\ IsSupportedOs(item.os)
           /\ next.supported = Append(tb.supported, Report(d, "supported"))
           /\ next.unsupported = tb.unsupported
        \/ /\ next.supported = tb.supported
           /\ \E reason \in Reasons : next.unsupported = Append(tb.unsupported, Report(d, reason))
    BY <1>10 DEF TurnAdds
  <2>3. Counts(next, list, n + 1)
    <3>1. "supported" \in Reasons
      BY DEF Reasons
    <3>2. PICK report \in R :
            /\ report.pk = list[n + 1]
            /\ \/ /\ next.supported = Append(tb.supported, report)
                  /\ next.unsupported = tb.unsupported
               \/ /\ next.supported = tb.supported
                  /\ next.unsupported = Append(tb.unsupported, report)
      BY <1>1, <1>2, <1>3, <2>2, <3>1
    <3> QED
      BY <1>8, <3>2, CountsMore
  <2>4. NamesOf(next.entries) = NamesOf(tb.entries) \cup {item.name}
    BY <1>0, <1>4, <2>1, NamesAppend
  <2>5. item.name \notin NamesOf(tb.entries)
    BY <1>10 DEF TurnAdds, OnTestbed, NamesOf
  <2>6. Len(next.entries) = Len(tb.entries) + 1
    BY <1>4, <2>1, AppendIs
  <2>7. /\ IsFiniteSet(NamesOf(next.entries))
        /\ Cardinality(NamesOf(next.entries)) = Len(next.entries)
    <3>1. PICK S, x : S = NamesOf(tb.entries) /\ x = item.name
      OBVIOUS
    <3>2. IsFiniteSet(S) /\ x \notin S
      BY <1>8, <2>5, <3>1
    <3>3. IsFiniteSet(S \cup {x}) /\ Cardinality(S \cup {x}) = Cardinality(S) + 1
      BY <3>2, FS_AddElement
    <3> QED
      BY <1>8, <2>4, <2>6, <3>1, <3>3
  <2>8. HasNames(next, list, n + 1, onUnsupported)
    BY <1>7, <1>8, <2>4, <2>7 DEF HasNames
  <2>9. \A other : HasEntry(tb, other) => HasEntry(next, other)
    BY <1>0, <1>4, <2>1, EntriesStay
  <2>10. IsSupportedOs(item.os) => HasEntry(next, d.pk)
    <3>1. /\ Len(tb.entries) + 1 \in DOMAIN next.entries
          /\ next.entries[Len(tb.entries) + 1] = item
      BY <1>4, <2>1
    <3> QED
      BY <1>0, <1>1, <1>2, <3>1 DEF HasEntry
  <2>11. ASSUME NEW i \in DOMAIN next.supported
         PROVE  HasEntry(next, next.supported[i].pk)
    <3>1. CASE next.supported = tb.supported
      BY <1>8, <2>9, <3>1
    <3>2. CASE IsSupportedOs(item.os) /\ next.supported = Append(tb.supported, Report(d, "supported"))
      <4>1. "supported" \in Reasons
        BY DEF Reasons
      <4>2. \/ i \in DOMAIN tb.supported /\ next.supported[i] = tb.supported[i]
            \/ next.supported[i] = Report(d, "supported")
        BY <1>3, <1>4, <3>2, <4>1
      <4> QED
        BY <1>2, <1>8, <2>9, <2>10, <3>2, <4>2
    <3> QED
      BY <2>2, <3>1, <3>2
  <2> QED
    BY <2>3, <2>8, <2>11 DEF Covers
<1> QED
  BY <1>5, <1>9, <1>10

\* A testbed is the loop over the rows of the list, ...
Loop(list, onUnsupported) ==
  Built([i \in DOMAIN list |-> DeviceRow[list[i]]],
        [d \in DOMAIN DeviceRow |-> ResolveCredential(d)], started["worker"], onUnsupported)

EntriesFor(list) == {EntryFor(list[i]) : i \in 1..Len(list)}
ReportsFor(list) == {Report(DeviceRow[list[i]], reason) : i \in 1..Len(list), reason \in Reasons}

LEMMA LoopIs ==
  ASSUME NEW list \in BuildLists, NEW onUnsupported \in {"flag", "skip"},
         NEW built, built = Loop(list, onUnsupported)
  PROVE  /\ Len(list) \in Nat
         /\ Build(list, onUnsupported) = built[Len(list)]
         /\ built[0] = NoTestbed
         /\ \A n \in 0..Len(list) : built[n] \in Testbeds(EntriesFor(list), ReportsFor(list))
         /\ \A n \in 1..Len(list) :
              /\ list[n] \in DOMAIN DeviceRow
              /\ IsTurn(built[n - 1], DeviceRow[list[n]], EntryFor(list[n]), onUnsupported, built[n])
<1> DEFINE devices == [i \in DOMAIN list |-> DeviceRow[list[i]]]
           credentialOf == [d \in DOMAIN DeviceRow |-> ResolveCredential(d)]
           D == {DeviceRow[d] : d \in DOMAIN DeviceRow}
           N == Len(list)
           s == started["worker"]
           X == Testbeds(EntriesFor(list), ReportsFor(list))
<1>1. list \in Seq(DOMAIN DeviceRow)
  BY CredentialAssumption
<1>2. N \in Nat /\ \A n \in 1..N : list[n] \in DOMAIN DeviceRow
  BY <1>1
<1>3. devices \in Seq(D) /\ Len(devices) = N /\ \A n \in 1..N : devices[n] = DeviceRow[list[n]]
  BY <1>1
<1>4. \A n \in 1..N : credentialOf[devices[n].pk] = ResolveCredential(list[n])
  <2>1. \A n \in 1..N : devices[n].pk = list[n]
    BY <1>2, <1>3, CredentialAssumption
  <2> HIDE DEF devices
  <2> QED
    BY <1>2, <2>1
<1>5. /\ Build(list, onUnsupported) = BuildTestbed(devices, credentialOf, s, onUnsupported)
      /\ built = Built(devices, credentialOf, s, onUnsupported)
  BY DEF Build, Loop
<1> HIDE DEF devices, credentialOf, D, s, N
<1>6. \A n \in 1..N : EntryOf(devices, credentialOf, s, n) = EntryFor(list[n])
  BY <1>3, <1>4 DEF EntryOf, EntryFor, s
<1>7. /\ BuildTestbed(devices, credentialOf, s, onUnsupported) = built[N]
      /\ built[0] = NoTestbed
      /\ \A n \in 1..N :
           built[n] = AddNext(built[n - 1], devices[n], credentialOf[devices[n].pk], s, onUnsupported)
      /\ \A n \in 0..N : built[n] \in TestbedsOf(devices, credentialOf, s)
  BY <1>3, <1>5, BuiltIsDefined
<1>8. TestbedsOf(devices, credentialOf, s) = X
  <2>1. {EntryOf(devices, credentialOf, s, i) : i \in 1..N} = EntriesFor(list)
    BY <1>6 DEF EntriesFor, N
  <2>2. {Report(devices[i], reason) : i \in 1..N, reason \in Reasons} = ReportsFor(list)
    BY <1>3 DEF ReportsFor, N
  <2>3. TestbedsOf(devices, credentialOf, s) =
          Testbeds({EntryOf(devices, credentialOf, s, i) : i \in 1..N},
                   {Report(devices[i], reason) : i \in 1..N, reason \in Reasons})
    BY <1>3 DEF TestbedsOf
  <2> QED
    BY <2>1, <2>2, <2>3
<1>9. ASSUME NEW n \in 1..N
      PROVE  IsTurn(built[n - 1], DeviceRow[list[n]], EntryFor(list[n]), onUnsupported, built[n])
  <2>1. built[n] = AddNext(built[n - 1], DeviceRow[list[n]], ResolveCredential(list[n]), s, onUnsupported)
    BY <1>3, <1>4, <1>7
  <2>2. built[n - 1] \in X
    BY <1>2, <1>7, <1>8
  <2>3. BuildDeviceEntry(DeviceRow[list[n]], ResolveCredential(list[n]), s) = EntryFor(list[n])
    BY DEF EntryFor, s
  <2>4. EntryFor(list[n]) \in EntriesFor(list)
    BY DEF EntriesFor, N
  <2>5. \A reason \in Reasons : Report(DeviceRow[list[n]], reason) \in ReportsFor(list)
    BY DEF ReportsFor, N
  <2> QED
    BY <2>1, <2>2, <2>3, <2>4, <2>5, AddNextIs
<1> QED
  BY <1>2, <1>5, <1>7, <1>8, <1>9 DEF N

\* ... which has covered the devices it has seen, unless one of them raised.
LEMMA LoopCovers ==
  ASSUME NEW list \in BuildLists, NEW onUnsupported \in {"flag", "skip"},
         NEW built, built = Loop(list, onUnsupported)
  PROVE  \A n \in 0..Len(list) :
           IF built[n].raised
             THEN \E i \in 1..n : /\ ~Skipped(DeviceRow[list[i]], onUnsupported)
                                  /\ EntryFor(list[i]).password = Raises
             ELSE Covers(built[n], list, n, onUnsupported)
<1> DEFINE N == Len(list)
           E == EntriesFor(list)
           R == ReportsFor(list)
           Good(n) == IF built[n].raised
                        THEN \E i \in 1..n : /\ ~Skipped(DeviceRow[list[i]], onUnsupported)
                                             /\ EntryFor(list[i]).password = Raises
                        ELSE Covers(built[n], list, n, onUnsupported)
           P == {n \in Nat : n \in 0..N => Good(n)}
<1>1. /\ N \in Nat /\ built[0] = NoTestbed
      /\ \A n \in 0..N : built[n] \in Testbeds(E, R)
      /\ \A n \in 1..N :
           /\ list[n] \in DOMAIN DeviceRow
           /\ IsTurn(built[n - 1], DeviceRow[list[n]], EntryFor(list[n]), onUnsupported, built[n])
  BY LoopIs
<1>2. \A n \in 1..N :
        EntryFor(list[n]) \in E /\ \A reason \in Reasons : Report(DeviceRow[list[n]], reason) \in R
  BY DEF EntriesFor, ReportsFor
<1> HIDE DEF N, E, R
<1>3. Good(0)
  <2>1. /\ ~built[0].raised /\ built[0].entries = <<>>
        /\ built[0].supported = <<>> /\ built[0].unsupported = <<>>
    BY <1>1 DEF NoTestbed
  <2>2. \A d : Count(d, <<>>) = 0 /\ Cardinality(Listed(list, 0, d)) = 0
    <3>1. \A d : {i \in DOMAIN <<>> : (<<>>)[i].pk = d} = {} /\ Listed(list, 0, d) = {}
      BY DEF Listed
    <3> QED
      BY <3>1, FS_EmptySet DEF Count
  <2>3. Counts(built[0], list, 0)
    BY <2>1, <2>2 DEF Counts
  <2>4. NamesOf(<<>>) = {} /\ {DeviceDisplayName(DeviceRow[list[i]]) : i \in 1..0} = {}
    BY DEF NamesOf
  <2>5. HasNames(built[0], list, 0, onUnsupported)
    BY <2>1, <2>4, FS_EmptySet DEF HasNames
  <2>6. DOMAIN built[0].supported = {}
    BY <2>1
  <2> QED
    BY <2>1, <2>3, <2>5, <2>6 DEF Covers
<1>4. ASSUME NEW n \in Nat, n \in P PROVE n + 1 \in P
  <2> SUFFICES ASSUME n + 1 \in 0..N PROVE Good(n + 1)
    OBVIOUS
  <2>1. n \in 0..N /\ n + 1 \in 1..N /\ (n + 1) - 1 = n /\ Good(n)
    BY <1>1, <1>4
  <2>2. /\ built[n] \in Testbeds(E, R) /\ built[n + 1] \in Testbeds(E, R)
        /\ list[n + 1] \in DOMAIN DeviceRow
        /\ IsTurn(built[n], DeviceRow[list[n + 1]], EntryFor(list[n + 1]), onUnsupported, built[n + 1])
        /\ EntryFor(list[n + 1]) \in E
        /\ \A reason \in Reasons : Report(DeviceRow[list[n + 1]], reason) \in R
    BY <1>1, <1>2, <2>1
  <2>3. CASE built[n].raised
    <3>1. built[n + 1] = built[n]
      BY <2>2, <2>3 DEF IsTurn
    <3>2. PICK i \in 1..n : /\ ~Skipped(DeviceRow[list[i]], onUnsupported)
                            /\ EntryFor(list[i]).password = Raises
      BY <2>1, <2>3
    <3> QED
      BY <2>3, <3>1, <3>2
  <2>4. CASE ~built[n].raised /\ built[n + 1].raised
    <3>1. TurnRaises(built[n], DeviceRow[list[n + 1]], EntryFor(list[n + 1]), onUnsupported, built[n + 1])
      BY <2>2, <2>4, OnlyRaisingRaises DEF IsTurn
    <3> QED
      BY <2>4, <3>1 DEF TurnRaises
  <2>5. CASE ~built[n].raised /\ ~built[n + 1].raised
    <3>1. Covers(built[n], list, n, onUnsupported)
      BY <2>1, <2>5
    <3>2. PICK pk \in DOMAIN DeviceRow : pk = list[n + 1]
      BY <2>2
    <3>3. Covers(built[n + 1], list, n + 1, onUnsupported)
      BY <2>2, <2>5, <3>1, <3>2, TurnCovers
    <3> QED
      BY <2>5, <3>3
  <2> QED
    BY <2>3, <2>4, <2>5
<1>5. 0 \in P
  BY <1>3
<1> HIDE DEF P, Good
<1>6. Nat \subseteq P
  BY <1>4, <1>5, Induction
<1> QED
  BY <1>1, <1>6 DEF P, Good, N

LEMMA BuildCovers == ReportCoversDevices
<1> DEFINE Right(list, onUnsupported, tb) ==
             IF tb.raised
               THEN \E i \in DOMAIN list : Build(<<list[i]>>, onUnsupported).raised
               ELSE /\ Total(tb) = Len(list)
                    /\ \A d \in ToSet(list) :
                         /\ Count(d, tb.supported) + Count(d, tb.unsupported)
                              = Cardinality({i \in DOMAIN list : list[i] = d})
                         /\ Count(d, tb.supported) = 1 =>
                              \E i \in DOMAIN tb.entries :
                                tb.entries[i].pk = d /\ tb.entries[i].name = DeviceDisplayName(DeviceRow[d])
                    /\ Cardinality(NamesOf(tb.entries)) = Len(tb.entries)
                    /\ onUnsupported = "flag" =>
                         NamesOf(tb.entries) = {DeviceDisplayName(DeviceRow[d]) : d \in ToSet(list)}
                    /\ Ok(tb) => \E i \in DOMAIN tb.entries : IsSupportedOs(tb.entries[i].os)
<1>0. ReportCoversDevices <=>
        \A list \in BuildLists, onUnsupported \in {"flag", "skip"} :
          Right(list, onUnsupported, Build(list, onUnsupported))
  BY Zenon DEF ReportCoversDevices, NamesOf
<1> HIDE DEF Right
<1> SUFFICES ASSUME NEW list \in BuildLists, NEW onUnsupported \in {"flag", "skip"},
                    NEW tb, tb = Build(list, onUnsupported)
             PROVE  Right(list, onUnsupported, tb)
  BY <1>0
<1> USE DEF Right
<1>1. PICK N \in Nat : N = Len(list) /\ DOMAIN list = 1..N
  BY CredentialAssumption
<1>2. PICK built : built = Loop(list, onUnsupported)
  OBVIOUS
<1>3. /\ tb = built[N] /\ tb \in Testbeds(EntriesFor(list), ReportsFor(list))
      /\ \A i \in 1..N : list[i] \in DOMAIN DeviceRow
  BY <1>1, <1>2, LoopIs
<1>4. IF tb.raised
        THEN \E i \in 1..N : /\ ~Skipped(DeviceRow[list[i]], onUnsupported)
                             /\ EntryFor(list[i]).password = Raises
        ELSE Covers(tb, list, N, onUnsupported)
  BY <1>1, <1>2, <1>3, LoopCovers
<1>5. CASE tb.raised
  <2>1. PICK i \in 1..N : /\ ~Skipped(DeviceRow[list[i]], onUnsupported)
                          /\ EntryFor(list[i]).password = Raises
    BY <1>4, <1>5
  <2>2. Build(<<list[i]>>, onUnsupported).raised
    BY <1>3, <2>1, BuildOne DEF EntryFor
  <2> QED
    BY <1>1, <1>5, <2>2
<1>6. CASE ~tb.raised
  <2>1. /\ Counts(tb, list, N) /\ HasNames(tb, list, N, onUnsupported)
        /\ \A i \in DOMAIN tb.supported : HasEntry(tb, tb.supported[i].pk)
    BY <1>4, <1>6 DEF Covers
  <2>2. Total(tb) = Len(list)
    BY <1>1, <2>1 DEF Counts, Total
  <2>3. \A d : {i \in DOMAIN list : list[i] = d} = Listed(list, N, d)
    BY <1>1 DEF Listed
  <2>4. \A d : Count(d, tb.supported) + Count(d, tb.unsupported) = Cardinality(Listed(list, N, d))
    BY <2>1 DEF Counts
  <2>5. ASSUME NEW d, Count(d, tb.supported) = 1
        PROVE  HasEntry(tb, d)
    <3>1. {i \in DOMAIN tb.supported : tb.supported[i].pk = d} # {}
      BY <2>5, FS_EmptySet DEF Count
    <3> QED
      BY <2>1, <3>1
  <2>6. {DeviceDisplayName(DeviceRow[list[i]]) : i \in 1..N} =
          {DeviceDisplayName(DeviceRow[d]) : d \in ToSet(list)}
    BY <1>1 DEF ToSet
  <2>7. Ok(tb) => \E i \in DOMAIN tb.entries : IsSupportedOs(tb.entries[i].os)
    <3>1. tb.supported \in Seq(ReportsFor(list))
      BY <1>3 DEF Testbeds
    <3>2. Ok(tb) => 1 \in DOMAIN tb.supported
      BY <3>1 DEF Ok
    <3> QED
      BY <2>1, <3>2 DEF HasEntry
  <2>8. /\ Cardinality(NamesOf(tb.entries)) = Len(tb.entries)
        /\ onUnsupported = "flag" =>
             NamesOf(tb.entries) = {DeviceDisplayName(DeviceRow[d]) : d \in ToSet(list)}
    BY <2>1, <2>6 DEF HasNames
  <2>9. \A d \in ToSet(list) :
          /\ Count(d, tb.supported) + Count(d, tb.unsupported)
               = Cardinality({i \in DOMAIN list : list[i] = d})
          /\ Count(d, tb.supported) = 1 =>
               \E i \in DOMAIN tb.entries :
                 tb.entries[i].pk = d /\ tb.entries[i].name = DeviceDisplayName(DeviceRow[d])
    BY <2>3, <2>4, <2>5, Zenon DEF HasEntry
  <2> QED
    BY <1>6, <2>2, <2>7, <2>8, <2>9, Zenon
<1> QED
  BY <1>5, <1>6

LEMMA WebCredentialInv == Spec => []CredentialInv
<1>1. Init => CredentialInv
  BY CredentialInvInit DEF Init
<1>2. CredentialInv /\ [Next]_webVars => CredentialInv'
  <2> SUFFICES ASSUME CredentialInv, [Next]_webVars PROVE CredentialInv'
    OBVIOUS
  <2>1. [CredentialNext]_credentialVars
    BY DEF Next, webVars
  <2> QED
    BY <2>1, CredentialInvStep
<1> QED
  BY <1>1, <1>2, PTL DEF Spec

\* A testbed of build_testbed logs in with the password that was typed last for
\* the credential it resolves to, or the build refuses, and it does not refuse
\* once both processes run the key it was typed with: whatever edits, calls, key
\* changes and restarts came between, but for the updates that overtook it.
THEOREM LastPasswordAlways == Spec => []LastPasswordOrRefused
BY WebCredentialInv, CredentialInvResolves, PTL

\* The report of build_testbed accounts for every device of any list once for
\* each time it is listed, and names one entry for each it calls supported.
THEOREM ReportsAlwaysCover == Spec => []ReportCoversDevices
BY BuildCovers, PTL
=============================================================================
