----------------------------- MODULE CaptureEngine -----------------------------
(***************************************************************************)
(* The capture engine: one call of capture_snapshot_for_netbox_device,     *)
(* from the testbed to the result the calling job stores.                  *)
(* Source: capture.py; testbed.py, for the one device of the testbed;      *)
(* crypto.py, for a credential that cannot be decrypted.                   *)
(*                                                                         *)
(* Each request to the device is one action, which the device may answer   *)
(* or fail. What an answer holds is left out, up to whether there is       *)
(* anything in it and whether Python counts it as empty, which decides the *)
(* status. A worker's job timeout raises inside a request like any other   *)
(* failure, and between two of them.                                       *)
(***************************************************************************)
EXTENDS Naturals, Sequences, SequencesExt

CONSTANTS
  Commands,      \* commands a device may be asked to run and parse
  Features,      \* Genie Ops features
  ParseLists,    \* what an operator may ask to parse
  StateLists,    \* what STATE_COMMANDS or the configuration may name
  FeatureLists,  \* what Genie may discover for the device
  Resolver       \* the credential resolver passed: "none" or "device"

ASSUME CaptureAssumption ==
  /\ Commands \cap Features = {}
  /\ ParseLists \subseteq Seq(Commands)
  /\ StateLists \subseteq Seq(Commands)
  /\ FeatureLists \subseteq Seq(Features)
  /\ Resolver \in {"none", "device"}

VARIABLES
  platform,    \* whether the platform's slug maps to a pyATS os
  credential,  \* the device's credential
  kind,        \* the kind of capture
  asked,       \* the commands this capture runs
  pc,          \* where the call is
  todo,        \* the commands or features still to run
  text,        \* raw_text, the running configuration as text
  found,       \* the local dictionary of answers, by command or feature
  data,        \* data of the CaptureResult
  warnings,    \* its warnings
  result,      \* its status, or "raised"
  connection   \* the connection to the device

inputVars == <<platform, credential, kind>>
vars == <<inputVars, asked, pc, todo, text, found, data, warnings, result, connection>>
-----------------------------------------------------------------------------
(* Types *)

SnapshotKinds == {"config", "state", "full", "parse", "learn"}
Requests == Commands \cup Features

\* "skipped" is the None of a command without a parser. "blank" is an answer
\* with nothing in it, an empty dictionary or a raw text that is empty: the
\* dictionary of answers has its key, which is all that Python asks.
Answers == {"absent", "content", "blank", "skipped"}
NoAnswers == [r \in Requests |-> "absent"]

\* "lost" and "empty" are both the empty string: the request failed, or the
\* device had nothing to say.
Texts == {"none", "lost", "empty", "text"}

\* "fallback" holds the text, be it empty, and _parser_error: it is never falsy.
\* "none" and "empty" are.
Configs == {"none", "empty", "parsed", "fallback"}
Payloads == [config: Configs, config_raw: Texts, answers: [Requests -> Answers]]
NoPayload == [config |-> "none", config_raw |-> "none", answers |-> NoAnswers]

\* A warning names the request or the section that failed.
Sections == {"platform", "connection", "capture", "raw", "config", "state", "parse",
             "learn", "no data"}

CallStates ==
  {"build", "connect", "check", "config", "config_parse", "config_again", "state",
   "state_run", "parse_run", "parse_execute", "learn", "learn_run", "assess",
   "disconnect", "returned"}
Results == {"none", "success", "error", "unsupported", "raised"}

TypeOK ==
  /\ platform \in {"mapped", "unmapped"}
  /\ credential \in {"none", "valid", "undecryptable"}
  /\ kind \in SnapshotKinds
  /\ asked \in Seq(Commands)
  /\ pc \in CallStates
  /\ todo \in Seq(Requests)
  /\ text \in Texts
  /\ found \in [Requests -> Answers]
  /\ data \in Payloads
  /\ warnings \subseteq Sections \cup Requests
  /\ result \in Results
  /\ connection \in {"none", "up", "down", "abandoned"}

Init ==
  /\ platform \in {"mapped", "unmapped"}
  /\ credential \in {"none", "valid", "undecryptable"}
  /\ kind \in SnapshotKinds
  /\ asked \in IF kind = "parse" THEN ParseLists ELSE {<<>>}
  /\ pc = "build"
  /\ todo = <<>>
  /\ text = "none"
  /\ found = NoAnswers
  /\ data = NoPayload
  /\ warnings = {}
  /\ result = "none"
  /\ connection = "none"
-----------------------------------------------------------------------------
(* The testbed and the connection *)

Goto(state) == pc' = state
Warn(ws) == warnings' = warnings \cup ws

\* The call ends; a return or a raise inside the try passes the finally first.
End(state, status, ws, payload) ==
  /\ Goto(state)
  /\ result' = status
  /\ warnings' = ws
  /\ data' = payload
  /\ UNCHANGED <<inputVars, asked, todo, text, found>>

\* build_testbed calls the resolver it is given, and decrypts the credential
\* before the platform is considered.
BuildRaises ==
  \/ Resolver = "none"
  \/ credential = "undecryptable"

BuildFails ==
  /\ pc = "build"
  /\ BuildRaises
  /\ End("returned", "raised", {}, NoPayload)
  /\ UNCHANGED connection

UnsupportedPlatform ==
  /\ pc = "build"
  /\ ~BuildRaises
  /\ platform = "unmapped"
  /\ End("returned", "unsupported", {"platform"}, NoPayload)
  /\ UNCHANGED connection

BuildTestbedAnyPlatform ==
  /\ pc = "build"
  /\ ~BuildRaises
  /\ Goto("connect")
  /\ UNCHANGED <<inputVars, asked, todo, text, found, data, warnings, result, connection>>

BuildTestbed ==
  /\ pc = "build"
  /\ ~BuildRaises
  /\ platform = "mapped"
  /\ Goto("connect")
  /\ UNCHANGED <<inputVars, asked, todo, text, found, data, warnings, result, connection>>

\* Unicon raises: the capture takes the device as not connected.
ConnectFails ==
  /\ pc = "connect"
  /\ End("returned", "error", {"connection"}, NoPayload)
  /\ UNCHANGED connection

Connect ==
  /\ pc = "connect"
  /\ connection' = "up"
  /\ Goto("check")
  /\ UNCHANGED <<inputVars, asked, todo, text, found, data, warnings, result>>

\* capture_snapshot checks its arguments on the connected device.
FirstSection ==
  CASE kind \in {"config", "full"} -> "config"
    [] kind = "state" -> "state"
    [] kind = "parse" -> "parse_run"
    [] kind = "learn" -> "learn"

CheckArguments ==
  /\ pc = "check"
  /\ kind = "parse" => asked # <<>>
  /\ Goto(FirstSection)
  /\ todo' = IF kind = "parse" THEN asked ELSE todo
  /\ UNCHANGED <<inputVars, asked, text, found, data, warnings, result, connection>>

BadArgumentsOutsideTry ==
  /\ pc = "check"
  /\ kind = "parse"
  /\ asked = <<>>
  /\ End("returned", "raised", {}, NoPayload)
  /\ UNCHANGED connection

BadArguments ==
  /\ pc = "check"
  /\ kind = "parse"
  /\ asked = <<>>
  /\ End("disconnect", "raised", {}, NoPayload)
  /\ UNCHANGED connection
-----------------------------------------------------------------------------
(* kind "config" and "full": _capture_config *)

AfterConfig == IF kind = "full" THEN "state" ELSE "assess"

\* The section is done: what it found is stored, and the warnings are ws.
StoreConfig(config, raw, ws) ==
  /\ Goto(AfterConfig)
  /\ data' = [data EXCEPT !.config = config, !.config_raw = raw]
  /\ warnings' = ws
  /\ UNCHANGED <<inputVars, asked, todo, found, result, connection>>

\* _capture_config itself raises: the connection plugins cannot be imported, or
\* the job's timeout strikes outside its tries. Its own warnings go with it.
ConfigSectionFails ==
  /\ pc \in {"config", "config_parse", "config_again"}
  /\ text' = "lost"
  /\ StoreConfig("empty", "lost", {"config"})

ReadConfigText ==
  /\ pc = "config"
  /\ Goto("config_parse")
  /\ text' \in {"empty", "text"}
  /\ UNCHANGED <<inputVars, asked, todo, found, data, warnings, result, connection>>

ReadConfigTextFailsSilently ==
  /\ pc = "config"
  /\ Goto("config_parse")
  /\ text' = "lost"
  /\ UNCHANGED <<inputVars, asked, todo, found, data, warnings, result, connection>>

ReadConfigTextFails ==
  /\ pc = "config"
  /\ Goto("config_parse")
  /\ text' = "lost"
  /\ Warn({"raw"})
  /\ UNCHANGED <<inputVars, asked, todo, found, data, result, connection>>

ParseConfig ==
  /\ pc = "config_parse"
  /\ \E config \in {"empty", "parsed"} : StoreConfig(config, text, warnings)
  /\ UNCHANGED text

ParseConfigFails ==
  /\ pc = "config_parse"
  /\ \/ /\ text = "text"
        /\ StoreConfig("fallback", text, warnings)
     \/ /\ text # "text"
        /\ Goto("config_again")
        /\ UNCHANGED <<inputVars, asked, todo, found, data, warnings, result, connection>>
  /\ UNCHANGED text

\* Without a text yet, it is asked for once more.
ReadConfigAgain ==
  /\ pc = "config_again"
  /\ text' \in {"empty", "text"}
  /\ StoreConfig("fallback", text', warnings)

ReadConfigAgainFails ==
  /\ pc = "config_again"
  /\ StoreConfig("empty", text, warnings \cup {"config"})
  /\ UNCHANGED text
-----------------------------------------------------------------------------
(* kind "state" and "full": _capture_state *)

\* Every command of the list is one request; the last answer is kept.
Answered(answer) ==
  /\ found' = [found EXCEPT ![Head(todo)] = answer]
  /\ todo' = Tail(todo)

DeviceAnswers == \E answer \in {"content", "blank"} : Answered(answer)

StoreAnswers(answers, ws) ==
  /\ Goto("assess")
  /\ data' = [data EXCEPT !.answers = answers]
  /\ warnings' = ws
  /\ UNCHANGED <<inputVars, asked, todo, text, found, result, connection>>

ResolveStateCommands ==
  /\ pc = "state"
  /\ asked' \in StateLists
  /\ todo' = asked'
  /\ Goto("state_run")
  /\ UNCHANGED <<inputVars, text, found, data, warnings, result, connection>>

RunStateCommand ==
  /\ pc = "state_run"
  /\ todo # <<>>
  /\ DeviceAnswers \/ Answered("skipped")
  /\ UNCHANGED <<inputVars, asked, pc, text, data, warnings, result, connection>>

\* Anything but a missing parser gives the whole section up, a timeout between
\* two commands or after the last one too.
StateSectionFails ==
  /\ pc = "state_run"
  /\ StoreAnswers(NoAnswers, warnings \cup {"state"})

SkippedUnnamed == {found[r] : r \in Requests}

Skipped == {r \in Requests : found[r] = "skipped"}

StateDone ==
  /\ pc = "state_run"
  /\ todo = <<>>
  /\ StoreAnswers(found, warnings \cup Skipped)
-----------------------------------------------------------------------------
(* kind "parse": _capture_parse *)

ParseCommand ==
  /\ pc = "parse_run"
  /\ todo # <<>>
  /\ DeviceAnswers
  /\ UNCHANGED <<inputVars, asked, pc, text, data, warnings, result, connection>>

GiveUpSilently ==
  /\ todo' = Tail(todo)
  /\ Goto("parse_run")
  /\ UNCHANGED <<inputVars, asked, text, found, data, warnings, result, connection>>

\* A failing command is warned of; the others are run.
GiveUpCommand ==
  /\ Warn({Head(todo)})
  /\ todo' = Tail(todo)
  /\ Goto("parse_run")
  /\ UNCHANGED <<inputVars, asked, text, found, data, result, connection>>

ParseCommandFails ==
  /\ pc = "parse_run"
  /\ todo # <<>>
  /\ GiveUpCommand

ParserMissing ==
  /\ pc = "parse_run"
  /\ todo # <<>>
  /\ Goto("parse_execute")
  /\ UNCHANGED <<inputVars, asked, todo, text, found, data, warnings, result, connection>>

ExecuteCommand ==
  /\ pc = "parse_execute"
  /\ DeviceAnswers
  /\ Goto("parse_run")
  /\ UNCHANGED <<inputVars, asked, text, data, warnings, result, connection>>

ExecuteCommandFails ==
  /\ pc = "parse_execute"
  /\ GiveUpCommand

ParseDone ==
  /\ pc = "parse_run"
  /\ todo = <<>>
  /\ StoreAnswers(found, warnings)

\* A timeout between two commands: what they found and warned of goes with it.
ParseSectionFails ==
  /\ pc = "parse_run"
  /\ StoreAnswers(NoAnswers, {"parse"})
-----------------------------------------------------------------------------
(* kind "learn": _capture_learn and _discover_ops_features *)

\* Genie cannot be imported, the lookup fails or raises, or finds nothing.
LearnFails ==
  /\ pc = "learn"
  /\ StoreAnswers(NoAnswers, warnings \cup {"learn"})

DiscoverFeatures ==
  /\ pc = "learn"
  /\ todo' \in FeatureLists \ {<<>>}
  /\ Goto("learn_run")
  /\ UNCHANGED <<inputVars, asked, text, found, data, warnings, result, connection>>

LearnFeature ==
  /\ pc = "learn_run"
  /\ todo # <<>>
  /\ DeviceAnswers
  /\ UNCHANGED <<inputVars, asked, pc, text, data, warnings, result, connection>>

\* No payload, or the feature raises; an AttributeError is passed over.
LearnFeatureFails ==
  /\ pc = "learn_run"
  /\ todo # <<>>
  /\ todo' = Tail(todo)
  /\ \E ws \in {{}, {Head(todo)}} : Warn(ws)
  /\ UNCHANGED <<inputVars, asked, pc, text, found, data, result, connection>>

LearnDone ==
  /\ pc = "learn_run"
  /\ todo = <<>>
  /\ StoreAnswers(found, warnings)

\* A timeout between two features.
LearnSectionFails ==
  /\ pc = "learn_run"
  /\ StoreAnswers(NoAnswers, {"learn"})
-----------------------------------------------------------------------------
(* The result *)

HasConfig == data.config \notin {"none", "empty"}
HasAnswers == data.answers # NoAnswers

NoDataForConfigs == kind \in {"config", "full"} /\ ~HasConfig /\ ~HasAnswers

\* An empty payload is an error; of a full capture, both halves.
NoData ==
  CASE kind = "full" -> ~HasConfig /\ ~HasAnswers
    [] kind = "config" -> ~HasConfig
    [] OTHER -> ~HasAnswers

ExplainedByOthers == warnings

Explained == IF warnings = {} THEN {"no data"} ELSE warnings

Assess ==
  /\ pc = "assess"
  /\ IF NoData
       THEN End("disconnect", "error", Explained, data)
       ELSE End("disconnect", "success", warnings, data)
  /\ UNCHANGED connection

\* The job's timeout raises between the sections or after the last one, still
\* inside the try that guards them as a whole.
Interrupted ==
  /\ pc \in {"config", "state", "learn", "assess"}
  /\ End("disconnect", "error", {"capture"}, NoPayload)
  /\ UNCHANGED connection

\* It raises before or after that try.
InterruptedOutside ==
  /\ pc \in {"check", "assess"}
  /\ End("disconnect", "raised", {}, NoPayload)
  /\ UNCHANGED connection

\* The finally.
Disconnect ==
  /\ pc = "disconnect"
  /\ connection' = "down"
  /\ Goto("returned")
  /\ UNCHANGED <<inputVars, asked, todo, text, found, data, warnings, result>>
\* A failure to disconnect is swallowed, the connection left to itself.
DisconnectFails ==
  /\ pc = "disconnect"
  /\ connection' = "abandoned"
  /\ Goto("returned")
  /\ UNCHANGED <<inputVars, asked, todo, text, found, data, warnings, result>>
-----------------------------------------------------------------------------
Testbed == BuildFails \/ UnsupportedPlatform \/ BuildTestbed
Connection ==
  ConnectFails \/ Connect \/ CheckArguments \/ BadArguments \/ Disconnect \/ DisconnectFails
ConfigSection ==
  \/ ConfigSectionFails \/ ReadConfigText \/ ReadConfigTextFails
  \/ ParseConfig \/ ParseConfigFails \/ ReadConfigAgain \/ ReadConfigAgainFails
StateSection == ResolveStateCommands \/ RunStateCommand \/ StateDone \/ StateSectionFails
ParseSection ==
  \/ ParseCommand \/ ParseCommandFails \/ ParserMissing
  \/ ExecuteCommand \/ ExecuteCommandFails \/ ParseDone \/ ParseSectionFails
LearnSection ==
  \/ DiscoverFeatures \/ LearnFails \/ LearnFeature \/ LearnFeatureFails
  \/ LearnDone \/ LearnSectionFails

Next ==
  \/ Testbed \/ Connection
  \/ ConfigSection \/ StateSection \/ ParseSection \/ LearnSection
  \/ Assess \/ Interrupted \/ InterruptedOutside

Spec == Init /\ [][Next]_vars
-----------------------------------------------------------------------------
(* Properties *)

Returned == pc = "returned"

\* A capture that did not succeed says why, whatever failed and in whichever
\* order: the warnings of an error or unsupported row are never empty
\* (capture_snapshot, capture_snapshot_for_netbox_device).
FailureExplained ==
  Returned /\ result \in {"error", "unsupported"} => warnings # {}

\* What a reader of the row finds in it.
HoldsConfig == data.config = "parsed" \/ data.config_raw = "text"
HoldsAnswer == \E r \in Requests : data.answers[r] = "content"

\* The configuration was empty, its parser failed on it, and its second reading
\* was empty too: of this failure the code does not warn.
BlankFallback == data.config = "fallback" /\ data.config_raw = "empty"

\* A green row without a warning and with nothing in it is what the device
\* answered, never what got lost: there is an answer, and all that was asked has
\* a blank one. The one failure it may hide is BlankFallback (capture_snapshot).
NoSilentEmptySuccess ==
  Returned /\ result = "success" /\ warnings = {} /\ ~HoldsConfig /\ ~HoldsAnswer =>
    /\ BlankFallback \/ \E r \in Requests : data.answers[r] = "blank"
    /\ \A c \in ToSet(asked) : data.answers[c] = "blank"

\* No command is lost in silence: each one that was to run was answered or is
\* warned of, by itself or with its section (_capture_state, _capture_parse).
EveryCommandAccounted ==
  Returned /\ result \in {"success", "error"} /\ warnings \cap {"connection", "capture"} = {} =>
    \A c \in ToSet(asked) :
      data.answers[c] \in {"content", "blank"} \/ warnings \cap {c, "state", "parse"} # {}

\* A running configuration that could not be read is warned of, though the
\* capture succeeds with the parser's half: compliance would find it empty
\* later (_capture_config).
LostTextWarned ==
  Returned /\ data.config_raw = "lost" => warnings \cap {"raw", "config"} # {}

\* No connection is left open without an attempt to close it, also when the
\* capture raises or is interrupted. A failure of the attempt is swallowed
\* (capture_snapshot_for_netbox_device).
AlwaysDisconnects == Returned => connection # "up"

\* A device without a parser, or whose credential cannot be read, is never
\* connected to (build_testbed, _build_device_entry).
OnlyReadyDevicesDialled ==
  connection # "none" => platform = "mapped" /\ credential # "undecryptable"

\* A device whose platform Genie does not know gets the result "unsupported"
\* (capture_snapshot_for_netbox_device).
UnsupportedIsReported ==
  Returned /\ platform = "unmapped" => result = "unsupported"
==============================================================================
