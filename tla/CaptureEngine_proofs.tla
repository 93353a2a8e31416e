-------------------------- MODULE CaptureEngine_proofs --------------------------
(***************************************************************************)
(* Proofs about CaptureEngine, for any commands, features and lists of     *)
(* them, and with or without a credential resolver.                        *)
(***************************************************************************)
EXTENDS CaptureEngine, TLAPS

USE DEF vars, inputVars
-----------------------------------------------------------------------------
(* Sequences *)

LEMMA HeadOrTail ==
  ASSUME NEW S, NEW s \in Seq(S), s # <<>>
  PROVE  /\ Head(s) \in S
         /\ Tail(s) \in Seq(S)
         /\ \A x \in ToSet(s) : x = Head(s) \/ x \in ToSet(Tail(s))
<1>1. Head(s) \in S /\ Tail(s) \in Seq(S)
  OBVIOUS
<1>2. ASSUME NEW x \in ToSet(s), x # Head(s) PROVE x \in ToSet(Tail(s))
  <2>1. PICK i \in 1..Len(s) : s[i] = x
    BY DEF ToSet
  <2>2. i - 1 \in DOMAIN Tail(s) /\ Tail(s)[i - 1] = x
    BY <1>2, <2>1
  <2>3. QED BY <2>2 DEF ToSet
<1>3. QED BY <1>1, <1>2

LEMMA EmptySequence == ToSet(<<>>) = {}
BY DEF ToSet

LEMMA CommandLists ==
  ASSUME NEW s \in ParseLists \cup StateLists
  PROVE  s \in Seq(Commands) /\ s \in Seq(Requests)
BY CaptureAssumption DEF Requests

LEMMA LearnedLists ==
  ASSUME NEW s \in FeatureLists PROVE s \in Seq(Requests)
BY CaptureAssumption DEF Requests
-----------------------------------------------------------------------------
(* Type correctness *)

LEMMA PayloadTyped ==
  /\ NoAnswers \in [Requests -> Answers]
  /\ NoPayload \in Payloads
BY DEF NoAnswers, NoPayload, Payloads, Answers, Configs, Texts

LEMMA EndTyped ==
  ASSUME TypeOK, NEW state \in CallStates, NEW status \in Results,
         NEW ws \in SUBSET (Sections \cup Requests), NEW payload \in Payloads,
         End(state, status, ws, payload), connection' \in {"none", "up", "down", "abandoned"}
  PROVE  TypeOK'
BY DEF TypeOK, End, Goto

LEMMA StoreConfigTyped ==
  ASSUME TypeOK, NEW config \in Configs, NEW raw \in Texts,
         NEW ws \in SUBSET (Sections \cup Requests),
         StoreConfig(config, raw, ws), text' \in Texts
  PROVE  TypeOK'
BY DEF TypeOK, StoreConfig, Goto, Warn, AfterConfig, CallStates, Payloads

LEMMA StoreAnswersTyped ==
  ASSUME TypeOK, NEW answers \in [Requests -> Answers],
         NEW ws \in SUBSET (Sections \cup Requests),
         StoreAnswers(answers, ws)
  PROVE  TypeOK'
BY DEF TypeOK, StoreAnswers, Goto, Warn, CallStates, Payloads

LEMMA AnsweredTyped ==
  ASSUME TypeOK, todo # <<>>, NEW answer \in Answers, Answered(answer)
  PROVE  found' \in [Requests -> Answers] /\ todo' \in Seq(Requests)
BY HeadOrTail DEF TypeOK, Answered

LEMMA DeviceAnswersTyped ==
  ASSUME TypeOK, todo # <<>>, DeviceAnswers
  PROVE  found' \in [Requests -> Answers] /\ todo' \in Seq(Requests)
BY AnsweredTyped DEF DeviceAnswers, Answers

LEMMA TestbedTypeOK == ASSUME TypeOK, Testbed \/ Connection PROVE TypeOK'
<1>1. CASE BuildFails \/ UnsupportedPlatform \/ ConnectFails \/ BadArguments
  BY <1>1, EndTyped, PayloadTyped, ZenonT(30)
     DEF BuildFails, UnsupportedPlatform, ConnectFails, BadArguments, CallStates, Results,
         Sections, TypeOK
<1>2. CASE BuildTestbed \/ Connect \/ Disconnect \/ DisconnectFails
  BY <1>2 DEF TypeOK, BuildTestbed, Connect, Disconnect, DisconnectFails, Goto, CallStates
<1>3. CASE CheckArguments
  <2>1. asked \in Seq(Requests)
    BY DEF TypeOK, Requests
  <2>2. FirstSection \in CallStates
    BY DEF FirstSection, CallStates, TypeOK, SnapshotKinds
  <2>3. QED BY <1>3, <2>1, <2>2 DEF TypeOK, CheckArguments, Goto
<1>4. QED BY <1>1, <1>2, <1>3 DEF Testbed, Connection

LEMMA ConfigTypeOK == ASSUME TypeOK, ConfigSection PROVE TypeOK'
<1>1. CASE ConfigSectionFails \/ ParseConfig \/ ReadConfigAgain \/ ReadConfigAgainFails
  BY <1>1, StoreConfigTyped
     DEF ConfigSectionFails, ParseConfig, ReadConfigAgain, ReadConfigAgainFails,
         Configs, Texts, Sections, TypeOK
<1>2. CASE ReadConfigText \/ ReadConfigTextFails
  BY <1>2 DEF TypeOK, ReadConfigText, ReadConfigTextFails, Goto, Warn, CallStates, Texts, Sections
<1>3. CASE ParseConfigFails
  BY <1>3, StoreConfigTyped
     DEF ParseConfigFails, Configs, TypeOK, Goto, CallStates
<1>4. QED BY <1>1, <1>2, <1>3 DEF ConfigSection

LEMMA StateTypeOK == ASSUME TypeOK, StateSection PROVE TypeOK'
<1>1. CASE ResolveStateCommands
  BY <1>1, CommandLists DEF TypeOK, ResolveStateCommands, Goto, CallStates
<1>2. CASE RunStateCommand
  BY <1>2, AnsweredTyped, DeviceAnswersTyped DEF TypeOK, RunStateCommand, Answers
<1>3. CASE StateSectionFails
  BY <1>3, StoreAnswersTyped, PayloadTyped DEF StateSectionFails, Sections, TypeOK
<1>4. CASE StateDone
  BY <1>4, StoreAnswersTyped DEF StateDone, Skipped, TypeOK
<1>5. QED BY <1>1, <1>2, <1>3, <1>4 DEF StateSection

LEMMA GiveUpTyped ==
  ASSUME TypeOK, todo # <<>>, GiveUpCommand PROVE TypeOK'
BY HeadOrTail DEF TypeOK, GiveUpCommand, Warn, Goto, CallStates

LEMMA ParseTypeOK == ASSUME TypeOK, ParseSection, pc = "parse_execute" => todo # <<>> PROVE TypeOK'
<1>1. CASE ParseCommand \/ ExecuteCommand
  BY <1>1, DeviceAnswersTyped
     DEF TypeOK, ParseCommand, ExecuteCommand, Goto, CallStates
<1>2. CASE ParseCommandFails \/ ExecuteCommandFails
  BY <1>2, GiveUpTyped DEF ParseCommandFails, ExecuteCommandFails
<1>3. CASE ParserMissing
  BY <1>3 DEF TypeOK, ParserMissing, Goto, CallStates
<1>4. CASE ParseDone \/ ParseSectionFails
  BY <1>4, StoreAnswersTyped, PayloadTyped DEF ParseDone, ParseSectionFails, Sections, TypeOK
<1>5. QED BY <1>1, <1>2, <1>3, <1>4 DEF ParseSection

LEMMA LearnTypeOK == ASSUME TypeOK, LearnSection PROVE TypeOK'
<1>1. CASE LearnFails
  BY <1>1, StoreAnswersTyped, PayloadTyped DEF LearnFails, Sections, TypeOK
<1>2. CASE DiscoverFeatures
  BY <1>2, LearnedLists DEF TypeOK, DiscoverFeatures, Goto, CallStates
<1>3. CASE LearnFeature
  BY <1>3, DeviceAnswersTyped DEF TypeOK, LearnFeature
<1>4. CASE LearnFeatureFails
  BY <1>4, HeadOrTail DEF TypeOK, LearnFeatureFails, Warn
<1>5. CASE LearnDone \/ LearnSectionFails
  BY <1>5, StoreAnswersTyped, PayloadTyped DEF LearnDone, LearnSectionFails, Sections, TypeOK
<1>6. QED BY <1>1, <1>2, <1>3, <1>4, <1>5 DEF LearnSection

LEMMA ResultTypeOK ==
  ASSUME TypeOK, Assess \/ Interrupted \/ InterruptedOutside PROVE TypeOK'
<1>1. CASE Assess
  <2>1. Explained \in SUBSET (Sections \cup Requests) /\ warnings \in SUBSET (Sections \cup Requests)
    BY DEF Explained, TypeOK, Sections
  <2>2. QED BY <1>1, <2>1, EndTyped DEF Assess, CallStates, Results, TypeOK
<1>2. CASE Interrupted \/ InterruptedOutside
  BY <1>2, EndTyped, PayloadTyped
     DEF Interrupted, InterruptedOutside, CallStates, Results, Sections, TypeOK
<1>3. QED BY <1>1, <1>2

\* A command without a parser is executed while it is still the next one.
Typed == TypeOK /\ (pc = "parse_execute" => todo # <<>>)

LEMMA TypedInit == Init => Typed
<1> SUFFICES ASSUME Init PROVE Typed
  OBVIOUS
<1>1. asked \in Seq(Commands)
  <2>1. asked \in ParseLists \/ asked = <<>>
    BY DEF Init
  <2>2. ASSUME asked \in ParseLists PROVE asked \in Seq(Commands)
    BY <2>2, CommandLists
  <2>3. <<>> \in Seq(Commands)
    OBVIOUS
  <2>4. QED BY <2>1, <2>2, <2>3
<1>2. <<>> \in Seq(Requests)
  OBVIOUS
<1>3. QED
  BY <1>1, <1>2, PayloadTyped DEF Init, Typed, TypeOK, CallStates, Texts, Results

LEMMA TypedStep == Typed /\ [Next]_vars => Typed'
<1> SUFFICES ASSUME Typed, [Next]_vars PROVE Typed'
  OBVIOUS
<1>1. ASSUME Next PROVE TypeOK'
  BY <1>1, TestbedTypeOK, ConfigTypeOK, StateTypeOK, ParseTypeOK, LearnTypeOK, ResultTypeOK
     DEF Next, Typed
<1>2. ASSUME Next, pc' = "parse_execute" PROVE todo' # <<>>
  <2>1. CASE Testbed \/ Connection
    BY <1>2, <2>1
       DEF Testbed, Connection, BuildFails, UnsupportedPlatform, BuildTestbed, ConnectFails,
           Connect, CheckArguments, BadArguments, Disconnect, DisconnectFails, End, Goto, FirstSection,
           Typed, TypeOK, SnapshotKinds
  <2>2. CASE ConfigSection
    BY <1>2, <2>2
       DEF ConfigSection, ConfigSectionFails, ReadConfigText, ReadConfigTextFails, ParseConfig,
           ParseConfigFails, ReadConfigAgain, ReadConfigAgainFails, StoreConfig, Goto, AfterConfig
  <2>3. CASE StateSection \/ LearnSection
    BY <1>2, <2>3
       DEF StateSection, ResolveStateCommands, RunStateCommand, StateSectionFails, StateDone,
           LearnSection, DiscoverFeatures, LearnFails, LearnFeature, LearnFeatureFails,
           LearnDone, LearnSectionFails, StoreAnswers, Goto
  <2>4. CASE ParseSection
    BY <1>2, <2>4
       DEF ParseSection, ParseCommand, ParseCommandFails, ParserMissing, ExecuteCommand,
           ExecuteCommandFails, ParseDone, ParseSectionFails, GiveUpCommand, StoreAnswers, Goto
  <2>5. CASE Assess \/ Interrupted \/ InterruptedOutside
    BY <1>2, <2>5 DEF Assess, Interrupted, InterruptedOutside, End, Goto
  <2>6. QED BY <1>2, <2>1, <2>2, <2>3, <2>4, <2>5 DEF Next
<1>3. CASE UNCHANGED vars
  BY <1>3 DEF Typed, TypeOK
<1>4. QED BY <1>1, <1>2, <1>3 DEF Typed

\* Every behaviour of a capture is well typed.
THEOREM TypeCorrect == Spec => []TypeOK
<1>1. Typed => TypeOK
  BY DEF Typed
<1>2. QED BY <1>1, TypedInit, TypedStep, PTL DEF Spec
-----------------------------------------------------------------------------
(* The connection *)

\* Only a device that is ready gets past the testbed, and a connection is
\* held only between the connecting and the return.
ConnectionInv ==
  /\ pc \notin {"build", "returned"} \/ connection # "none" =>
       platform = "mapped" /\ credential # "undecryptable"
  /\ connection = "up" => pc \notin {"build", "connect", "returned"}

LEMMA ConnectionStep == TypeOK /\ ConnectionInv /\ [Next]_vars => ConnectionInv'
<1> SUFFICES ASSUME TypeOK, ConnectionInv, [Next]_vars PROVE ConnectionInv'
  OBVIOUS
<1> USE DEF ConnectionInv
<1>1. CASE Testbed \/ Connection
  BY <1>1
     DEF Testbed, Connection, BuildFails, UnsupportedPlatform, BuildTestbed, BuildRaises,
         ConnectFails, Connect, CheckArguments, BadArguments, Disconnect, DisconnectFails, End, Goto, FirstSection, TypeOK, SnapshotKinds
<1>2. CASE ConfigSection
  BY <1>2
     DEF ConfigSection, ConfigSectionFails, ReadConfigText, ReadConfigTextFails, ParseConfig,
         ParseConfigFails, ReadConfigAgain, ReadConfigAgainFails, StoreConfig, Goto, AfterConfig
<1>3. CASE StateSection \/ LearnSection
  BY <1>3
     DEF StateSection, ResolveStateCommands, RunStateCommand, StateSectionFails, StateDone,
         LearnSection, DiscoverFeatures, LearnFails, LearnFeature, LearnFeatureFails,
         LearnDone, LearnSectionFails, StoreAnswers, Goto
<1>4. CASE ParseSection
  BY <1>4
     DEF ParseSection, ParseCommand, ParseCommandFails, ParserMissing, ExecuteCommand,
         ExecuteCommandFails, ParseDone, ParseSectionFails, GiveUpCommand, StoreAnswers, Goto
<1>5. CASE Assess \/ Interrupted \/ InterruptedOutside
  BY <1>5 DEF Assess, Interrupted, InterruptedOutside, End, Goto
<1>6. CASE UNCHANGED vars
  BY <1>6
<1>7. QED BY <1>1, <1>2, <1>3, <1>4, <1>5, <1>6 DEF Next

\* A capture gives its connection up before it returns, raises or is
\* interrupted.
THEOREM Disconnected == Spec => []AlwaysDisconnects
<1>1. Init => ConnectionInv
  BY DEF Init, ConnectionInv
<1>2. ConnectionInv => AlwaysDisconnects
  BY DEF ConnectionInv, AlwaysDisconnects, Returned
<1>3. QED BY <1>1, <1>2, ConnectionStep, TypeCorrect, PTL DEF Spec

\* No device without a parser or a readable credential is connected to.
THEOREM ReadyDevices == Spec => []OnlyReadyDevicesDialled
<1>1. Init => ConnectionInv
  BY DEF Init, ConnectionInv
<1>2. ConnectionInv => OnlyReadyDevicesDialled
  BY DEF ConnectionInv, OnlyReadyDevicesDialled
<1>3. QED BY <1>1, <1>2, ConnectionStep, TypeCorrect, PTL DEF Spec
-----------------------------------------------------------------------------
(* The warnings *)

\* The status is set last; what it reports is explained. A lost text is
\* remembered until it is stored, and warned of from the start; the sections
\* that drop the warnings they find run where there is no text.
WarningInv ==
  /\ pc \notin {"disconnect", "returned"} => result = "none"
  /\ result \in {"error", "unsupported"} => warnings # {}
  /\ text = "lost" /\ pc \in {"config_parse", "config_again"} => "raw" \in warnings
  /\ pc \in {"build", "connect", "check", "parse_run", "parse_execute", "learn",
             "learn_run"} => data.config_raw = "none"
  /\ data.config_raw = "lost" => warnings \cap {"raw", "config"} # {}

LEMMA WarningStep == TypeOK /\ WarningInv /\ [Next]_vars => WarningInv'
<1> SUFFICES ASSUME TypeOK, WarningInv, [Next]_vars PROVE WarningInv'
  OBVIOUS
<1> USE DEF WarningInv
<1>1. CASE Testbed \/ Connection
  <2>1. CASE BuildFails \/ UnsupportedPlatform \/ ConnectFails \/ BadArguments
    BY <2>1
       DEF BuildFails, UnsupportedPlatform, ConnectFails, BadArguments, End, Goto, NoPayload
  <2>2. CASE BuildTestbed \/ Connect \/ Disconnect \/ DisconnectFails
    BY <2>2 DEF BuildTestbed, Connect, Disconnect, DisconnectFails, Goto
  <2>3. CASE CheckArguments
    BY <2>3 DEF CheckArguments, Goto, FirstSection, TypeOK, SnapshotKinds
  <2>4. QED BY <1>1, <2>1, <2>2, <2>3 DEF Testbed, Connection
<1>2. CASE ConfigSection
  <2>1. CASE ReadConfigText \/ ReadConfigTextFails
    BY <2>1 DEF ReadConfigText, ReadConfigTextFails, Goto, Warn
  <2>2. CASE ParseConfigFails /\ UNCHANGED <<data, warnings>>
    BY <2>2 DEF ParseConfigFails, StoreConfig, Goto, AfterConfig
  <2>3. ASSUME NEW config, NEW ws, NEW raw, StoreConfig(config, raw, ws), result = "none",
               raw = "lost" => ws \cap {"raw", "config"} # {}
        PROVE  WarningInv'
    BY <2>3 DEF StoreConfig, Goto, AfterConfig, TypeOK, Payloads
  <2>4. CASE ConfigSectionFails \/ ReadConfigAgain \/ ReadConfigAgainFails
    BY <2>3, <2>4 DEF ConfigSectionFails, ReadConfigAgain, ReadConfigAgainFails
  <2>5. CASE ParseConfig \/ (ParseConfigFails /\ StoreConfig("fallback", text, warnings))
    BY <2>3, <2>5 DEF ParseConfig, ParseConfigFails
  <2>6. QED BY <1>2, <2>1, <2>2, <2>4, <2>5 DEF ConfigSection, ParseConfigFails
<1>3. CASE StateSection \/ LearnSection
  BY <1>3
     DEF StateSection, ResolveStateCommands, RunStateCommand, StateSectionFails, StateDone,
         LearnSection, DiscoverFeatures, LearnFails, LearnFeature, LearnFeatureFails,
         LearnDone, LearnSectionFails, StoreAnswers, Goto, Warn, TypeOK, Payloads
<1>4. CASE ParseSection
  BY <1>4
     DEF ParseSection, ParseCommand, ParseCommandFails, ParserMissing, ExecuteCommand,
         ExecuteCommandFails, ParseDone, ParseSectionFails, GiveUpCommand, StoreAnswers, Goto, Warn, TypeOK, Payloads
<1>5. CASE Assess
  BY <1>5 DEF Assess, Explained, End, Goto
<1>6. CASE Interrupted \/ InterruptedOutside
  BY <1>6 DEF Interrupted, InterruptedOutside, End, Goto, NoPayload
<1>7. CASE UNCHANGED vars
  BY <1>7
<1>8. QED BY <1>1, <1>2, <1>3, <1>4, <1>5, <1>6, <1>7 DEF Next

\* The result of a failed capture says why it failed.
THEOREM FailuresExplained == Spec => []FailureExplained
<1>1. Init => WarningInv
  BY DEF Init, WarningInv, NoPayload
<1>2. WarningInv => FailureExplained
  BY DEF WarningInv, FailureExplained
<1>3. QED BY <1>1, <1>2, WarningStep, TypeCorrect, PTL DEF Spec

\* A running configuration that could not be read is warned of.
THEOREM LostTexts == Spec => []LostTextWarned
<1>1. Init => WarningInv
  BY DEF Init, WarningInv, NoPayload
<1>2. WarningInv => LostTextWarned
  BY DEF WarningInv, LostTextWarned
<1>3. QED BY <1>1, <1>2, WarningStep, TypeCorrect, PTL DEF Spec
-----------------------------------------------------------------------------
(* The answers *)

\* Only the state section skips commands, and warns of them when it stores.
SkipInv ==
  /\ pc \in {"build", "connect", "check", "config", "config_parse", "config_again",
             "state", "learn"} => found = NoAnswers /\ data.answers = NoAnswers
  /\ pc \in {"parse_run", "parse_execute", "learn_run"} =>
       \A r \in Requests : found[r] # "skipped"
  /\ \A r \in Requests : data.answers[r] = "skipped" => r \in warnings

LEMMA SkipStep == Typed /\ SkipInv /\ [Next]_vars => SkipInv'
<1> SUFFICES ASSUME Typed, SkipInv, [Next]_vars PROVE SkipInv'
  OBVIOUS
<1> USE DEF SkipInv, NoAnswers
<1>0. TypeOK
  BY DEF Typed
<1>1. CASE Testbed \/ Connection
  BY <1>0, <1>1
     DEF Testbed, Connection, BuildFails, UnsupportedPlatform, BuildTestbed, ConnectFails,
         Connect, CheckArguments, BadArguments, Disconnect, DisconnectFails, End, Goto, FirstSection,
         NoPayload, TypeOK, SnapshotKinds
<1>2. CASE ConfigSection
  BY <1>0, <1>2
     DEF ConfigSection, ConfigSectionFails, ReadConfigText, ReadConfigTextFails, ParseConfig,
         ParseConfigFails, ReadConfigAgain, ReadConfigAgainFails, StoreConfig, Goto,
         AfterConfig, Warn, TypeOK, Payloads
<1>3. CASE StateSection
  BY <1>0, <1>3
     DEF StateSection, ResolveStateCommands, RunStateCommand, StateSectionFails, StateDone,
         StoreAnswers, DeviceAnswers, Answered, Goto, Warn, Skipped, TypeOK, Payloads
<1>4. CASE LearnSection
  BY <1>0, <1>4
     DEF LearnSection, DiscoverFeatures, LearnFails, LearnFeature, LearnFeatureFails,
         LearnDone, LearnSectionFails, StoreAnswers, DeviceAnswers, Answered, Goto, Warn, TypeOK, Payloads
<1>5. CASE ParseSection
  BY <1>0, <1>5
     DEF ParseSection, ParseCommand, ParseCommandFails, ParserMissing, ExecuteCommand,
         ExecuteCommandFails, ParseDone, ParseSectionFails, GiveUpCommand, StoreAnswers, DeviceAnswers, Answered, Goto, Warn,
         TypeOK, Payloads
<1>6. CASE Assess
  BY <1>0, <1>6 DEF Assess, Explained, End, Goto
<1>7. CASE Interrupted \/ InterruptedOutside
  BY <1>7 DEF Interrupted, InterruptedOutside, End, Goto, NoPayload
<1>8. CASE UNCHANGED vars
  BY <1>8
<1>9. QED BY <1>1, <1>2, <1>3, <1>4, <1>5, <1>6, <1>7, <1>8 DEF Next

\* A fallback without a text is the one that BlankFallback names: texts that are
\* lost are read again before it is stored.
FallbackInv ==
  data.config = "fallback" => data.config_raw \in {"empty", "text"}

LEMMA FallbackStep == TypeOK /\ FallbackInv /\ [Next]_vars => FallbackInv'
<1> SUFFICES ASSUME TypeOK, FallbackInv, [Next]_vars PROVE FallbackInv'
  OBVIOUS
<1> USE DEF FallbackInv
<1>1. CASE Testbed \/ Connection
  BY <1>1
     DEF Testbed, Connection, BuildFails, UnsupportedPlatform, BuildTestbed, ConnectFails,
         Connect, CheckArguments, BadArguments, Disconnect, DisconnectFails, End, NoPayload
<1>2. CASE ConfigSection
  BY <1>2
     DEF ConfigSection, ConfigSectionFails, ReadConfigText, ReadConfigTextFails, ParseConfig,
         ParseConfigFails, ReadConfigAgain, ReadConfigAgainFails, StoreConfig, TypeOK, Payloads
<1>3. CASE StateSection \/ LearnSection
  BY <1>3
     DEF StateSection, ResolveStateCommands, RunStateCommand, StateSectionFails, StateDone,
         LearnSection, DiscoverFeatures, LearnFails, LearnFeature, LearnFeatureFails,
         LearnDone, LearnSectionFails, StoreAnswers, TypeOK, Payloads
<1>4. CASE ParseSection
  BY <1>4
     DEF ParseSection, ParseCommand, ParseCommandFails, ParserMissing, ExecuteCommand,
         ExecuteCommandFails, ParseDone, ParseSectionFails, GiveUpCommand, StoreAnswers,
         TypeOK, Payloads
<1>5. CASE Assess \/ Interrupted \/ InterruptedOutside
  BY <1>5 DEF Assess, Interrupted, InterruptedOutside, End, NoPayload
<1>6. CASE UNCHANGED vars
  BY <1>6
<1>7. QED BY <1>1, <1>2, <1>3, <1>4, <1>5, <1>6 DEF Next

\* What a success without warnings has to show.
Shown ==
  \/ HoldsConfig \/ BlankFallback
  \/ \E r \in Requests : data.answers[r] \in {"content", "blank"}
  \/ warnings # {}

ShownInv == pc \in {"disconnect", "returned"} /\ result = "success" => Shown

LEMMA ShownWhenAssessed ==
  ASSUME TypeOK, SkipInv, FallbackInv, Assess, result' = "success" PROVE Shown'
<1>1. ~NoData /\ data' = data /\ warnings' = warnings
  BY DEF Assess, End
<1>2. CASE HasConfig
  <2>1. data.config \in {"parsed", "fallback"}
    BY <1>2 DEF HasConfig, TypeOK, Payloads, Configs
  <2>2. HoldsConfig \/ BlankFallback
    BY <2>1 DEF FallbackInv, HoldsConfig, BlankFallback
  <2>3. QED BY <1>1, <2>2 DEF Shown, HoldsConfig, BlankFallback
<1>3. CASE HasAnswers
  <2>1. PICK r \in Requests : data.answers[r] # "absent"
    BY <1>3 DEF HasAnswers, NoAnswers, TypeOK, Payloads
  <2>2. data.answers[r] \in {"content", "blank"} \/ r \in warnings
    BY <2>1 DEF SkipInv, TypeOK, Payloads, Answers
  <2>3. QED BY <1>1, <2>2 DEF Shown
<1>4. HasConfig \/ HasAnswers
  BY <1>1 DEF NoData, TypeOK, SnapshotKinds
<1>5. QED BY <1>2, <1>3, <1>4

\* The status "success" is set by the assessment and by nothing else.
LEMMA OnlyAssessSucceeds ==
  ASSUME TypeOK, WarningInv, Next, pc' \in {"disconnect", "returned"}, result' = "success"
  PROVE  Assess \/ Disconnect \/ DisconnectFails
<1>1. CASE Testbed \/ Connection
  <2>1. CASE BuildFails \/ UnsupportedPlatform \/ ConnectFails \/ BadArguments
    BY <2>1 DEF BuildFails, UnsupportedPlatform, ConnectFails, BadArguments, End
  <2>2. CASE BuildTestbed \/ Connect
    BY <2>2 DEF BuildTestbed, Connect, Goto
  <2>3. CASE CheckArguments
    BY <2>3 DEF CheckArguments, Goto, FirstSection, TypeOK, SnapshotKinds
  <2>4. QED BY <1>1, <2>1, <2>2, <2>3 DEF Testbed, Connection
<1>2. CASE ConfigSection
  BY <1>2
     DEF WarningInv, ConfigSection, ConfigSectionFails, ReadConfigText, ReadConfigTextFails,
         ParseConfig, ParseConfigFails, ReadConfigAgain, ReadConfigAgainFails, StoreConfig
<1>3. CASE StateSection \/ LearnSection
  BY <1>3
     DEF WarningInv, StateSection, ResolveStateCommands, RunStateCommand, StateSectionFails,
         StateDone, LearnSection, DiscoverFeatures, LearnFails, LearnFeature,
         LearnFeatureFails, LearnDone, LearnSectionFails, StoreAnswers
<1>4. CASE ParseSection
  BY <1>4
     DEF WarningInv, ParseSection, ParseCommand, ParseCommandFails, ParserMissing,
         ExecuteCommand, ExecuteCommandFails, ParseDone, ParseSectionFails, GiveUpCommand, StoreAnswers
<1>5. CASE Interrupted \/ InterruptedOutside
  BY <1>5 DEF Interrupted, InterruptedOutside, End
<1>6. QED BY <1>1, <1>2, <1>3, <1>4, <1>5 DEF Next

LEMMA ShownStep ==
  TypeOK /\ WarningInv /\ SkipInv /\ FallbackInv /\ ShownInv /\ [Next]_vars => ShownInv'
<1> SUFFICES ASSUME TypeOK, WarningInv, SkipInv, FallbackInv, ShownInv, [Next]_vars,
                    pc' \in {"disconnect", "returned"}, result' = "success"
             PROVE  Shown'
  BY DEF ShownInv
<1>1. CASE Assess
  BY <1>1, ShownWhenAssessed
<1>2. CASE Disconnect \/ DisconnectFails \/ UNCHANGED vars
  <2>1. /\ pc \in {"disconnect", "returned"} /\ result = "success"
        /\ data' = data /\ warnings' = warnings
    BY <1>2 DEF Disconnect, DisconnectFails
  <2>2. QED BY <2>1 DEF ShownInv, Shown, HoldsConfig, BlankFallback
<1>3. QED BY <1>1, <1>2, OnlyAssessSucceeds
-----------------------------------------------------------------------------
(* Every command is accounted for *)

\* While commands run, each is still to come, answered or warned of; once the
\* answers are stored, they or the warnings account for each.
Ran(c) == c \in ToSet(todo) \/ found[c] # "absent" \/ c \in warnings
Stored(c) ==
  data.answers[c] \in {"content", "blank"} \/ warnings \cap {c, "state", "parse"} # {}

AccountInv ==
  /\ kind # "parse" /\ pc \in {"build", "connect", "check"} => asked = <<>>
  /\ pc \in {"config", "config_parse", "config_again", "state", "learn", "learn_run"} =>
       asked = <<>>
  /\ pc \in {"state_run", "parse_run", "parse_execute"} => \A c \in ToSet(asked) : Ran(c)
  /\ /\ pc \in {"assess", "disconnect", "returned"}
     /\ result \in {"none", "success", "error"}
     /\ warnings \cap {"connection", "capture"} = {}
     => \A c \in ToSet(asked) : Stored(c)

LEMMA AccountStep ==
  Typed /\ WarningInv /\ SkipInv /\ AccountInv /\ [Next]_vars => AccountInv'
<1> SUFFICES ASSUME Typed, WarningInv, SkipInv, AccountInv, [Next]_vars PROVE AccountInv'
  OBVIOUS
<1>0. TypeOK /\ \A c \in ToSet(asked) : c \in Requests
  BY DEF Typed, TypeOK, ToSet, Requests
<1>1. CASE Testbed \/ Connection
  <2>1. CASE BuildFails \/ UnsupportedPlatform \/ ConnectFails \/ BadArguments
    BY <2>1 DEF AccountInv, BuildFails, UnsupportedPlatform, ConnectFails, BadArguments, End, Goto
  <2>2. CASE BuildTestbed \/ Connect
    BY <2>2 DEF AccountInv, BuildTestbed, Connect, Goto
  <2>3. CASE CheckArguments
    BY <1>0, <2>3
       DEF AccountInv, Ran, CheckArguments, Goto, FirstSection, TypeOK, SnapshotKinds
  <2>4. CASE Disconnect \/ DisconnectFails
    BY <2>4 DEF AccountInv, Stored, Disconnect, DisconnectFails, Goto
  <2>5. QED BY <1>1, <2>1, <2>2, <2>3, <2>4 DEF Testbed, Connection
<1>2. CASE ConfigSection
  <2>1. asked = <<>> /\ asked' = asked /\ pc' \notin {"build", "connect", "check"}
    BY <1>2
       DEF AccountInv, ConfigSection, ConfigSectionFails, ReadConfigText, ReadConfigTextFails,
           ParseConfig, ParseConfigFails, ReadConfigAgain, ReadConfigAgainFails, StoreConfig,
           Goto, AfterConfig
  <2>2. QED BY <2>1, EmptySequence DEF AccountInv
<1>3. CASE ResolveStateCommands
  BY <1>3 DEF AccountInv, Ran, ResolveStateCommands, Goto
<1>4. CASE LearnSection
  <2>1. asked = <<>> /\ asked' = asked /\ pc' \notin {"build", "connect", "check"}
    BY <1>4
       DEF AccountInv, LearnSection, DiscoverFeatures, LearnFails, LearnFeature,
           LearnFeatureFails, LearnDone, LearnSectionFails, StoreAnswers, Goto
  <2>2. QED BY <2>1, EmptySequence DEF AccountInv
<1>5. ASSUME pc \in {"state_run", "parse_run", "parse_execute"},
             pc' \in {"state_run", "parse_run", "parse_execute"},
             asked' = asked, todo # <<>>,
             \/ \E answer \in {"content", "blank", "skipped"} : Answered(answer) /\ UNCHANGED warnings
             \/ todo' = Tail(todo) /\ UNCHANGED found /\ Warn({Head(todo)})
             \/ UNCHANGED <<todo, found, warnings>>
      PROVE  AccountInv'
  <2>1. ASSUME NEW c \in ToSet(asked) PROVE Ran(c)'
    <3>1. Ran(c) /\ c \in Requests
      BY <1>0, <1>5, <2>1 DEF AccountInv
    <3>2. c \in ToSet(todo) => c = Head(todo) \/ c \in ToSet(Tail(todo))
      BY <1>0, <1>5, HeadOrTail DEF TypeOK
    <3>3. QED BY <1>0, <1>5, <3>1, <3>2 DEF Ran, Answered, Warn, TypeOK
  <2>2. QED BY <1>5, <2>1 DEF AccountInv
<1>6. CASE RunStateCommand \/ ParseCommand \/ ParseCommandFails \/ ParserMissing
           \/ ExecuteCommand \/ ExecuteCommandFails
  BY <1>5, <1>6
     DEF Typed, RunStateCommand, ParseCommand, ParseCommandFails, ParserMissing,
         ExecuteCommand, ExecuteCommandFails, GiveUpCommand, DeviceAnswers, Goto
<1>7. CASE StateSectionFails \/ ParseSectionFails
  BY <1>7 DEF AccountInv, Stored, StateSectionFails, ParseSectionFails, StoreAnswers, Goto
<1>8. CASE StateDone \/ ParseDone
  <2>1. /\ pc' = "assess" /\ asked' = asked /\ data'.answers = found
        /\ warnings \subseteq warnings'
        /\ todo = <<>> /\ pc \in {"state_run", "parse_run"}
        /\ \A r \in Requests : found[r] = "skipped" => r \in warnings'
    BY <1>0, <1>8
       DEF SkipInv, StateDone, ParseDone, Skipped, StoreAnswers, Goto, Warn, TypeOK, Payloads
  <2>2. ASSUME NEW c \in ToSet(asked) PROVE Stored(c)'
    BY <1>0, <2>1, <2>2, EmptySequence DEF AccountInv, Ran, Stored, TypeOK, Answers
  <2>3. QED BY <2>1, <2>2 DEF AccountInv
<1>9. CASE Assess
  BY <1>9 DEF AccountInv, WarningInv, Stored, Assess, Explained, End, Goto
<1>10. CASE Interrupted \/ InterruptedOutside
  BY <1>10 DEF AccountInv, Interrupted, InterruptedOutside, End, Goto
<1>11. CASE UNCHANGED vars
  BY <1>11 DEF AccountInv, Ran, Stored
<1>12. QED
  BY <1>1, <1>2, <1>3, <1>4, <1>6, <1>7, <1>8, <1>9, <1>10, <1>11
     DEF Next, StateSection, ParseSection

\* No command of a capture is lost in silence.
THEOREM CommandsAccounted == Spec => []EveryCommandAccounted
<1>1. Init => WarningInv /\ SkipInv /\ AccountInv
  BY DEF Init, WarningInv, SkipInv, AccountInv, NoPayload, NoAnswers
<1>2. AccountInv => EveryCommandAccounted
  BY DEF AccountInv, Stored, EveryCommandAccounted, Returned
<1>3. QED
  BY <1>1, <1>2, WarningStep, SkipStep, AccountStep, TypedInit, TypedStep, TypeCorrect, PTL
     DEF Spec

\* What a capture that succeeds without a warning holds is what the device
\* answered: if that is nothing, then because all its answers were blank, or
\* because of a BlankFallback.
THEOREM NoEmptySuccess == Spec => []NoSilentEmptySuccess
<1>1. Init => WarningInv /\ SkipInv /\ FallbackInv /\ ShownInv /\ AccountInv
  BY DEF Init, WarningInv, SkipInv, FallbackInv, ShownInv, AccountInv, NoPayload, NoAnswers
<1>2. TypeOK /\ ShownInv /\ AccountInv => NoSilentEmptySuccess
  <2> SUFFICES ASSUME TypeOK, ShownInv, AccountInv, Returned, result = "success",
                      warnings = {}, ~HoldsConfig, ~HoldsAnswer
               PROVE  /\ BlankFallback \/ \E r \in Requests : data.answers[r] = "blank"
                      /\ \A c \in ToSet(asked) : data.answers[c] = "blank"
    BY DEF NoSilentEmptySuccess
  <2>1. \A r \in Requests : data.answers[r] # "content"
    BY DEF HoldsAnswer
  <2>2. BlankFallback \/ \E r \in Requests : data.answers[r] = "blank"
    BY <2>1 DEF ShownInv, Shown, Returned
  <2>3. \A c \in ToSet(asked) : c \in Requests
    BY DEF TypeOK, ToSet, Requests
  <2>4. \A c \in ToSet(asked) : Stored(c)
    BY DEF AccountInv, Returned
  <2>5. QED BY <2>1, <2>2, <2>3, <2>4 DEF Stored
<1>3. QED
  BY <1>1, <1>2, WarningStep, SkipStep, FallbackStep, ShownStep, AccountStep, TypedInit,
     TypedStep, TypeCorrect, PTL
     DEF Spec
=================================================================================
