-------------------------------- MODULE Testbed --------------------------------
(***************************************************************************)
(* The testbed builder and the encryption of what it decrypts, as pure     *)
(* operators.  Source: testbed.py, crypto.py.                              *)
(*                                                                         *)
(* A device is a record: pk; name, or NoName for the None that NetBox      *)
(* permits; slug, its platform's slug folded to lower case, or NoPlatform; *)
(* ip4 and ip6, or NoAddress.  A name is a tuple, since the stand-in for a *)
(* missing one is made of a word and the pk.  A credential is a record of  *)
(* at least pk and password; enable_secret is kept and used as a password  *)
(* is, and the user name, port and protocol are passed on as they are.     *)
(* Ciphertext is its key and its plaintext.                                *)
(***************************************************************************)
EXTENDS Naturals, TLC, SequencesExt

CONSTANTS
  NoName,        \* the name of a device that has none
  NoCredential,  \* no credential row
  Empty,         \* the empty string
  Raises         \* what stands for the result of a call that raised

NoPlatform == "no platform"
NoAddress == "no address"
-----------------------------------------------------------------------------
(* Encryption *)

BadKey == "not a key"      \* what is configured is no Fernet key
Unset == "unset"           \* nothing is configured
Derived == "derived"       \* the key made of SECRET_KEY

\* The key a process works with, by the setting it was started with.
GetFernetKey(setting) ==
  CASE setting = Unset -> Derived
    [] setting = BadKey -> Raises
    [] OTHER -> setting

Encrypt(setting, plaintext) ==
  CASE plaintext = Empty -> Empty
    [] plaintext # Empty /\ GetFernetKey(setting) = Raises -> Raises
    [] OTHER -> [key |-> GetFernetKey(setting), text |-> plaintext]

\* A token of another key raises InvalidToken; the empty one needs no key.
Decrypt(setting, token) ==
  CASE token = Empty -> Empty
    [] token # Empty /\ GetFernetKey(setting) = token.key -> token.text
    [] OTHER -> Raises
-----------------------------------------------------------------------------
(* One device *)

PLATFORM_SLUG_TO_PYATS_OS ==
  [slug \in {"cisco-ios", "ios"} |-> "ios"]
    @@ [slug \in {"cisco-iosxe", "iosxe"} |-> "iosxe"]
    @@ [slug \in {"cisco-iosxr", "iosxr"} |-> "iosxr"]
    @@ [slug \in {"cisco-nxos", "nxos", "cisco-nx-os"} |-> "nxos"]
    @@ [slug \in {"cisco-asa", "asa"} |-> "asa"]
    @@ [slug \in {"juniper-junos", "junos"} |-> "junos"]
    @@ [slug \in {"arista-eos", "eos"} |-> "eos"]
    @@ [slug \in {"nokia-sros", "sros"} |-> "sros"]

UNSUPPORTED_OS == "unsupported - no parser"

PlatformToPyatsOs(slug) ==
  IF slug \in DOMAIN PLATFORM_SLUG_TO_PYATS_OS
    THEN PLATFORM_SLUG_TO_PYATS_OS[slug] ELSE UNSUPPORTED_OS

IsSupportedOs(os) == os # UNSUPPORTED_OS

MgmtAddress(d) == IF d.ip4 # NoAddress THEN d.ip4 ELSE d.ip6

DeviceDisplayName(d) == IF d.name = NoName THEN <<"netbox-device", d.pk>> ELSE d.name

Skipped(d, onUnsupported) ==
  ~IsSupportedOs(PlatformToPyatsOs(d.slug)) /\ onUnsupported = "skip"

\* The entry of a device, which is built whatever its platform.
BuildDeviceEntry(d, credential, setting) ==
  [pk |-> d.pk, name |-> DeviceDisplayName(d), os |-> PlatformToPyatsOs(d.slug),
   ip |-> MgmtAddress(d),
   credential |-> IF credential = NoCredential THEN NoCredential ELSE credential.pk,
   password |-> IF credential = NoCredential THEN Empty
                                             ELSE Decrypt(setting, credential.password)]
-----------------------------------------------------------------------------
(* A list of devices *)

NoTestbed == [entries |-> <<>>, supported |-> <<>>, unsupported |-> <<>>, raised |-> FALSE]

Report(d, reason) == [pk |-> d.pk, name |-> DeviceDisplayName(d), reason |-> reason]

AddSupported(tb, d) == [tb EXCEPT !.supported = Append(@, Report(d, "supported"))]
AddUnsupported(tb, d, reason) == [tb EXCEPT !.unsupported = Append(@, Report(d, reason))]

OnTestbed(tb, name) == \E i \in DOMAIN tb.entries : tb.entries[i].name = name

AddDeviceReplacing(tb, d, entry) ==
  LET kept == SelectSeq(tb.entries, LAMBDA e : e.name # entry.name)
      added == [tb EXCEPT !.entries = Append(kept, entry)]
  IN  IF IsSupportedOs(entry.os) THEN AddSupported(added, d)
                                 ELSE AddUnsupported(added, d, "platform")

\* tb.add_device refuses a second device of a name: the first stays.
AddDevice(tb, d, entry) ==
  LET added == [tb EXCEPT !.entries = Append(@, entry)]
  IN  CASE OnTestbed(tb, entry.name) -> AddUnsupported(tb, d, "duplicate")
        [] ~OnTestbed(tb, entry.name) /\ IsSupportedOs(entry.os) -> AddSupported(added, d)
        [] OTHER -> AddUnsupported(added, d, "platform")

\* One turn of the loop; the first that raises ends it.
AddNext(tb, d, credential, setting, onUnsupported) ==
  LET entry == BuildDeviceEntry(d, credential, setting)
  IN  CASE tb.raised -> tb
        [] ~tb.raised /\ Skipped(d, onUnsupported) -> AddUnsupported(tb, d, "skipped")
        [] ~tb.raised /\ ~Skipped(d, onUnsupported) /\ entry.password = Raises ->
             [tb EXCEPT !.raised = TRUE]
        [] OTHER -> AddDevice(tb, d, entry)

\* The loop over the devices; credentialOf is what the resolver answers for a
\* primary key.
BuildTestbed(devices, credentialOf, setting, onUnsupported) ==
  LET built[n \in 0..Len(devices)] ==
        IF n = 0 THEN NoTestbed
        ELSE AddNext(built[n - 1], devices[n], credentialOf[devices[n].pk], setting, onUnsupported)
  IN  IF onUnsupported \in {"flag", "skip"} THEN built[Len(devices)]
                                            ELSE [NoTestbed EXCEPT !.raised = TRUE]

\* TestbedBuildReport.total and .ok.
Total(tb) == Len(tb.supported) + Len(tb.unsupported)
Ok(tb) == tb.supported # <<>>
=============================================================================
