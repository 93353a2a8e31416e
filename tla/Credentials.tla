------------------------------ MODULE Credentials ------------------------------
(***************************************************************************)
(* The credential store: its rows, the form and the API that write them,   *)
(* the key that encrypts them, and the testbeds that decrypt them.         *)
(* Source: models.py, PyatsCredential; forms.py, PyatsCredentialForm;      *)
(* api/serializers.py, PyatsCredentialSerializer; crypto.py; testbed.py.   *)
(*                                                                         *)
(* An update reads the whole row, then saves the whole row; a transaction  *)
(* is one action.  Settings are loaded when a process starts, so that web  *)
(* and worker processes may run with different keys for a while.  A build  *)
(* changes nothing: the properties ask what one would return now.          *)
(***************************************************************************)
EXTENDS Testbed

CONSTANTS
  Credentials,  \* primary keys of PyatsCredential rows
  Names,        \* their names, in the order of their sorting
  Devices,      \* primary keys of the devices credentials are made for
  DeviceRow,    \* rows of those and of other devices, as Testbed has them
  NoDevice,     \* the device of a global credential
  Passwords,    \* what an operator may type
  Keys,         \* Fernet keys an operator may configure
  Editors,      \* requests that update a credential, at a time
  BuildLists,   \* the lists of devices testbeds are built for
  MaxActs       \* how often operators save or delete rows or change the setting

\* A token that web has stored, and a row.
Tokens == [key: Keys \cup {Derived}, text: Passwords]
Scopes == {"device", "global"}
CredentialRows ==
  [pk: Credentials, name: Names, scope: Scopes, device: Devices \cup {NoDevice},
   password: Tokens \cup {Empty}]

ASSUME CredentialAssumption ==
  /\ Names \subseteq Nat
  /\ MaxActs \in Nat
  /\ NoDevice \notin Devices
  /\ Devices \subseteq DOMAIN DeviceRow
  /\ \A d \in DOMAIN DeviceRow : DeviceRow[d].pk = d
  /\ \A list \in BuildLists : list \in Seq(DOMAIN DeviceRow)
  /\ {Unset, BadKey, Derived} \cap Keys = {}
  /\ {Empty, NoCredential, Raises} \cap Passwords = {}
  /\ {Empty, NoCredential} \cap Tokens = {}
  /\ Empty # NoCredential
  /\ NoCredential \notin CredentialRows
  /\ Raises \notin Tokens \cup Keys \cup {Derived, Empty}

VARIABLES
  hosts,      \* device rows that exist
  rows,       \* credential rows, or NoCredential
  session,    \* the row each update in progress has read
  setting,    \* credential_key in the settings files
  started,    \* the setting each process was started with
  acts,       \* how often they have
  typed,      \* for each credential ever created, the password typed last
  retyped,    \* credentials whose password was typed with the key web runs now
  behind,     \* updates in progress that have not seen the password typed last
  overtaken   \* credentials one of them has been saved to without a password

credentialVars ==
  <<hosts, rows, session, setting, started, acts, typed, retyped, behind, overtaken>>
-----------------------------------------------------------------------------
(* Types *)

Settings == Keys \cup {Unset, BadKey}
Processes == {"web", "worker"}
Columns == {"name", "scope", "device", "password"}

\* What a form or an API call submits.
Submissions ==
  [name: Names, scope: Scopes, device: Devices \cup {NoDevice}, password: Passwords \cup {Empty}]

\* What a PATCH may send: the fields it names.
PatchedFields == {Columns, {"password"}, {"name"}, {"scope", "device"}}

CredentialInit ==
  /\ hosts = Devices
  /\ rows = [c \in Credentials |-> NoCredential]
  /\ session = [e \in Editors |-> NoCredential]
  /\ setting = Unset
  /\ started = [p \in Processes |-> Unset]
  /\ acts = 0
  /\ typed = [c \in Credentials |-> NoCredential]
  /\ retyped = {}
  /\ behind = {}
  /\ overtaken = {}
-----------------------------------------------------------------------------
(* Writes *)

\* clean() of the form and of the model.
ScopeAgrees(row) == row.scope = "device" <=> row.device # NoDevice

\* The two constraints of the table: by device and name, or by name alone.
IsUnique(row) ==
  \A c \in Credentials \ {row.pk} :
    rows[c] # NoCredential => rows[c].device # row.device \/ rows[c].name # row.name

\* What the database lets in.
Storable(row) ==
  /\ row.device \in hosts \cup {NoDevice}
  /\ IsUnique(row)
  /\ row.password # Raises

\* set_password encrypts with the key of the web process.
Token(password) == Encrypt(started["web"], password)

FormRowClearing(read, sent) ==
  [pk |-> read.pk, name |-> sent.name, scope |-> sent.scope, device |-> sent.device,
   password |-> Token(sent.password)]

\* The form's fields over the row that was read; a blank password keeps the
\* one that was read.
FormRow(read, sent) ==
  [pk |-> read.pk, name |-> sent.name, scope |-> sent.scope, device |-> sent.device,
   password |-> IF sent.password = Empty THEN read.password ELSE Token(sent.password)]

\* The serializer's: a field that was not sent keeps what was read too.
ApiRow(read, sent, fields) ==
  FormRow(read, [f \in Columns |->
                   CASE f \in fields -> sent[f]
                     [] f \notin fields /\ f = "password" -> Empty
                     [] OTHER -> read[f]])

Act == acts < MaxActs /\ acts' = acts + 1

OnCredential(c) == {e \in Editors : session[e] # NoCredential /\ session[e].pk = c}

\* A row is saved, and what was typed is recorded.
Write(row, password) ==
  /\ Act
  /\ ScopeAgrees(row)
  /\ Storable(row)
  /\ rows' = [rows EXCEPT ![row.pk] = row]
  /\ IF password = Empty /\ typed[row.pk] # NoCredential
       THEN UNCHANGED <<typed, retyped>>
       ELSE /\ typed' = [typed EXCEPT ![row.pk] = password]
            /\ retyped' = retyped \cup {row.pk}
  /\ UNCHANGED <<hosts, setting, started>>

\* The form without an instance, or a POST to the API.
CreateCredential(c, sent) ==
  /\ typed[c] = NoCredential
  /\ Write(FormRow([pk |-> c, password |-> Empty], sent), sent.password)
  /\ UNCHANGED <<session, behind, overtaken>>

OpenCredential(e, c) ==
  /\ session[e] = NoCredential
  /\ rows[c] # NoCredential
  /\ session' = [session EXCEPT ![e] = rows[c]]
  /\ UNCHANGED <<hosts, rows, setting, started, acts, typed, retyped, behind, overtaken>>

\* The save of an update; on a row that was deleted since, it is an insert.
SaveCredential(e, row, password) ==
  /\ session[e] # NoCredential
  /\ Write(row, password)
  /\ session' = [session EXCEPT ![e] = NoCredential]
  /\ IF password = Empty
       THEN /\ behind' = behind \ {e}
            /\ overtaken' = IF e \in behind THEN overtaken \cup {row.pk} ELSE overtaken
       ELSE /\ behind' = (behind \cup OnCredential(row.pk)) \ {e}
            /\ overtaken' = overtaken \ {row.pk}

SaveForm(e, sent) == SaveCredential(e, FormRow(session[e], sent), sent.password)

SaveApi(e, sent, fields) ==
  SaveCredential(e, ApiRow(session[e], sent, fields),
                 IF "password" \in fields THEN sent.password ELSE Empty)

\* The update is refused, or raises: nothing is saved.
UpdateFails(e) ==
  /\ session[e] # NoCredential
  /\ session' = [session EXCEPT ![e] = NoCredential]
  /\ behind' = behind \ {e}
  /\ UNCHANGED <<hosts, rows, setting, started, acts, typed, retyped, overtaken>>

DeleteCredential(c) ==
  /\ Act
  /\ rows[c] # NoCredential
  /\ rows' = [rows EXCEPT ![c] = NoCredential]
  /\ UNCHANGED <<hosts, session, setting, started, typed, retyped, behind, overtaken>>

\* The credentials of a device go with it.
DeleteHost(d) ==
  /\ Act
  /\ d \in hosts
  /\ hosts' = hosts \ {d}
  /\ rows' = [c \in Credentials |->
       IF rows[c] # NoCredential /\ rows[c].device = d THEN NoCredential ELSE rows[c]]
  /\ UNCHANGED <<session, setting, started, typed, retyped, behind, overtaken>>
-----------------------------------------------------------------------------
(* The key *)

ConfigureKey(s) ==
  /\ Act
  /\ s # setting
  /\ setting' = s
  /\ UNCHANGED <<hosts, rows, session, started, typed, retyped, behind, overtaken>>

RestartProcess(p) ==
  /\ started[p] # setting
  /\ started' = [started EXCEPT ![p] = setting]
  /\ retyped' = IF p = "web" THEN {} ELSE retyped
  /\ UNCHANGED <<hosts, rows, session, setting, acts, typed, behind, overtaken>>

CredentialNext ==
  \/ \E c \in Credentials, sent \in Submissions : CreateCredential(c, sent)
  \/ \E e \in Editors, c \in Credentials : OpenCredential(e, c)
  \/ \E e \in Editors, sent \in Submissions : SaveForm(e, sent)
  \/ \E e \in Editors, sent \in Submissions, fields \in PatchedFields : SaveApi(e, sent, fields)
  \/ \E e \in Editors : UpdateFails(e)
  \/ \E c \in Credentials : DeleteCredential(c)
  \/ \E d \in Devices : DeleteHost(d)
  \/ \E s \in Settings : ConfigureKey(s)
  \/ \E p \in Processes : RestartProcess(p)
-----------------------------------------------------------------------------
(* What a worker would build now *)

Bound(d) == {c \in Credentials : rows[c] # NoCredential /\ rows[c].device = d}

\* The device's first credential in the order of the table: by name.
ResolveCredential(d) ==
  IF Bound(d) = {} THEN NoCredential
    ELSE rows[CHOOSE c \in Bound(d) : \A o \in Bound(d) : rows[c].name <= rows[o].name]

Build(devices, onUnsupported) ==
  BuildTestbed([i \in DOMAIN devices |-> DeviceRow[devices[i]]],
               [d \in DOMAIN DeviceRow |-> ResolveCredential(d)], started["worker"], onUnsupported)
-----------------------------------------------------------------------------
(* Properties *)

SameKey ==
  /\ GetFernetKey(started["web"]) = GetFernetKey(started["worker"])
  /\ started["web"] # BadKey

\* A device is logged in to with the password that was typed last for its
\* credential, whatever edits, API calls, key changes and restarts came
\* between, or the build refuses; and it does not refuse once web and worker
\* run the same key and the password was typed with it.  The one exception is
\* an update without a password that began before the password was typed.
LastPasswordOrRefused ==
  \A d \in hosts :
    LET c == ResolveCredential(d)
        tb == Build(<<d>>, "flag")
    IN  c # NoCredential /\ c.pk \notin overtaken =>
          /\ ~tb.raised => tb.entries[1].password = typed[c.pk]
          /\ SameKey /\ c.pk \in retyped => ~tb.raised

Count(pk, report) == Cardinality({i \in DOMAIN report : report[i].pk = pk})

\* Every device of the list is in the report once for each time it is listed,
\* under the name its entry has, and no two entries share a name; supported
\* means an entry of its own, and a list fails only on a credential that the
\* worker cannot decrypt.
ReportCoversDevices ==
  \A list \in BuildLists, onUnsupported \in {"flag", "skip"} :
    LET tb == Build(list, onUnsupported)
        names == {tb.entries[i].name : i \in DOMAIN tb.entries}
    IN  IF tb.raised
          THEN \E i \in DOMAIN list : Build(<<list[i]>>, onUnsupported).raised
          ELSE /\ Total(tb) = Len(list)
               /\ \A d \in ToSet(list) :
                    /\ Count(d, tb.supported) + Count(d, tb.unsupported)
                         = Cardinality({i \in DOMAIN list : list[i] = d})
                    /\ Count(d, tb.supported) = 1 =>
                         \E i \in DOMAIN tb.entries :
                           tb.entries[i].pk = d /\ tb.entries[i].name = DeviceDisplayName(DeviceRow[d])
               /\ Cardinality(names) = Len(tb.entries)
               /\ onUnsupported = "flag" => names = {DeviceDisplayName(DeviceRow[d]) : d \in ToSet(list)}
               /\ Ok(tb) => \E i \in DOMAIN tb.entries : IsSupportedOs(tb.entries[i].os)
=============================================================================
