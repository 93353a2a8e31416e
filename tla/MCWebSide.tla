------------------------------- MODULE MCWebSide -------------------------------
(* Small instances of WebSide.  The tables are constants of the model. *)
EXTENDS WebSide

CONSTANTS e1, e2

\* A device without a name, one that bears the name made up for it, and one
\* without a parser.
MCDeviceRow == <<
  [pk |-> 1, name |-> NoName, slug |-> "cisco-iosxe", ip4 |-> NoAddress, ip6 |-> "v6"],
  [pk |-> 2, name |-> <<"netbox-device", 1>>, slug |-> "nxos", ip4 |-> "v4", ip6 |-> "v6"],
  [pk |-> 3, name |-> <<"router">>, slug |-> "vyos", ip4 |-> "v4", ip6 |-> NoAddress]>>

MCBuildLists == {<<1, 2>>, <<2, 1, 3>>, <<3, 3>>, <<3, 1, 1>>}

Row(device, kind, status) == [device |-> device, kind |-> kind, status |-> status, there |-> TRUE]

\* More rows of one device than a page shows; two kinds on two devices; none.
MCHistories == {
  <<Row(1, "config", "success"), Row(1, "full", "success"), Row(2, "config", "success"),
    Row(1, "config", "success"), Row(1, "full", "error")>>,
  <<Row(2, "state", "success"), Row(1, "state", "unsupported"), Row(1, "learn", "success")>>,
  <<>>}

MCCaptures == {Row(1, "config", "success"), Row(1, "parse", "unsupported"), Row(2, "state", "error")}

MCCommandLists == {<<"show a", "show b">>, <<"show b">>}

MCManual == {Empty, "show b", "show c"}

Symmetry == Permutations(Editors) \cup Permutations(Passwords)
=============================================================================
