----------------------------- MODULE SnapshotDiff -----------------------------
(***************************************************************************)
(* The snapshot diff engine: two stored payloads compared key by key.      *)
(* Source: diff.py.                                                        *)
(*                                                                         *)
(* A payload is a JSON value: a dictionary holds its elements in "at", by  *)
(* key, a list by position (written "0", "1", ... as its children in the   *)
(* tree are); a scalar has its value. The engine keeps the values in the   *)
(* nodes of its tree.                                                      *)
(***************************************************************************)
EXTENDS Naturals, FiniteSets, Sequences

CONSTANTS
  Values,  \* the JSON values that are compared, and all the values in them
  Depth    \* how deep each is nested

Dict(at) == [type |-> "dict", at |-> at]
List(at) == [type |-> "list", at |-> at]
Scalar(type, value) == [type |-> type, value |-> value]

IsDict(v) == v.type = "dict"
IsList(v) == v.type = "list"
EmptyDict == Dict(<<>>)

ContainerTypes == {"dict", "list"}
ScalarTypes == {"null", "bool", "number", "string"}

\* A value of JSON is finite, and its keys are strings.
ASSUME SnapshotAssumption ==
  /\ EmptyDict \in Values
  /\ Depth \in [Values -> Nat]
  /\ \A v \in Values :
       \/ v.type \in ScalarTypes /\ v = Scalar(v.type, v.value)
       \/ /\ v.type \in ContainerTypes
          /\ IsFiniteSet(DOMAIN v.at)
          /\ \A k \in DOMAIN v.at :
               k \in STRING /\ v.at[k] \in Values /\ Depth[v.at[k]] < Depth[v]

\* Python's equality: True is 1 and False is 0.
EqualValues[p \in Values \X Values] ==
  LET v == p[1]
      w == p[2]
  IN  CASE v.type \in ContainerTypes ->
             /\ w.type = v.type
             /\ DOMAIN v.at = DOMAIN w.at
             /\ \A k \in DOMAIN v.at : EqualValues[<<v.at[k], w.at[k]>>]
        [] v.type \in {"bool", "number"} ->
             w.type \in {"bool", "number"} /\ v.value = w.value
        [] OTHER -> v = w

Equal(v, w) == EqualValues[<<v, w>>]

Truthy(v) ==
  CASE v.type \in ContainerTypes -> DOMAIN v.at # {}
    [] v.type = "null" -> FALSE
    [] OTHER -> v.value # 0
-----------------------------------------------------------------------------
(* The tree and its counts *)

Statuses == {"added", "removed", "changed", "unchanged"}
NoCounts == [s \in Statuses |-> 0]
One(status) == [NoCounts EXCEPT ![status] = 1]

\* A node of the tree and what it added to the summary.
Diffed(node, count) == [node |-> node, count |-> count]

Removed(v) == Diffed([type |-> v.type, status |-> "removed", before |-> v], One("removed"))
Added(v) == Diffed([type |-> v.type, status |-> "added", after |-> v], One("added"))
Unchanged(v) == Diffed([type |-> v.type, status |-> "unchanged", kept |-> v], One("unchanged"))

ChangedTypeOfBefore(v, w) == v.type
ChangedType(v, w) == IF v.type = w.type THEN v.type ELSE "mixed"
Changed(v, w) ==
  Diffed([type |-> ChangedType(v, w), status |-> "changed", before |-> v, after |-> w],
         One("changed"))

IsContainer(node) == "children" \in DOMAIN node

NodeStatusOfLeaves(children) ==
  IF \E k \in DOMAIN children :
       children[k].status \in {"added", "removed", "changed"} /\ ~IsContainer(children[k])
    THEN "changed" ELSE "unchanged"

NodeStatus(children) ==
  IF \E k \in DOMAIN children : children[k].status \in {"added", "removed", "changed"}
    THEN "changed" ELSE "unchanged"

\* The sum of the values of a function.
InTotal(f) ==
  LET total[S \in SUBSET DOMAIN f] ==
        IF S = {} THEN 0
        ELSE LET k == CHOOSE k \in S : TRUE IN f[k] + total[S \ {k}]
  IN  total[DOMAIN f]

\* The nodes of parts as the children of a container; the parts have been
\* counted one by one, and the container is not.
Counts(parts) == [s \in Statuses |-> InTotal([k \in DOMAIN parts |-> parts[k].count[s]])]

Container(type, parts) ==
  LET children == [k \in DOMAIN parts |-> parts[k].node]
  IN  Diffed([type |-> type, status |-> NodeStatus(children), children |-> children],
             Counts(parts))

\* Dictionaries are compared by key, lists by position; diff is what compares
\* the values that both have.
DiffPartsOfBefore(diff, before, after) ==
  [k \in DOMAIN before |->
     IF k \in DOMAIN after THEN diff[<<before[k], after[k]>>] ELSE Removed(before[k])]
DiffParts(diff, before, after) ==
  [k \in DOMAIN before \cup DOMAIN after |->
     CASE k \notin DOMAIN after -> Removed(before[k])
       [] k \notin DOMAIN before -> Added(after[k])
       [] OTHER -> diff[<<before[k], after[k]>>]]

DiffOf[p \in Values \X Values] ==
  LET before == p[1]
      after == p[2]
  IN  CASE IsDict(before) /\ IsDict(after) ->
             Container("dict", DiffParts(DiffOf, before.at, after.at))
        [] IsList(before) /\ IsList(after) ->
             Container("list", DiffParts(DiffOf, before.at, after.at))
        [] OTHER -> IF Equal(before, after) THEN Unchanged(before) ELSE Changed(before, after)

DiffValue(before, after) == DiffOf[<<before, after>>]
-----------------------------------------------------------------------------
(* diff_snapshots and flatten_diff_tree *)

OrEmpty(payload) == IF Truthy(payload) THEN payload ELSE EmptyDict

DiffSnapshots(first, second) ==
  LET before == OrEmpty(first)
      after == OrEmpty(second)
      whole == DiffValue(before, after)
  IN  CASE ~IsDict(before) \/ ~IsDict(after) ->
             [status |-> "error", diff |-> <<>>, summary |-> <<>>, warnings |-> {"not dicts"}]
        [] IsDict(before) /\ IsDict(after) ->
             [status |-> IF before = EmptyDict /\ after = EmptyDict THEN "empty" ELSE "success",
              diff |-> whole.node, summary |-> whole.count, warnings |-> {}]

\* The nodes a tree can have.
Nodes ==
  {DiffValue(v, w).node : v \in Values, w \in Values}
    \cup {Removed(v).node : v \in Values} \cup {Added(v).node : v \in Values}

\* The leaves of the side-by-side table, by path; containers have no row. The
\* text of the cells is left out.
FlattenNode[p \in Nodes \X Seq(STRING)] ==
  LET node == p[1]
      path == p[2]
  IN  IF IsContainer(node) /\ node.type \in ContainerTypes
        THEN UNION {FlattenNode[<<node.children[k], Append(path, k)>>] : k \in DOMAIN node.children}
        ELSE {[path |-> path, status |-> node.status]}

FlattenDiffTree(diff) == IF diff = <<>> THEN {} ELSE FlattenNode[<<diff, <<>>>>]
=============================================================================
