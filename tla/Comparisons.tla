----------------------------- MODULE Comparisons -----------------------------
(***************************************************************************)
(* The two engines as their jobs call them: run_compliance on a golden     *)
(* text and the data of a snapshot, and diff_snapshots and the flattening  *)
(* of its tree on the data of two snapshots.  A behaviour is one           *)
(* comparison.  Source: jobs.py, compliance.py, diff.py.                   *)
(***************************************************************************)
EXTENDS Compliance, SnapshotDiff

CONSTANTS
  ComplianceRequests,  \* of golden, data (config_raw and raw) and mode
  DiffRequests         \* of two payloads, before and after

\* What a line, a text and a request are: a line is any sequence of tokens.
TokenLines == Seq(Tokens)
TextLines == [line: TokenLines, spaces: BOOLEAN]
RawData == [config_raw: Seq(TextLines), raw: Seq(TextLines)]

ASSUME ComplianceAssumption ==
  ComplianceRequests \subseteq [golden: Seq(TextLines), data: RawData, mode: STRING]

ASSUME DiffAssumption == DiffRequests \subseteq [before: Values, after: Values]

VARIABLES
  request,   \* the engine and what it is given
  outcome    \* its results: none before it has run

vars == <<request, outcome>>

Init ==
  /\ request \in [engine: {"compliance"}, of: ComplianceRequests]
                 \cup [engine: {"diff"}, of: DiffRequests]
  /\ outcome = {}

ComplianceOf(r) == RunCompliance(r.golden, ExtractSnapshotRawConfig(r.data), r.mode)

RunComplianceJob ==
  /\ request.engine = "compliance"
  /\ outcome = {}
  /\ outcome' = {ComplianceOf(request.of)}
  /\ UNCHANGED request

RunDiffJob ==
  /\ request.engine = "diff"
  /\ outcome = {}
  /\ outcome' = {DiffSnapshots(request.of.before, request.of.after)}
  /\ UNCHANGED request

Next == RunComplianceJob \/ RunDiffJob

Spec == Init /\ [][Next]_vars
-----------------------------------------------------------------------------
(* Compliance *)

Outcomes(engine) == {o \in outcome : request.engine = engine}

\* The lines the two sides of the request are compared by.
Golden == NormalizeLines(request.of.golden)
Actual ==
  NormalizeLines(IF request.of.data.config_raw = <<>> THEN request.of.data.raw
                                                      ELSE request.of.data.config_raw)

\* compliant says that the two sides agree, as sequences or as sets of lines,
\* drift that they do not, and error that one of them has no line: neither
\* difflib's choice of blocks nor the buckets of the tree may change that.
VerdictIsRight ==
  \A o \in Outcomes("compliance") :
    LET agree == IF o.mode = "set" THEN ToSet(Golden) = ToSet(Actual) ELSE Golden = Actual
    IN  o.result = CASE Golden = <<>> \/ Actual = <<>> -> "error"
                     [] Golden # <<>> /\ Actual # <<>> /\ agree -> "compliant"
                     [] OTHER -> "drift"

WithoutLine(text, i) == SubSeq(text, 1, i - 1) \o SubSeq(text, i + 1, Len(text))

\* Noise is not drift: a blank line, a delimiter or white space at the end of a
\* line, wherever it is in the golden text, changes nothing in the outcome.
NoiseIsIgnored ==
  \A o \in Outcomes("compliance") :
    LET r == request.of
    IN  \A i \in DOMAIN r.golden :
          /\ r.golden[i].line \in {Blank, Bang} =>
               ComplianceOf([r EXCEPT !.golden = WithoutLine(@, i)]) = o
          /\ ComplianceOf([r EXCEPT !.golden[i].spaces = FALSE]) = o

Occurrences(line, lines) == Cardinality({i \in DOMAIN lines : lines[i] = line})

\* The key of one repeated line is another line of the texts.
AmbiguousKeys ==
  LET lines == ToSet(Golden) \cup ToSet(Actual)
  IN  \E line \in lines, n \in 2..Len(Golden) + Len(Actual) : Append(line, n) \in lines

\* The tree shows every line as often as each side has it (once, in the set
\* mode) and nothing else, and the summary counts what it shows; unless, in
\* the ordered mode, a line reads like the numbered key of another one.
TreeHoldsEveryLine ==
  \A o \in Outcomes("compliance") : \A d \in o.diff :
    LET c == d.tree.children
        Shown(line, status) ==
          Cardinality({k \in DOMAIN c : c[k].line = line /\ c[k].status = status})
        Has(lines, line) ==
          IF o.mode = "ordered" THEN Occurrences(line, lines) ELSE Occurrences(line, SetToSeq(ToSet(lines)))
    IN  o.mode = "set" \/ ~AmbiguousKeys =>
          /\ \A line \in ToSet(Golden) \cup ToSet(Actual) :
               /\ Shown(line, "unchanged") + Shown(line, "removed") = Has(Golden, line)
               /\ Shown(line, "unchanged") + Shown(line, "added") = Has(Actual, line)
          /\ \A s \in {"added", "removed", "unchanged"} :
               d.summary[s] = Cardinality({k \in DOMAIN c : c[k].status = s})
-----------------------------------------------------------------------------
(* Diff *)

\* Whether one side of a tree reads as a value, up to Python's equality.
ReadsAs[p \in Nodes \X {"before", "after"} \X Values] ==
  LET node == p[1]
      side == p[2]
      v == p[3]
      other == IF side = "before" THEN "added" ELSE "removed"
  IN  CASE IsContainer(node) ->
             /\ v.type = node.type
             /\ DOMAIN v.at = {k \in DOMAIN node.children : node.children[k].status # other}
             /\ \A k \in DOMAIN v.at : ReadsAs[<<node.children[k], side, v.at[k]>>]
        [] "kept" \in DOMAIN node -> Equal(node.kept, v)
        [] OTHER -> Equal(node[side], v)

\* Nothing is lost: both snapshots can be read back from the tree, up to
\* Python's equality.
DiffIsLossless ==
  \A o \in Outcomes("diff") :
    o.status # "error" =>
      /\ ReadsAs[<<o.diff, "before", OrEmpty(request.of.before)>>]
      /\ ReadsAs[<<o.diff, "after", OrEmpty(request.of.after)>>]

RowsOf(o, status) == {row \in FlattenDiffTree(o.diff) : row.status = status}

\* Whether a leaf of the node is a difference.
Differs(node) == \E row \in FlattenNode[<<node, <<>>>>] : row.status # "unchanged"

StatusesAreRight[node \in Nodes] ==
  IsContainer(node) =>
    /\ (node.status = "changed") = Differs(node)
    /\ \A k \in DOMAIN node.children : StatusesAreRight[node.children[k]]

\* The tree, each container of it and the summary say changed exactly when the
\* snapshots differ there: the viewer folds what is unchanged.  And each count
\* of the summary is the number of rows of the viewer's table, which comes from
\* another walk.
ChangesAreReal ==
  \A o \in Outcomes("diff") :
    o.status # "error" =>
      LET same == Equal(OrEmpty(request.of.before), OrEmpty(request.of.after))
      IN  /\ (o.diff.status = "unchanged") = same
          /\ (o.summary.added + o.summary.removed + o.summary.changed = 0) = same
          /\ \A s \in Statuses : o.summary[s] = Cardinality(RowsOf(o, s))
          /\ StatusesAreRight[o.diff]

Mirrored(status) ==
  CASE status = "added" -> "removed" [] status = "removed" -> "added" [] OTHER -> status

MirrorImages[p \in Nodes \X Nodes] ==
  LET n == p[1]
      m == p[2]
  IN  /\ m.status = Mirrored(n.status)
      /\ n.status \in {"added", "removed", "changed"} => m.type = n.type
      /\ IsContainer(n) = IsContainer(m)
      /\ IsContainer(n) =>
           /\ DOMAIN n.children = DOMAIN m.children
           /\ \A k \in DOMAIN n.children : MirrorImages[<<n.children[k], m.children[k]>>]

\* Comparing the other way round gives the mirror image: added and removed
\* change places and nothing else does.
DiffIsSymmetric ==
  \A o \in Outcomes("diff") :
    LET other == DiffSnapshots(request.of.after, request.of.before)
    IN  /\ other.status = o.status
        /\ o.status # "error" => MirrorImages[<<o.diff, other.diff>>]
=============================================================================
