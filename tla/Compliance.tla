------------------------------ MODULE Compliance ------------------------------
(***************************************************************************)
(* The compliance engine: a golden configuration compared with the raw     *)
(* running configuration of a snapshot, line by line.                      *)
(* Source: compliance.py; extract_snapshot_raw_config of jobs.py;          *)
(* Python's difflib, which the ordered mode calls.                         *)
(*                                                                         *)
(* A line is a sequence of tokens. A number is one: 2 stands for " #2",    *)
(* the suffix that the engine gives to a repeated line, which can also be  *)
(* the end of a line of its own.                                           *)
(***************************************************************************)
EXTENDS Naturals, FiniteSets, Sequences, SequencesExt, Selections

CONSTANTS
  Tokens,    \* what the lines of a text are made of
  Delimiter  \* the "!" between the sections of a configuration

Blank == <<>>
Bang == <<Delimiter>>

\* A line of a text: what is left of it without trailing white space, which
\* it may have.
TextLine(line, spaces) == [line |-> line, spaces |-> spaces]

Noise == {Blank, Bang}

\* Lines cut at their end but compared with their white space, the token 0.
NormalizeLinesRaw(text) ==
  LET lines == [i \in DOMAIN text |->
                  IF text[i].spaces /\ text[i].line \notin Noise
                    THEN Append(text[i].line, 0) ELSE text[i].line]
  IN  Kept(lines, ToSet(lines) \ Noise)

\* Blank lines, lone delimiters and trailing white space are dropped.
NormalizeLines(text) ==
  LET lines == [i \in DOMAIN text |-> text[i].line]
  IN  Kept(lines, ToSet(lines) \ Noise)
-----------------------------------------------------------------------------
(* difflib.SequenceMatcher, without junk *)

\* The common blocks of golden[r.alo..r.ahi] and snapshot[r.blo..r.bhi].
CommonBlocks(golden, snapshot, r) ==
  {m \in [a: r.alo..r.ahi, b: r.blo..r.bhi, size: 1..Len(golden)] :
     /\ m.a + m.size - 1 <= r.ahi
     /\ m.b + m.size - 1 <= r.bhi
     /\ \A n \in 0..m.size - 1 : golden[m.a + n] = snapshot[m.b + n]}

\* Of the longest blocks the one that starts first, in golden and then in
\* snapshot.
Precedes(m, n) ==
  \/ n.size < m.size
  \/ n.size = m.size /\ (m.a < n.a \/ (m.a = n.a /\ m.b <= n.b))

LongestBlock(blocks) == CHOOSE m \in blocks : \A n \in blocks : Precedes(m, n)

\* The positions one block matches, and the ranges left and right of it.
Diagonal(m) == {[a |-> m.a + n, b |-> m.b + n] : n \in 0..m.size - 1}
LeftOf(r, m) == [r EXCEPT !.ahi = m.a - 1, !.bhi = m.b - 1]
RightOf(r, m) == [r EXCEPT !.alo = m.a + m.size, !.blo = m.b + m.size]

Ranges == [alo: Nat \ {0}, ahi: Nat, blo: Nat \ {0}, bhi: Nat]

\* The longest block is matched, then what is left and right of it.
Matched(golden, snapshot) ==
  LET matched[r \in Ranges] ==
        LET blocks == CommonBlocks(golden, snapshot, r)
            m == LongestBlock(blocks)
        IN  IF blocks = {}
              THEN {}
              ELSE matched[LeftOf(r, m)] \cup Diagonal(m) \cup matched[RightOf(r, m)]
  IN  matched[[alo |-> 1, ahi |-> Len(golden), blo |-> 1, bhi |-> Len(snapshot)]]
-----------------------------------------------------------------------------
(* The diff tree *)

\* The lines of s at the positions in is, in order.
At(s, is) ==
  LET order == Kept([i \in DOMAIN s |-> i], is)
  IN  [n \in DOMAIN order |-> s[order[n]]]

Leaves(lines, status) == [n \in DOMAIN lines |-> [line |-> lines[n], status |-> status]]

KeyByLine(leaves, n) == leaves[n].line

\* The key of the nth leaf: its line, and from the second time on its number.
Key(leaves, n) ==
  LET line == leaves[n].line
      seen == Cardinality({i \in 1..n : leaves[i].line = line})
  IN  IF seen = 1 THEN line ELSE Append(line, seen)

HasDrift(summary) == summary.added > 0 \/ summary.removed > 0 \/ summary.changed > 0

\* The tree and the counts; of the leaves with the same key the last stays.
BuildTree(unchanged, added, removed, mode) ==
  LET leaves == Leaves(unchanged, "unchanged") \o Leaves(added, "added") \o Leaves(removed, "removed")
      LastLeaf(key) == CHOOSE n \in DOMAIN leaves :
        /\ Key(leaves, n) = key
        /\ \A i \in n + 1..Len(leaves) : Key(leaves, i) # key
      summary == [added |-> Len(added), removed |-> Len(removed),
                  changed |-> 0, unchanged |-> Len(unchanged)]
  IN  [summary |-> summary,
       tree |-> [mode |-> mode,
                 status |-> IF HasDrift(summary) THEN "changed" ELSE "unchanged",
                 children |-> [key \in {Key(leaves, n) : n \in DOMAIN leaves} |->
                                 leaves[LastLeaf(key)]]]]

OrderedDiff(golden, snapshot) ==
  LET matched == Matched(golden, snapshot)
      inGolden == {m.a : m \in matched}
      inSnapshot == {m.b : m \in matched}
  IN  BuildTree(At(golden, inGolden),
                At(snapshot, DOMAIN snapshot \ inSnapshot),
                At(golden, DOMAIN golden \ inGolden),
                "ordered")

SetDiff(golden, snapshot) ==
  LET inGolden == ToSet(golden)
      inSnapshot == ToSet(snapshot)
  IN  BuildTree(SetToSeq(inGolden \cap inSnapshot),
                SetToSeq(inSnapshot \ inGolden),
                SetToSeq(inGolden \ inSnapshot),
                "set")
-----------------------------------------------------------------------------
(* run_compliance *)

ExtractConfigRawOnly(data) == data.config_raw

\* The raw text of a snapshot; snapshots older than config_raw have it in the
\* configuration whose parser failed.
ExtractSnapshotRawConfig(data) ==
  IF data.config_raw # <<>> THEN data.config_raw ELSE data.raw

Modes == {"ordered", "set"}

\* An unknown mode is compared, and recorded, as ordered.
EffectiveMode(mode) == IF mode \in Modes THEN mode ELSE "ordered"

Compared(diff, mode) ==
  [result |-> IF HasDrift(diff.summary) THEN "drift" ELSE "compliant",
   mode |-> mode, diff |-> {diff}, warnings |-> {}]

NotCompared(warning, mode) ==
  [result |-> "error", mode |-> mode, diff |-> {}, warnings |-> {warning}]

RunCompliance(goldenText, snapshotText, requested) ==
  LET golden == NormalizeLines(goldenText)
      snapshot == NormalizeLines(snapshotText)
      mode == EffectiveMode(requested)
  IN  CASE golden = <<>> -> NotCompared("golden is empty", mode)
        [] golden # <<>> /\ snapshot = <<>> -> NotCompared("snapshot is empty", mode)
        [] golden # <<>> /\ snapshot # <<>> /\ mode = "set" ->
             Compared(SetDiff(golden, snapshot), mode)
        [] OTHER -> Compared(OrderedDiff(golden, snapshot), mode)
=============================================================================
