---------------------------- MODULE MCComparisons ----------------------------
EXTENDS Comparisons

CONSTANTS
  a, b,                  \* two words
  MaxGolden, MaxActual   \* the longest texts

\* Blank and delimiter lines, a line with and without white space at its end,
\* another one, and one that reads like the key of the second <<a>>.
Lines == {TextLine(Blank, TRUE), TextLine(Bang, FALSE), TextLine(<<a>>, FALSE),
          TextLine(<<a>>, TRUE), TextLine(<<b>>, FALSE), TextLine(<<a, 2>>, FALSE)}
Texts(max) == UNION {[1..n -> Lines] : n \in 0..max}
Raw(text, legacy) == [config_raw |-> text, raw |-> legacy]

MCComplianceRequests ==
  [golden: Texts(MaxGolden), mode: Modes, data: {Raw(text, <<>>) : text \in Texts(MaxActual)}]
    \cup [golden: Texts(1), mode: Modes \cup {"other"},
          data: {Raw(text, legacy) : text \in Texts(1), legacy \in Texts(2)}]

Scalars == {Scalar("null", 0), Scalar("bool", 1), Scalar("number", 1), Scalar("number", 2),
            Scalar("string", 1)}
Few == {Scalar("null", 0), Scalar("bool", 1), Scalar("number", 1)}
OneItem(v) == List([k \in {"0"} |-> v])
OneKey(v) == Dict([k \in {"k"} |-> v])
Keyed(values) == {Dict(at) : at \in [{"k"} -> values] \cup [{"l"} -> values] \cup [{"k", "l"} -> values]}
Listed(values) == {List(at) : at \in [{"0"} -> values] \cup [{"0", "1"} -> values]}
Containers == {List(<<>>), EmptyDict} \cup Keyed(Few) \cup Listed(Few)
Payloads ==
  {OneKey(v) : v \in Scalars \cup Containers}
    \cup Keyed({Scalar("number", 1), OneItem(Scalar("number", 1)), EmptyDict,
                OneKey(OneItem(OneKey(Scalar("number", 1))))})
    \cup {EmptyDict, List(<<>>), OneItem(Scalar("number", 1)), Scalar("null", 0)}

RECURSIVE Within(_)
Within(v) ==
  {v} \cup IF v.type \in ContainerTypes THEN UNION {Within(v.at[k]) : k \in DOMAIN v.at} ELSE {}
MCValues == UNION {Within(v) : v \in Payloads}

RECURSIVE DepthOf(_)
DepthOf(v) ==
  IF v.type \notin ContainerTypes \/ DOMAIN v.at = {} THEN 0
    ELSE 1 + Max({DepthOf(v.at[k]) : k \in DOMAIN v.at})
MCDepth == [v \in MCValues |-> DepthOf(v)]

MCDiffRequests == [before: Payloads, after: Payloads]
=============================================================================
