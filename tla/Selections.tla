------------------------------ MODULE Selections ------------------------------
(***************************************************************************)
(* What the loops of the program that build one list from another do:      *)
(* each is a function of how many elements it has seen.                    *)
(***************************************************************************)
EXTENDS Naturals, Sequences

\* The elements of s that are in S, in their order.
Kept(s, S) ==
  LET kept[n \in 0..Len(s)] ==
        IF n = 0 THEN <<>>
        ELSE IF s[n] \in S THEN Append(kept[n - 1], s[n])
        ELSE kept[n - 1]
  IN  kept[Len(s)]

\* Each element of s once, where it is first.
Deduplicated(s) ==
  LET seen[n \in 0..Len(s)] ==
        IF n = 0 THEN <<>>
        ELSE IF \E i \in DOMAIN seen[n - 1] : seen[n - 1][i] = s[n] THEN seen[n - 1]
        ELSE Append(seen[n - 1], s[n])
  IN  seen[Len(s)]
=============================================================================
