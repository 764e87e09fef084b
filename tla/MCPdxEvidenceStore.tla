-------------------------- MODULE MCPdxEvidenceStore --------------------------
(* Values of the constants of PdxEvidenceStore for TLC.                    *)
EXTENDS PdxEvidenceStore, TLC

CONSTANTS p1, p2, a1, a2, bad, c1, c2, h1, h2, v1, good, other

\* a1 and a2 agree on c1 and disagree on c2
MCCaptures ==
  [r \in Raws |-> IF r = a1 THEN {<<c1, h1>>, <<c2, h1>>}
                  ELSE IF r = a2 THEN {<<c1, h1>>, <<c2, h2>>} ELSE {}]
MCVersion == [r \in Raws |-> v1]
MCMatches == [r \in Raws |-> IF r = a2 THEN {good, other} ELSE {good}]

Symmetry == Permutations(Processes)
=============================================================================
