------------------------- MODULE MCValidationLedger -------------------------
(* Instances of ValidationLedger for TLC.                                  *)
EXTENDS ValidationLedger, TLC

CONSTANTS c1, c2, t1, t2, q1, q2, e1, e2

\* a request object per attempt content; the two terminals share an object
MCEvidence ==
  [c \in Contents |-> CASE c = c1 -> {q1} [] c = c2 -> {q2}
                        [] c = t1 -> {e1} [] c = t2 -> {e1, e2}]

Symmetry == Permutations(Procs) \cup Permutations(AttemptIds)
=============================================================================
