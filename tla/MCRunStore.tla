----------------------------- MODULE MCRunStore -----------------------------
(* Values of the constants of RunStore for TLC.                            *)
EXTENDS RunStore, TLC

CONSTANTS s1, f1, f2, j1, ps, pf1, pf2, pc, pj, pk, r1, r2, r3

MCCasePlans == (s1 :> {ps}) @@ (f1 :> {pc}) @@ (f2 :> {}) @@ (j1 :> {pj, pk})
MCSeedPlan == (f1 :> pf1) @@ (f2 :> pf2)
MCBaseSize == (s1 :> 2) @@ (f1 :> 1) @@ (f2 :> 1) @@ (j1 :> 2)
=============================================================================
