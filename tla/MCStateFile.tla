----------------------------- MODULE MCStateFile -----------------------------
(* Two collectors, rows of one and of two records, a contract of one rule, a history of two events. *)
EXTENDS StateFile, TLC

CONSTANTS c1, c2, r1, r2, price

MCSnapshots == {<<r2>>, <<r1, r2>>}
Symmetric == Permutations(Collectors)
==============================================================================
