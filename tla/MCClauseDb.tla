----------------------------- MODULE MCClauseDb -----------------------------
(***************************************************************************)
(* Small instances of ClauseDb.  One builtin and one rule stand for all    *)
(* that retract() must skip; the facts are what programs add and remove.   *)
(***************************************************************************)
EXTENDS ClauseDb

CONSTANTS b, r, f1, f2

MCBuiltins == <<b>>
SmallClauses == {b, r, f1, f2}
SmallFacts == {f1, f2}
=============================================================================
