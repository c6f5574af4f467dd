--------------------------- MODULE MCAppRepoLink ---------------------------
(***************************************************************************)
(* Small instances of AppRepoLink: one application and two repositories     *)
(* that share one of two codes, with a name that carries both codes, so     *)
(* that first-match-wins and a rename away from a code happen; and one of   *)
(* each with one code, whose rows are replayed.                             *)
(***************************************************************************)
EXTENDS AppRepoLink

CONSTANTS c1, c2

MCOneCode  == {c1}
MCOneName  == {<<c1>>}
MCCodes    == {c1, c2}
MCTwoNames == {<<c1>>, <<c2, c1>>}
=============================================================================
