---------------------------- MODULE LinkRegistry ----------------------------
(***************************************************************************)
(* What silver.app_repo_mapping promises its readers (the gold notebooks,   *)
(* the open-findings view and, through it, the gate): a registry of         *)
(* application-repository links that only ever grows, in which a link is    *)
(* stamped with the time of the last linker run that saw it, and no link    *)
(* is ever stamped with a time before one it already carries or after now.  *)
(*                                                                         *)
(* The linker job of AppRepoLink implements this specification.             *)
(***************************************************************************)
EXTENDS Naturals

CONSTANT Keys   \* the (application_id, repository_id) pairs

VARIABLES
    now,        \* wall-clock time, at least 1
    stamp       \* stamp[k] is linked_at of the link k, 0 while k is absent

vars == <<now, stamp>>

Init == /\ now = 1
        /\ stamp = [k \in Keys |-> 0]

Tick == /\ now' = now + 1
        /\ UNCHANGED stamp

(***************************************************************************)
(* One linker run publishes a batch of links under one timestamp.  The      *)
(* timestamp was taken earlier in the run, so it may lie in the past, but   *)
(* never before a stamp of the registry.                                    *)
(***************************************************************************)
Publish(batch, t) ==
    /\ t <= now
    /\ \A k \in Keys : stamp[k] <= t
    /\ stamp' = [k \in Keys |-> IF k \in batch THEN t ELSE stamp[k]]
    /\ UNCHANGED now

Next == \/ Tick
        \/ \E batch \in SUBSET Keys, t \in 1..now : Publish(batch, t)

Spec == Init /\ [][Next]_vars
=============================================================================
