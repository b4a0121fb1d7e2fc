----------------------------- MODULE MCWorkflow -----------------------------
(* Small instances of Workflow for TLC.                                    *)
EXTENDS Workflow, TLC

Read == [kind |-> "read", gated |-> FALSE, keyed |-> FALSE, retry |-> 0,
         undo |-> FALSE, undoKeyed |-> FALSE, undoRetry |-> 0]
Wait == [Read EXCEPT !.kind = "wait"]
Event == [Read EXCEPT !.kind = "event"]

(* A write of the release's own, a project's, and one behind an approval:  *)
(* a project's by its declaration, the release's by a deployment's profile.*)
Write == [Read EXCEPT !.kind = "write", !.keyed = TRUE, !.undo = TRUE, !.undoKeyed = TRUE]
Project == [Write EXCEPT !.keyed = FALSE, !.undoKeyed = FALSE]
Gated == [Read EXCEPT !.kind = "write", !.gated = TRUE]
Profiled == [Gated EXCEPT !.keyed = TRUE]

Sagas == {<<Write, Write, Read>>}
GatesAndWaits == {<<[Write EXCEPT !.retry = 2]>>, <<[Gated EXCEPT !.retry = 2]>>,
                  <<[Profiled EXCEPT !.retry = 2]>>, <<Wait, Event>>}
Lively == {<<Write, Project, Read>>, <<Write, Gated>>, <<Wait, Event>>}
HolderSymmetry == Permutations(Holders)
=============================================================================
