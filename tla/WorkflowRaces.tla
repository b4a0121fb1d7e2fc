---------------------------- MODULE WorkflowRaces ----------------------------
(***************************************************************************)
(* Workflow takes each SQL function for one atomic step.  Two of them are  *)
(* not, under the READ COMMITTED isolation they run at: what they read     *)
(* first may be stale by the time they write.                              *)
(*                                                                         *)
(*   workflow_cancel reads the run's status without locking the row, and   *)
(*   then updates it by id alone.                                          *)
(*                                                                         *)
(*   workflow_decide_approval locks and re-reads the approval, but the     *)
(*   now() it compares the expiry with is the transaction's start.         *)
(*                                                                         *)
(* This module adds the two halves of each to Workflow's steps.            *)
(***************************************************************************)
EXTENDS Workflow

VARIABLES
  cancels,   \* the runs a cancel has read as queued and not yet written
  approvals  \* the rows an approve has begun in time and not yet written

raceVars == <<run, step, approval, work, active, upstream, ledger, log, cancels, approvals>>

RaceInit == Init /\ cancels = {} /\ approvals = {}

(* SELECT * INTO target: the status is queued, and no lock is taken.       *)
CancelReads(r) ==
  /\ run[r].status = "queued"
  /\ cancels' = cancels \cup {r}
  /\ UNCHANGED <<vars, approvals>>

(* UPDATE ... WHERE id = p_run: whatever the run has become.               *)
CancelWrites(r) ==
  /\ r \in cancels
  /\ cancels' = cancels \ {r}
  /\ run' = [run EXCEPT ![r].status = "cancelled", ![r].cancel = TRUE]
  /\ UNCHANGED <<step, approval, work, active, upstream, ledger, log, approvals>>

(* The transaction begins, and its now() is fixed, inside the window.      *)
ApproveBegins(row) ==
  /\ Decidable(row)
  /\ approvals' = approvals \cup {row}
  /\ UNCHANGED <<vars, cancels>>

ApproveWritesUnlocked(row) ==
  /\ row \in approvals
  /\ approvals' = approvals \ {row}
  /\ approval' = [approval EXCEPT ![row].status = "approved"]
  /\ step' = [step EXCEPT ![row].due = @ \/ step[row].status = "parked"]
  /\ UNCHANGED <<run, work, active, upstream, ledger, log, cancels>>

(* The row lock shows it still pending and the run still running; the      *)
(* expiry is compared with the transaction's start, so it cannot refuse.   *)
ApproveWrites(row) ==
  /\ row \in approvals
  /\ approvals' = approvals \ {row}
  /\ approval[row].status = "pending" /\ run[row.run].status = "running"
  /\ approval' = [approval EXCEPT ![row].status = "approved"]
  /\ step' = [step EXCEPT ![row].due = @ \/ step[row].status = "parked"]
  /\ UNCHANGED <<run, work, active, upstream, ledger, log, cancels>>

RaceNext ==
  \/ Next /\ UNCHANGED <<cancels, approvals>>
  \/ \E r \in Runs : CancelReads(r) \/ CancelWrites(r)
  \/ \E row \in Rows : ApproveBegins(row) \/ ApproveWrites(row)

RaceSpec == RaceInit /\ [][RaceNext]_raceVars

-----------------------------------------------------------------------------

(* What docs/workflows.md says of a compensation: a write the worker makes *)
(* if this step succeeded and the run is cancelled.                        *)
CancelledIsUndone ==
  \A r \in Runs : run[r].status = "cancelled" =>
    \A i \in 1..Len(run[r].body) :
      /\ run[r].body[i].undo
      /\ step[Forward(r, i)].status = "succeeded"
      => step[Undo(r, i)].status # "absent"

=============================================================================
