------------------------- MODULE WorkflowRaceProofs -------------------------
(***************************************************************************)
(* What survives when a cancel and an approval act on what they read       *)
(* before: theorems over RaceSpec, for every value of the constants.       *)
(*                                                                         *)
(* IInv does not survive: a late cancel ends a run under a worker's lease. *)
(* Its part Base does, and the invariants of effects, successes and waits  *)
(* are inductive relative to Base, so what remains is to show that the two *)
(* late writes keep each of them.                                          *)
(***************************************************************************)
EXTENDS WorkflowRaces, WorkflowEffectProofs

-----------------------------------------------------------------------------
(* The steps of Workflow keep Base without the rest of IInv.               *)

Forwards == {"none", "queued", "running"}

(* A run that turned or ended does not go forward again.                   *)
LEMMA TurnedStays ==
  ASSUME Base, [Next]_vars, NEW r \in Runs, run[r].status \notin Forwards
  PROVE  run'[r].status \notin Forwards
<1> USE DEF Base, Forwards
<1>0. run \in [Runs -> RunRecord] /\ run[r] \in RunRecord
  BY DEF TypeOK
<1>1. CASE run' = run
  BY <1>1
<1>2. CASE Request \/ Clock
  <2>1. ASSUME NEW q \in Runs, NEW d \in Definitions, NEW dry \in BOOLEAN,
               Enqueue(q, d, dry)
        PROVE  run'[r] = run[r]
    BY <1>0, <2>1 DEF Enqueue
  <2>2. ASSUME NEW q \in Runs, Cancel(q)
        PROVE  run'[r] = run[r]
    BY <1>0, <2>2 DEF Cancel
  <2>3. ASSUME NEW row \in Rows, Reject(row)
        PROVE  run'[r].status = run[r].status
    BY <1>0, <2>3 DEF Reject, RunRecord
  <2>4. ASSUME NEW q \in Runs, RunOverdue(q)
        PROVE  run'[r].status = run[r].status
    BY <1>0, <2>4 DEF RunOverdue, RunRecord
  <2> QED BY <1>1, <1>2, <2>1, <2>2, <2>3, <2>4 DEF Request, Clock, Approve, Emit,
             SetAgent, LeaseLapses, ResumeDue
<1>3. ASSUME NEW h \in Holders, ClaimStep(h) \/ ClaimNothing(h)
      PROVE  run'[r].status \notin Forwards
  <2>1. SweptRuns[r] = run[r]
    BY DEF SweptRuns, Cancelling, TimedOut
  <2>2. SweptRuns \in [Runs -> RunRecord]
    BY SweptTyped DEF Typed
  <2>3. CASE ClaimNothing(h)
    BY <2>1, <2>3 DEF ClaimNothing
  <2>4. CASE ClaimStep(h)
    <3>1. PICK row \in Rows :
            run' = [SweptRuns EXCEPT
                      ![row.run].status = IF @ = "queued" THEN "running" ELSE @]
      BY <2>4 DEF ClaimStep, Claimable
    <3> QED BY <2>1, <2>2, <3>1 DEF RunRecord
  <2> QED BY <1>3, <2>3, <2>4
<1>4. ASSUME NEW h \in Holders, FinishUndo(h) \/ FinishForward(h)
      PROVE  run'[r].status \notin Forwards
  <2>1. work[h].row.run \in Runs
    BY <1>4, RowShape DEF FinishUndo, FinishForward, Recording, WorkOK, Busy
  <2>2. CASE FinishUndo(h)
    <3>1. run'[r] = run[r] \/ run'[r].status \in Ended
      BY <1>0, <2>1, <2>2, AfterUndoEnds DEF FinishUndo
    <3> QED BY <3>1 DEF Ended
  <2>3. CASE FinishForward(h)
    BY <1>0, <2>1, <2>3 DEF FinishForward, Going
  <2> QED BY <1>4, <2>2, <2>3
<1>5. ASSUME NEW h \in Holders, Start(h) \/ Crash(h) \/ Work(h)
      PROVE  run'[r].status \notin Forwards
  <2>1. CASE run' # run
    BY <1>3, <1>4, <1>5, <2>1 DEF Start, Crash, Work, WithdrawEnded, ReadGate, CloseGate,
       Mint, CallPlane, LeaseLost, FinishAbandoned, Park, AwaitEvent, RequestApproval
  <2> QED BY <1>1, <2>1
<1> QED BY <1>1, <1>2, <1>5 DEF Next, vars, Commit

LEMMA NextKeepsBase ==
  ASSUME Base, [Next]_vars
  PROVE  Base'
<1>1. Typing'
  BY NextTyped
<1>2. RowsAfterRequest'
  <2> SUFFICES ASSUME NEW row \in Rows, run'[row.run].status = "none"
               PROVE  step'[row].status = "absent"
    BY DEF RowsAfterRequest
  <2>1. run[row.run].status = "none"
    BY RowShape, NextKeepsBody
  <2>2. step[row].status = "absent"
    BY <2>1 DEF Base, RowsAfterRequest
  <2> QED BY <2>1, <2>2, StepMoves DEF Moves, Born, Unfinished
<1>3. UndoAfterTurn(run', step')
  <2> SUFFICES ASSUME NEW row \in Rows, row.phase = "undo", step'[row].status # "absent"
               PROVE  run'[row.run].status \notin Forwards
    BY DEF UndoAfterTurn, Forwards
  <2>1. CASE step[row].status # "absent"
    <3>1. run[row.run].status \notin Forwards
      BY <2>1 DEF Base, UndoAfterTurn, Forwards
    <3> QED BY <3>1, RowShape, TurnedStays
  <2>2. CASE step[row].status = "absent"
    <3>1. Born(row)
      BY <2>2, StepMoves DEF Moves, Unfinished
    <3> QED BY <3>1 DEF Born, Forwards
  <2> QED BY <2>1, <2>2
<1> QED BY <1>1, <1>2, <1>3 DEF Typing, Base

-----------------------------------------------------------------------------
(* What a late write changes.                                              *)

(* A run may become cancelled and a pending approval approved; what a run  *)
(* asked for, the statuses and waits of the rows, and what the workers and *)
(* the plane hold stay.                                                    *)
LateWrite ==
  /\ UNCHANGED <<work, active, upstream, ledger, log>>
  /\ run' \in [Runs -> RunRecord]
  /\ step' \in [Rows -> StepRecord]
  /\ approval' \in [Rows -> ApprovalRecord]
  /\ \A r \in Runs :
       /\ SameRequest(run'[r], run[r])
       /\ \/ run'[r].status = run[r].status /\ run'[r].cause = run[r].cause
          \/ run'[r].status = "cancelled"
  /\ \A row \in Rows : /\ step'[row].status = step[row].status
                       /\ step'[row].attempt = step[row].attempt
                       /\ step'[row].await = step[row].await
                       /\ step'[row].holder = step[row].holder
  /\ \A row \in Rows : approval[row].status \in Decided =>
                        approval'[row].status = approval[row].status

LEMMA CancelWritesLate ==
  ASSUME Base, NEW r \in Runs, CancelWrites(r)
  PROVE  LateWrite
<1>1. /\ run \in [Runs -> RunRecord] /\ step \in [Rows -> StepRecord]
      /\ approval \in [Rows -> ApprovalRecord]
  BY DEF Base, TypeOK
<1> DEFINE new == [run[r] EXCEPT !.status = "cancelled", !.cancel = TRUE]
<1>2. run' = [run EXCEPT ![r] = new]
  BY <1>1 DEF CancelWrites
<1>3. new \in RunRecord /\ SameRequest(new, run[r]) /\ new.status = "cancelled"
  BY <1>1 DEF RunRecord, RunStatus, Ended, SameRequest
<1> HIDE DEF new
<1>4. /\ run' \in [Runs -> RunRecord]
      /\ \A q \in Runs : IF q = r THEN run'[q] = new ELSE run'[q] = run[q]
  BY <1>1, <1>2, <1>3
<1>5. \A q \in Runs :
        /\ SameRequest(run'[q], run[q])
        /\ \/ run'[q].status = run[q].status /\ run'[q].cause = run[q].cause
           \/ run'[q].status = "cancelled"
  BY <1>3, <1>4 DEF SameRequest
<1> QED BY <1>1, <1>4, <1>5 DEF CancelWrites, LateWrite

LEMMA ApproveWritesLate ==
  ASSUME Base, NEW row \in Rows, ApproveWrites(row)
  PROVE  LateWrite
<1>1. /\ run \in [Runs -> RunRecord] /\ step \in [Rows -> StepRecord]
      /\ approval \in [Rows -> ApprovalRecord]
  BY DEF Base, TypeOK
<1>2. approval' \in [Rows -> ApprovalRecord]
  BY <1>1 DEF ApproveWrites, ApprovalRecord, ApprovalStatus, Decided
<1>3. \A other \in Rows : approval[other].status \in Decided =>
                           approval'[other].status = approval[other].status
  BY <1>1 DEF ApproveWrites, Decided
<1>4. step' \in [Rows -> StepRecord]
  <2>1. [step[row] EXCEPT !.due = @ \/ step[row].status = "parked"] \in StepRecord
    BY <1>1 DEF StepRecord
  <2> QED BY <1>1, <2>1 DEF ApproveWrites
<1>5. \A other \in Rows : /\ step'[other].status = step[other].status
                          /\ step'[other].attempt = step[other].attempt
                          /\ step'[other].await = step[other].await
                          /\ step'[other].holder = step[other].holder
  BY <1>1 DEF ApproveWrites, StepRecord
<1> QED BY <1>1, <1>2, <1>3, <1>4, <1>5 DEF ApproveWrites, LateWrite, SameRequest

(* What a requested run's row asks for stays.                              *)
LEMMA LateKeepsKind ==
  ASSUME LateWrite, NEW row \in Rows
  PROVE  /\ ElementOf(row)' = ElementOf(row)
         /\ KindOf(row)' = KindOf(row)
         /\ IsGated(row)' = IsGated(row)
         /\ Keyed(row)' = Keyed(row)
         /\ (Real(row))' <=> Real(row)
BY RowShape DEF LateWrite, SameRequest, KindOf, IsGated, Keyed, ElementOf, Real

LEMMA LateKeepsBase ==
  ASSUME Base, LateWrite
  PROVE  Base'
<1>1. TypeOK' /\ WorkOK'
  BY DEF LateWrite, Base, TypeOK, WorkOK
<1>2. CauseKnown'
  BY DEF LateWrite, Base, CauseKnown
<1>3. RowsAfterRequest' /\ UndoAfterTurn(run', step')
  BY RowShape DEF LateWrite, Base, RowsAfterRequest, UndoAfterTurn
<1> QED BY <1>1, <1>2, <1>3 DEF Base

LEMMA LateKeepsEnqueued ==
  ASSUME Base, EnqueuedInv, LateWrite
  PROVE  EnqueuedInv'
<1>1. \A r \in Runs : run[r].status # "none" => run'[r].status # "none"
  BY DEF LateWrite
<1>2. /\ \A h \in Holders : work[h].pc \in Busy => work[h].row.run \in Runs
      /\ \A call \in upstream : call.row.run \in Runs
      /\ \A i \in 1..Len(log) : log[i].row.run \in Runs
  BY LogRows, RowShape DEF Base, WorkOK, TypeOK, Calls
<1> QED BY <1>1, <1>2 DEF LateWrite, EnqueuedInv

LEMMA LateKeepsKeyed ==
  ASSUME KeyedInv, LateWrite
  PROVE  KeyedInv'
<1>1. \A row \in Rows : Keyed(row)' = Keyed(row)
  BY LateKeepsKind
<1>2. \A row : Logged(row)' <=> Logged(row)
  BY DEF LateWrite, Logged
<1> QED BY <1>1, <1>2 DEF LateWrite, KeyedInv

LEMMA LateKeepsGated ==
  ASSUME GatedInv, LateWrite
  PROVE  GatedInv'
<1> SUFFICES ASSUME NEW row \in Rows, IsGated(row)', Trusted(row)'
             PROVE  approval'[row].status = "approved"
  BY DEF GatedInv
<1>1. IsGated(row)
  BY LateKeepsKind
<1>2. Trusted(row)
  BY DEF LateWrite, Trusted, Logged
<1>3. approval[row].status = "approved"
  BY <1>1, <1>2 DEF GatedInv
<1> QED BY <1>3 DEF LateWrite, Decided

LEMMA LateKeepsClaim ==
  ASSUME CountInv, ClaimInv, LateWrite
  PROVE  CountInv' /\ ClaimInv'
<1>1. /\ \A call : Committed(call)' <=> Committed(call)
      /\ \A h, call : Handed(h, call)' <=> Handed(h, call)
  BY DEF LateWrite, Committed, Handed, CallOf
<1>2. \A call : Made(call)' <=> Made(call)
  BY <1>1 DEF LateWrite, Made
<1>3. CountInv'
  BY <1>2 DEF LateWrite, CountInv, Calls
<1>4. ClaimInv'
  BY <1>1 DEF LateWrite, ClaimInv
<1> QED BY <1>3, <1>4

LEMMA LateKeepsDone ==
  ASSUME Base, DoneInv, LateWrite
  PROVE  DoneInv'
<1>0. log' = log /\ work' = work /\ ledger' = ledger
  BY DEF LateWrite
<1>1. \A row : Logged(row)' <=> Logged(row)
  BY <1>0 DEF Logged
<1>2. \A row \in Rows : <<row>> \in ledger' => Logged(row)'
  BY <1>0, <1>1 DEF DoneInv
<1>3. ASSUME NEW h \in Holders, Recording(h, Good)', Real(work[h].row)'
      PROVE  Logged(work[h].row)'
  <2>1. Recording(h, Good)
    BY <1>0, <1>3 DEF Recording
  <2>2. PICK row \in Rows : row = work[h].row /\ row = work'[h].row
    BY <1>0, <2>1 DEF Base, WorkOK, Recording, Busy
  <2>3. Real(row)'
    BY <1>3, <2>2 DEF Real, KindOf, ElementOf
  <2>4. Real(row)
    BY <2>3, LateKeepsKind
  <2> QED BY <1>0, <2>1, <2>2, <2>4 DEF DoneInv, Logged
<1>4. SucceededMeansDone'
  <2> SUFFICES ASSUME NEW row \in Rows, step'[row].status = "succeeded", Real(row)'
               PROVE  DoneBefore(row, Len(log) + 1)'
    BY DEF SucceededMeansDone, Real, KindOf, ElementOf
  <2>1. step[row].status = "succeeded" /\ Real(row)
    BY LateKeepsKind DEF LateWrite
  <2>2. DoneBefore(row, Len(log) + 1)
    BY <2>1 DEF DoneInv, SucceededMeansDone, Real
  <2> QED BY <1>0, <2>2 DEF DoneBefore
<1> QED BY <1>2, <1>3, <1>4 DEF DoneInv

LEMMA LateKeepsWaits ==
  ASSUME Base, WaitInv, LateWrite
  PROVE  WaitInv'
<1>0. work' = work
  BY DEF LateWrite
<1>1. \A row \in Rows : /\ step'[row].status = step[row].status
                        /\ step'[row].await = step[row].await
                        /\ step'[row].holder = step[row].holder
                        /\ KindOf(row)' = KindOf(row)
  BY LateKeepsKind DEF LateWrite
<1>2. ServedWaitSucceeds'
  BY <1>1 DEF WaitInv, ServedWaitSucceeds
<1>3. \A row \in Rows : step'[row].await # "no" =>
                          step'[row].status # "absent" /\ KindOf(row)' = "event"
  BY <1>1 DEF WaitInv
<1>4. ASSUME NEW h \in Holders, work'[h].pc \in Busy
      PROVE  /\ work'[h].pc \in {"mint", "call", "close"} => KindOf(work[h].row)' # "event"
             /\ Recording(h, {"await"})' => KindOf(work[h].row)' = "event"
             /\ (/\ Recording(h, Outcomes \ Good) /\ Holds(h, work[h].row)
                 /\ KindOf(work[h].row) = "event"
                 => step[work[h].row].await # "served")'
  <2>1. PICK row \in Rows : row = work[h].row /\ row = work'[h].row
    BY <1>0, <1>4 DEF Base, WorkOK
  <2>2. WorkerWaits(h, row)
    BY <2>1 DEF WorkerWaits, WaitInv
  <2>3. WorkerWaits(h, row)'
    BY <1>0, <1>1, <2>2 DEF WorkerWaits, Recording, Holds
  <2> QED BY <2>1, <2>3 DEF WorkerWaits, KindOf, ElementOf, Holds, Recording
<1>5. \A h \in Holders : work'[h].pc \in {"mint", "call", "close", "record"} => work'[h].pc \in Busy
  BY DEF Busy
<1> QED BY <1>2, <1>3, <1>4, <1>5 DEF WaitInv, Recording

-----------------------------------------------------------------------------
(* A step of RaceSpec is one of Workflow, a late write, or changes neither.*)

RaceMoves == [Next]_vars \/ LateWrite

LEMMA RaceStepMoves ==
  ASSUME Base, [RaceNext]_raceVars
  PROVE  RaceMoves
<1>1. CASE UNCHANGED raceVars
  BY <1>1 DEF raceVars, vars, RaceMoves
<1>2. CASE Next
  BY <1>2 DEF RaceMoves
<1>3. ASSUME NEW r \in Runs, CancelReads(r) \/ CancelWrites(r)
      PROVE  RaceMoves
  BY <1>3, CancelWritesLate DEF CancelReads, RaceMoves
<1>4. ASSUME NEW row \in Rows, ApproveBegins(row) \/ ApproveWrites(row)
      PROVE  RaceMoves
  BY <1>4, ApproveWritesLate DEF ApproveBegins, RaceMoves
<1> QED BY <1>1, <1>2, <1>3, <1>4 DEF RaceNext

RaceInv ==
  /\ Base /\ EnqueuedInv /\ KeyedInv /\ GatedInv
  /\ CountInv /\ ClaimInv /\ DoneInv /\ WaitInv

LEMMA RaceKeepsInv ==
  ASSUME RaceInv, [RaceNext]_raceVars
  PROVE  RaceInv'
<1> USE DEF RaceInv
<1>1. CASE [Next]_vars
  <2>1. Base' /\ EnqueuedInv' /\ KeyedInv' /\ GatedInv'
    BY <1>1, NextKeepsBase, NextKeepsEnqueued, NextKeepsKeyed, NextKeepsGated
  <2>2. CountInv' /\ ClaimInv'
    BY <1>1, NextKeepsCount, NextKeepsClaim
  <2>3. DoneInv' /\ WaitInv'
    BY <1>1, NextKeepsDone, NextKeepsWaits
  <2> QED BY <2>1, <2>2, <2>3
<1>2. CASE LateWrite
  <2>1. Base' /\ EnqueuedInv' /\ KeyedInv' /\ GatedInv'
    BY <1>2, LateKeepsBase, LateKeepsEnqueued, LateKeepsKeyed, LateKeepsGated
  <2>2. CountInv' /\ ClaimInv' /\ DoneInv' /\ WaitInv'
    BY <1>2, LateKeepsClaim, LateKeepsDone, LateKeepsWaits
  <2> QED BY <2>1, <2>2
<1> QED BY <1>1, <1>2, RaceStepMoves DEF RaceMoves

LEMMA RaceInvariance == RaceSpec => []RaceInv
<1>1. RaceInit => RaceInv
  <2> SUFFICES ASSUME RaceInit PROVE RaceInv
    OBVIOUS
  <2>1. Base
    BY InitIInv DEF RaceInit, IInv
  <2>2. EnqueuedInv /\ KeyedInv /\ GatedInv
    BY DEF RaceInit, Init, EnqueuedInv, KeyedInv, GatedInv, Trusted, Logged, Idle, Busy
  <2>3. CountInv /\ ClaimInv
    BY ClaimsStart DEF RaceInit
  <2>4. DoneInv
    BY DEF RaceInit, Init, DoneInv, SucceededMeansDone, Recording, Absent, Idle
  <2>5. WaitInv
    BY DEF RaceInit, Init, WaitInv, ServedWaitSucceeds, Absent, Idle, Recording
  <2> QED BY <2>1, <2>2, <2>3, <2>4, <2>5 DEF RaceInv
<1>2. RaceInv /\ [RaceNext]_raceVars => RaceInv'
  BY RaceKeepsInv
<1> QED BY <1>1, <1>2, PTL DEF RaceSpec

-----------------------------------------------------------------------------

(* However late a cancel lands, and whichever transaction approves, a      *)
(* write that claims its key commits its effect once: the ledger decides.  *)
THEOREM RacesCommitOnce == RaceSpec => []OneEffectPerKey
<1>1. RaceInv => OneEffectPerKey
  BY LogRows DEF RaceInv, Base, KeyedInv, OneEffectPerKey
<1> QED BY <1>1, RaceInvariance, PTL

(* And a write that claims none commits its effect at most once per claim: *)
(* neither race hands out a claim again.                                   *)
THEOREM RacesCommitPerClaim == RaceSpec => []OneEffectPerClaim
<1>1. RaceInv => OneEffectPerClaim
  BY ClaimsMeanOne DEF RaceInv, Base
<1> QED BY <1>1, RaceInvariance, PTL

(* An approval that outlives its window between the transaction's start    *)
(* and its write still precedes the effect it permits, and a late cancel   *)
(* withdraws none.                                                         *)
THEOREM RacesNeedApproval == RaceSpec => []EffectNeedsApproval
<1>1. RaceInv => EffectNeedsApproval
  BY GatedMeansApproved DEF RaceInv, Base
<1> QED BY <1>1, RaceInvariance, PTL

(* A write recorded as succeeded has taken effect, also in a run that a    *)
(* late cancel ended under its worker.                                     *)
THEOREM RacesRecordTruth == RaceSpec => []SucceededMeansDone
<1>1. RaceInv => SucceededMeansDone
  BY DEF RaceInv, DoneInv
<1> QED BY <1>1, RaceInvariance, PTL

(* No late write fails an event wait that was served.                      *)
THEOREM RacesKeepServed == RaceSpec => []ServedWaitSucceeds
<1>1. RaceInv => ServedWaitSucceeds
  BY DEF RaceInv, WaitInv
<1> QED BY <1>1, RaceInvariance, PTL

(* An approve that began before another decision or an expiry finds the    *)
(* approval no longer pending under its lock, and rewrites nothing.        *)
THEOREM RacesKeepDecisions == RaceSpec => DecisionIsFinal
<1>1. RaceInv /\ [RaceNext]_raceVars =>
        [\A row \in Rows : approval[row].status \in Decided =>
                             approval'[row].status = approval[row].status]_vars
  <2> SUFFICES ASSUME RaceInv, [RaceNext]_raceVars, NEW row \in Rows,
                      approval[row].status \in Decided
               PROVE  approval'[row].status = approval[row].status
    OBVIOUS
  <2>1. RaceMoves
    BY RaceStepMoves DEF RaceInv
  <2> QED BY <2>1, NextKeepsDecision DEF RaceMoves, LateWrite, RaceInv, Base
<1> QED BY <1>1, RaceInvariance, PTL DEF RaceSpec, DecisionIsFinal
=============================================================================
