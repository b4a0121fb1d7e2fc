------------------------- MODULE WorkflowEffectProofs -------------------------
(***************************************************************************)
(* Theorems about what the runs of Workflow have done to the world: that a *)
(* write recorded as succeeded took effect, that a claim's call is         *)
(* committed at most once, that effects fall in the definition's order,    *)
(* and that compensation undoes what was done, in reverse.                 *)
(*                                                                         *)
(* Each invariant here is inductive relative to IInv and to the ones       *)
(* before it.  They rest on lemmas that say how one step of the system may *)
(* move the status of a row, a run and a worker.                           *)
(***************************************************************************)
EXTENDS WorkflowProofs

-----------------------------------------------------------------------------
(* How a step moves the rows.                                              *)

Finishes(h, row) == (FinishUndo(h) \/ FinishForward(h)) /\ work[h].row = row

(* A row appears with its run's request, or with the turn of a run going   *)
(* forward, and then for a step that succeeded and declares a compensation.*)
Born(row) ==
  /\ step[row].status = "absent"
  /\ \/ /\ row.phase = "forward" /\ run[row.run].status = "none"
        /\ step'[row].status = "queued" /\ run'[row.run].status = "queued"
     \/ /\ row.phase = "undo" /\ run[row.run].status \in {"queued", "running"}
        /\ run'[row.run].status = "compensating"
        /\ row.pos \in ToUndo(row.run, step')
        /\ step'[row].status \in {"queued", "claimed"}

Moves(row) ==
  \/ step'[row].status = step[row].status
  \/ Born(row)
  \/ /\ step[row].status \in Unfinished /\ step'[row].status = "claimed"
     /\ run'[row.run].status \in {"running", "compensating"}
  \/ step[row].status = "claimed" /\ step'[row].status \in {"queued", "parked"}
  \/ /\ step[row].status = "claimed"
     /\ \E h \in Holders :
          Finishes(h, row) /\ step'[row].status = FinishedStatus(work[h].verdict)

(* The undo rows a turn of the runs in ending creates are the ones of the  *)
(* steps that succeeded, before and after it.                              *)
LEMMA BegunRows ==
  ASSUME NEW ending \in SUBSET Runs, NEW ss \in [Rows -> StepRecord], NEW row \in Rows
  PROVE  \/ BegunSteps(ending, ss)[row] = ss[row]
         \/ /\ row.phase = "undo" /\ row.run \in ending
            /\ row.pos \in ToUndo(row.run, ss)
            /\ BegunSteps(ending, ss)[row].status = "queued"
BY DEF BegunSteps, NewStep, Absent

(* Forward rows that succeeded in both succeeded in either.                *)
LEMMA ToUndoSame ==
  ASSUME NEW ss, NEW ss2, NEW r \in Runs,
         \A i \in 1..Len(run[r].body) :
           (ss[Forward(r, i)].status = "succeeded") <=>
             (ss2[Forward(r, i)].status = "succeeded")
  PROVE  ToUndo(r, ss) = ToUndo(r, ss2)
BY DEF ToUndo

(* The definition of a run has no more steps than there are positions.     *)
LEMMA BodyPositions ==
  ASSUME TypeOK, NEW r \in Runs, NEW i \in 1..Len(run[r].body)
  PROVE  /\ i \in Positions
         /\ run[r].body \in Definitions
         /\ Forward(r, i) \in Rows /\ Undo(r, i) \in Rows
<1>1. run[r].body \in Definitions \cup {<<>>}
  BY DEF TypeOK, RunRecord
<1>2. run[r].body # <<>>
  OBVIOUS
<1>3. Len(run[r].body) \in 1..MaxSteps
  BY <1>1, <1>2, DefinitionsAssumption
<1> QED BY <1>1, <1>2, <1>3, RowsOfRun, StepsAssumption DEF Positions

LEMMA QuietMoves ==
  ASSUME Base, NEW row \in Rows,
         \/ \E r \in Runs : Cancel(r)
         \/ \E other \in Rows : Approve(other) \/ Reject(other)
         \/ \E matched \in SUBSET {other \in Rows : Servable(other)} : Emit(matched)
         \/ SetAgent
         \/ Clock
         \/ \E call \in upstream : Commit(call)
         \/ \E h \in Holders : \/ Start(h) \/ Crash(h) \/ WithdrawEnded(h)
                              \/ ReadGate(h) \/ CloseGate(h) \/ Mint(h)
                              \/ CallPlane(h) \/ LeaseLost(h)
  PROVE  step'[row].status = step[row].status
<1>0. step \in [Rows -> StepRecord]
  BY DEF Base, TypeOK
<1>1. ASSUME NEW other \in Rows, Approve(other)
      PROVE  step'[row].status = step[row].status
  BY <1>0, <1>1 DEF Approve, StepRecord
<1>2. ASSUME NEW matched, Emit(matched)
      PROVE  step'[row].status = step[row].status
  BY <1>0, <1>2 DEF Emit, StepRecord
<1>3. ASSUME NEW other \in Rows, LeaseLapses(other) \/ ResumeDue(other)
      PROVE  step'[row].status = step[row].status
  BY <1>0, <1>3 DEF LeaseLapses, ResumeDue, StepRecord
<1>4. CASE step' = step
  BY <1>4
<1>5. CASE step' # step
  <2>1. \/ \E other \in Rows : Approve(other) \/ LeaseLapses(other) \/ ResumeDue(other)
        \/ \E matched : Emit(matched)
    BY <1>5 DEF Cancel, Reject, SetAgent, Clock, RunOverdue, Commit, Start, Crash,
                WithdrawEnded, ReadGate, CloseGate, Mint, CallPlane, LeaseLost
  <2> QED BY <1>1, <1>2, <1>3, <2>1
<1> QED BY <1>4, <1>5

(* The sweep of a claim turns or ends runs going forward, and creates the  *)
(* undo rows of their steps that succeeded.                                *)
Swept == Cancelling \cup TimedOut

LEMMA SweepRows ==
  ASSUME Base
  PROVE  /\ SweptSteps \in [Rows -> StepRecord]
         /\ \A r \in Swept : r \in Runs /\ Going(r)
         /\ \A row \in Rows :
              IF /\ row.phase = "undo" /\ row.run \in Swept
                 /\ row.pos \in ToUndo(row.run, step)
              THEN step[row].status = "absent" /\ SweptSteps[row].status = "queued"
              ELSE SweptSteps[row] = step[row]
<1> USE DEF Base
<1>1. step \in [Rows -> StepRecord] /\ SweptSteps \in [Rows -> StepRecord]
  BY SweptTyped DEF TypeOK, Typed
<1>2. \A r \in Swept : r \in Runs /\ Going(r)
  BY DEF Swept, Cancelling, TimedOut, Going
<1>3. \A row \in Rows : row.phase = "undo" /\ row.run \in Swept =>
                         step[row].status = "absent"
  BY <1>2 DEF Going, UndoAfterTurn
<1>4. SweptSteps = BegunSteps(Swept, step)
  BY DEF SweptSteps, Swept
<1>5. \A row \in Rows :
        IF /\ row.phase = "undo" /\ row.run \in Swept
           /\ row.pos \in ToUndo(row.run, step)
        THEN SweptSteps[row].status = "queued"
        ELSE SweptSteps[row] = step[row]
  BY <1>4 DEF BegunSteps, NewStep, Absent
<1> QED BY <1>1, <1>2, <1>3, <1>5

(* Then at most one row is claimed, one that was waiting or held lapsed.   *)
LEMMA ClaimRows ==
  ASSUME Base, NEW h \in Holders, ClaimStep(h) \/ ClaimNothing(h)
  PROVE  \A row \in Rows :
           \/ step'[row] = SweptSteps[row]
           \/ /\ SweptSteps[row].status \in Unfinished
              /\ step'[row].status = "claimed"
              /\ run'[row.run].status \in {"running", "compensating"}
<1>0. SweptSteps \in [Rows -> StepRecord] /\ SweptRuns \in [Runs -> RunRecord]
  BY SweptTyped DEF Base, Typed
<1>1. CASE ClaimNothing(h)
  BY <1>1 DEF ClaimNothing
<1>2. CASE ClaimStep(h)
  <2>1. PICK claimed \in Claimable(SweptRuns, SweptSteps) :
          /\ step' = [SweptSteps EXCEPT ![claimed] = ClaimedStep(@, h)]
          /\ run' = [SweptRuns EXCEPT
               ![claimed.run].status = IF @ = "queued" THEN "running" ELSE @]
    BY <1>2 DEF ClaimStep
  <2>2. claimed \in Rows /\ SweptSteps[claimed].status \in Unfinished
    BY DEF Claimable, Available, Unfinished
  <2>3. ClaimedStep(SweptSteps[claimed], h).status = "claimed"
    BY <1>0, <2>2 DEF ClaimedStep, StepRecord
  <2>4. run'[claimed.run].status \in {"running", "compensating"}
    <3>1. claimed.run \in Runs
      BY <2>2, RowShape
    <3>2. SweptRuns[claimed.run].status \in {"queued", "running", "compensating"}
      BY DEF Claimable, ForwardTurn, UndoTurn
    <3> QED BY <1>0, <2>1, <3>1, <3>2 DEF RunRecord
  <2> QED BY <1>0, <2>1, <2>2, <2>3, <2>4
<1> QED BY <1>1, <1>2

LEMMA ClaimMoves ==
  ASSUME Base, NEW row \in Rows, NEW h \in Holders, ClaimStep(h) \/ ClaimNothing(h)
  PROVE  Moves(row)
<1>1. row.run \in Runs /\ TypeOK
  BY RowShape DEF Base
<1>2. ToUndo(row.run, step') = ToUndo(row.run, step)
  <2>1. ASSUME NEW i \in 1..Len(run[row.run].body)
        PROVE  (step[Forward(row.run, i)].status = "succeeded") <=>
                 (step'[Forward(row.run, i)].status = "succeeded")
    <3>1. Forward(row.run, i) \in Rows /\ Forward(row.run, i).phase = "forward"
      BY <1>1, BodyPositions DEF Forward
    <3>2. SweptSteps[Forward(row.run, i)] = step[Forward(row.run, i)]
      BY <3>1, SweepRows
    <3> QED BY <3>1, <3>2, ClaimRows DEF Unfinished
  <2> QED BY <1>1, <2>1, ToUndoSame
<1>3. CASE SweptSteps[row] = step[row]
  BY <1>3, ClaimRows DEF Moves
<1>4. CASE SweptSteps[row] # step[row]
  <2>1. /\ row.phase = "undo" /\ row.run \in Swept /\ row.pos \in ToUndo(row.run, step)
        /\ step[row].status = "absent" /\ SweptSteps[row].status = "queued"
    BY <1>4, SweepRows
  <2>2. step'[row].status \in {"queued", "claimed"}
    BY <2>1, ClaimRows
  <2>3. run'[row.run].status = "compensating"
    <3>1. SweptRuns \in [Runs -> RunRecord] /\ run[row.run] \in RunRecord
      BY <1>1, SweptTyped DEF Typed, TypeOK
    <3>2. SweptRuns[row.run].status = "compensating"
      <4>1. \E cause : SweptRuns[row.run] = BegunRun(row.run, cause, step)
        BY <1>1, <2>1 DEF Swept, SweptRuns
      <4> QED BY <2>1, <3>1, <4>1 DEF BegunRun, RunRecord
    <3>3. CASE ClaimNothing(h)
      BY <3>2, <3>3 DEF ClaimNothing
    <3>4. CASE ClaimStep(h)
      <4>1. PICK claimed \in Rows :
              run' = [SweptRuns EXCEPT
                        ![claimed.run].status = IF @ = "queued" THEN "running" ELSE @]
        BY <3>4 DEF ClaimStep, Claimable
      <4> QED BY <1>1, <3>1, <3>2, <4>1 DEF RunRecord
    <3> QED BY <3>3, <3>4
  <2> QED BY <1>2, <2>1, <2>2, <2>3, SweepRows DEF Moves, Born, Going
<1> QED BY <1>3, <1>4

(* A finish moves its own row, and may turn its run.                       *)
LEMMA FinishMoves ==
  ASSUME Base, NEW row \in Rows, NEW h \in Holders, FinishUndo(h) \/ FinishForward(h)
  PROVE  Moves(row)
<1> USE DEF Base
<1> DEFINE held == work[h].row
           status == FinishedStatus(work[h].verdict)
           steps == [step EXCEPT ![held] = Released(@, status)]
<1>0. step \in [Rows -> StepRecord] /\ row.run \in Runs
  BY RowShape DEF TypeOK
<1>1. held \in Rows /\ step[held].status = "claimed"
  BY DEF FinishUndo, FinishForward, Recording, WorkOK, Busy, Holds
<1>2. status \in {"succeeded", "failed"}
  BY DEF FinishedStatus
<1>3. /\ steps \in [Rows -> StepRecord] /\ steps[held].status = status
      /\ \A other \in Rows \ {held} : steps[other] = step[other]
  <2>1. Released(step[held], status) \in StepRecord
    BY <1>0, <1>1, <1>2, ReleasedTyped DEF StepStatus
  <2>2. Released(step[held], status).status = status
    BY <1>0, <1>1 DEF Released, StepRecord
  <2> QED BY <1>0, <1>1, <2>1, <2>2
<1>4. \/ step' = steps
      \/ /\ FinishForward(h) /\ held.phase = "forward" /\ Going(held.run)
         /\ step' = BegunSteps({held.run}, steps)
         /\ run' = [run EXCEPT ![held.run] = BegunRun(held.run, "failed", steps)]
  BY DEF FinishUndo, FinishForward
<1>5. Finishes(h, held)
  BY DEF Finishes
<1>6. status = FinishedStatus(work[h].verdict)
  OBVIOUS
<1> HIDE DEF held, status, steps
<1>7. CASE step'[row] = steps[row]
  <2>1. CASE row = held
    BY <1>1, <1>3, <1>5, <1>6, <1>7, <2>1 DEF Moves
  <2>2. CASE row # held
    BY <1>3, <1>7, <2>2 DEF Moves
  <2> QED BY <2>1, <2>2
<1>8. CASE step'[row] # steps[row]
  <2>1. /\ held.phase = "forward" /\ Going(held.run)
        /\ step' = BegunSteps({held.run}, steps)
        /\ run' = [run EXCEPT ![held.run] = BegunRun(held.run, "failed", steps)]
    BY <1>4, <1>8
  <2>2. /\ row.phase = "undo" /\ row.run = held.run
        /\ row.pos \in ToUndo(row.run, steps) /\ step'[row].status = "queued"
    <3>1. {held.run} \in SUBSET Runs
      BY <1>1, RowShape
    <3> QED BY <1>3, <1>8, <2>1, <3>1, BegunRows
  <2>3. step[row].status = "absent"
    BY <2>1, <2>2 DEF Going, UndoAfterTurn
  <2>4. ToUndo(row.run, step') = ToUndo(row.run, steps)
    <3>1. ASSUME NEW i \in 1..Len(run[row.run].body)
          PROVE  step'[Forward(row.run, i)] = steps[Forward(row.run, i)]
      <4>1. Forward(row.run, i) \in Rows /\ Forward(row.run, i).phase = "forward"
        BY <1>0, BodyPositions DEF Forward
      <4> QED BY <1>3, <2>1, <4>1 DEF BegunSteps
    <3> QED BY <1>0, <3>1, ToUndoSame
  <2>5. run'[row.run].status = "compensating"
    <3>1. run[row.run] \in RunRecord /\ run'[row.run] = BegunRun(row.run, "failed", steps)
      BY <1>0, <2>1, <2>2 DEF TypeOK
    <3> QED BY <2>2, <3>1 DEF BegunRun, RunRecord
  <2> QED BY <2>1, <2>2, <2>3, <2>4, <2>5 DEF Moves, Born, Going
<1> QED BY <1>7, <1>8

(* The status of a row moves only as Moves says.                           *)
LEMMA StepMoves ==
  ASSUME Base, [Next]_vars, NEW row \in Rows
  PROVE  Moves(row)
<1> USE DEF Base
<1>0. step \in [Rows -> StepRecord]
  BY DEF TypeOK
<1>1. ASSUME NEW r \in Runs, NEW d \in Definitions, NEW dry \in BOOLEAN,
             Enqueue(r, d, dry)
      PROVE  Moves(row)
  <2>1. \/ step'[row] = step[row]
        \/ row.run = r /\ row.phase = "forward" /\ step'[row].status = "queued"
    BY <1>1 DEF Enqueue, NewStep, Absent
  <2>2. run[r].status = "none" /\ run'[r].status = "queued"
    BY <1>1 DEF Enqueue, TypeOK, RunRecord
  <2>3. row.run = r => step[row].status = "absent"
    BY <2>2 DEF RowsAfterRequest
  <2> QED BY <2>1, <2>2, <2>3 DEF Moves, Born
<1>2. ASSUME NEW h \in Holders,
             FinishAbandoned(h) \/ Park(h) \/ AwaitEvent(h) \/ RequestApproval(h)
      PROVE  Moves(row)
  <2>1. work[h].row \in Rows /\ step[work[h].row].status = "claimed"
    BY <1>2 DEF FinishAbandoned, Park, AwaitEvent, RequestApproval, Recording, WorkOK,
                Busy, Holds
  <2>2. ASSUME NEW status
        PROVE  Released(step[work[h].row], status).status = status
    BY <1>0, <2>1 DEF Released, StepRecord
  <2>3. CASE FinishAbandoned(h)
    BY <1>0, <2>1, <2>2, <2>3 DEF FinishAbandoned, Moves
  <2>4. CASE Park(h)
    BY <1>0, <2>1, <2>4 DEF Park, Moves, Released, StepRecord
  <2>5. CASE AwaitEvent(h)
    BY <1>0, <2>1, <2>5 DEF AwaitEvent, Moves, Released, StepRecord
  <2>6. CASE RequestApproval(h)
    BY <1>0, <2>1, <2>2, <2>6 DEF RequestApproval, Moves
  <2> QED BY <1>2, <2>3, <2>4, <2>5, <2>6
<1>3. CASE UNCHANGED vars
  BY <1>3 DEF vars, Moves
<1>4. CASE Request
  BY <1>1, <1>4, QuietMoves DEF Request, Moves
<1>5. CASE Clock \/ \E call \in upstream : Commit(call)
  BY <1>5, QuietMoves DEF Moves
<1>6. ASSUME NEW h \in Holders, Start(h) \/ Crash(h) \/ Work(h)
      PROVE  Moves(row)
  BY <1>2, <1>6, QuietMoves, ClaimMoves, FinishMoves DEF Moves, Work
<1> QED BY <1>3, <1>4, <1>5, <1>6 DEF Next
-----------------------------------------------------------------------------
(* A write recorded as succeeded took effect.                              *)

(* A row whose success stands for an effect.                               *)
Real(row) == KindOf(row) = "write" /\ ~run[row.run].dry

(* The plane claims a key and commits the effect in one transaction, and a *)
(* worker about to record a success has been told of one.                  *)
DoneInv ==
  /\ \A row \in Rows : <<row>> \in ledger => Logged(row)
  /\ \A h \in Holders :
       Recording(h, Good) /\ Real(work[h].row) => Logged(work[h].row)
  /\ SucceededMeansDone

(* What was committed stays committed.                                     *)
LEMMA LoggedDone ==
  ASSUME TypeOK, NEW row
  PROVE  Logged(row) <=> DoneBefore(row, Len(log) + 1)
<1>1. Len(log) \in Nat
  BY DEF TypeOK
<1>2. 1..(Len(log) + 1) - 1 = 1..Len(log)
  BY <1>1
<1> QED BY <1>2 DEF Logged, DoneBefore

LEMMA LogStays ==
  ASSUME Base, [Next]_vars
  PROVE  /\ \A row : Logged(row) => Logged(row)'
         /\ \A i \in 1..Len(log) : i \in 1..Len(log') /\ log'[i] = log[i]
<1>1. CASE log' = log
  BY <1>1 DEF Logged
<1>2. ASSUME NEW call \in Calls, Commits(call)
      PROVE  \A i \in 1..Len(log) : i \in 1..Len(log') /\ log'[i] = log[i]
  BY <1>2, LogAppends DEF Base, Commits
<1>3. \A i \in 1..Len(log) : i \in 1..Len(log') /\ log'[i] = log[i]
  BY <1>1, <1>2, PlaneMoves
<1> QED BY <1>3 DEF Logged

(* A commit logs the row of its call.                                      *)
LEMMA CommitLogs ==
  ASSUME TypeOK, NEW call \in Calls, Commits(call)
  PROVE  Logged(call.row)'
BY LogAppends DEF Commits, Logged

LEMMA RealStays ==
  ASSUME Base, [Next]_vars, NEW row \in Rows, run[row.run].status # "none"
  PROVE  (Real(row))' <=> Real(row)
BY RowStays DEF Real

(* What a worker is about to record as a success happened.                 *)
LEMMA NextKeepsRecorded ==
  ASSUME Base, EnqueuedInv, DoneInv, [Next]_vars, NEW h \in Holders,
         Recording(h, Good)', Real(work[h].row)'
  PROVE  Logged(work[h].row)'
<1> USE DEF Base
<1>0. /\ work \in [Holders -> WorkRecord] /\ work[h] \in WorkRecord
      /\ \A row : Logged(row) => Logged(row)'
  BY LogStays DEF TypeOK
<1>1. WorkMoves(h)
  BY WorkerMoves DEF Recording, Busy
<1>2. CASE work'[h] = work[h]
  <2>1. Recording(h, Good) /\ work[h].pc \in Busy
    BY <1>2 DEF Recording, Busy
  <2>2. work[h].row \in Rows /\ run[work[h].row.run].status # "none"
    BY <2>1 DEF WorkOK, EnqueuedInv
  <2>3. PICK row \in Rows : row = work[h].row /\ row = work'[h].row
    BY <1>2, <2>2
  <2>4. Real(row)'
    BY <2>3 DEF Real, KindOf, ElementOf
  <2>5. Real(row)
    BY <2>2, <2>3, <2>4, RealStays
  <2> QED BY <1>0, <2>1, <2>3, <2>5 DEF DoneInv, Logged
<1>3. ASSUME NEW row \in Rows, NEW n \in Nat, run[row.run].status # "none",
             work'[h] = Taken(row, n)
      PROVE  FALSE
  <2>1. Taken(row, n).verdict \in Good => run[row.run].dry
    BY DEF Taken, Good
  <2>2. work'[h].row = row
    BY <1>3, TakenOK
  <2>3. Real(row)' /\ work'[h].verdict \in Good
    BY <2>2 DEF Real, KindOf, ElementOf, Recording
  <2>4. Real(row)
    BY <1>3, <2>3, RealStays
  <2> QED BY <1>3, <2>1, <2>3, <2>4 DEF Real
<1>4. ASSUME work[h].pc \in Busy, work'[h].row = work[h].row,
             ReadGate(h) \/ CloseGate(h) \/ Mint(h) \/ CallPlane(h)
      PROVE  Logged(work[h].row)'
  <2>1. PICK row \in Rows : /\ row = work[h].row /\ row = work'[h].row
                            /\ run[row.run].status # "none"
    BY <1>4 DEF WorkOK, EnqueuedInv
  <2>2. Real(row)'
    BY <2>1 DEF Real, KindOf, ElementOf
  <2>3. Real(row)
    BY <2>1, <2>2, RealStays
  <2>4. ASSUME NEW verdict, Record(h, verdict)
        PROVE  verdict \in Good
    BY <1>0, <2>4 DEF Recording, Record, WorkRecord
  <2>5. ASSUME NEW pc \in {"mint", "close", "call"}, NEW token,
               work' = [work EXCEPT ![h].pc = pc, ![h].token = token]
        PROVE  FALSE
    <3>1. work'[h].pc = pc
      BY <1>0, <2>5 DEF WorkRecord
    <3> QED BY <3>1 DEF Recording
  <2>6. CASE ReadGate(h)
    <3>1. ~GoIdle(h)
      BY <1>0 DEF GoIdle, Idle, Recording
    <3>2. KindOf(row) = "write"
      BY <2>3 DEF Real
    <3>3. \E pc \in {"mint", "close", "call"} : \E token :
            work' = [work EXCEPT ![h].pc = pc, ![h].token = token]
      BY <2>1, <2>6, <3>1, <3>2 DEF ReadGate, GoIdle
    <3> QED BY <2>5, <3>3
  <2>7. CASE CloseGate(h)
    BY <2>4, <2>7 DEF CloseGate, Good
  <2>8. CASE Mint(h)
    <3>1. CASE work' = [work EXCEPT ![h].pc = "call"]
      <4>1. work'[h].pc = "call"
        BY <1>0, <3>1 DEF WorkRecord
      <4> QED BY <4>1 DEF Recording
    <3> QED BY <2>4, <2>8, <3>1 DEF Mint, Good
  <2>9. CASE CallPlane(h)
    <3>1. Serve(CallOf(h)) /\ CallOf(h) \in Calls
      <4>1. \A verdict \in {"refused", "request", "token_refused", "park", "failed"} :
              verdict \notin Good
        BY DEF Good
      <4> QED BY <1>4, <2>4, <2>9, <4>1, CallTyped DEF CallPlane, Refusals, RetryVerdict
    <3>2. CallOf(h).row = row
      BY <2>1 DEF CallOf
    <3>3. \/ <<row>> \in ledger
          \/ Commits(CallOf(h))
      BY <2>3, <3>1, <3>2 DEF Serve, Commits, KeyOf, Real
    <3>4. CASE <<row>> \in ledger
      BY <1>0, <2>1, <3>4 DEF DoneInv, Logged
    <3>5. CASE Commits(CallOf(h))
      <4>1. Logged(row)'
        BY <3>1, <3>2, <3>5, CommitLogs
      <4> QED BY <2>1, <4>1 DEF Logged
    <3> QED BY <3>3, <3>4, <3>5
  <2> QED BY <1>4, <2>6, <2>7, <2>8, <2>9
<1> QED BY <1>1, <1>2, <1>3, <1>4 DEF WorkMoves

LEMMA NextKeepsDone ==
  ASSUME Base, EnqueuedInv, DoneInv, [Next]_vars
  PROVE  DoneInv'
<1> USE DEF Base
<1>0. \A row : Logged(row) => Logged(row)'
  BY LogStays
<1>1. ASSUME NEW row \in Rows, <<row>> \in ledger'
      PROVE  Logged(row)'
  <2>1. CASE <<row>> \in ledger
    BY <1>0, <2>1 DEF DoneInv
  <2>2. CASE <<row>> \notin ledger
    <3>1. PICK call \in Calls : Commits(call)
      BY <1>1, <2>2, PlaneMoves
    <3>2. row = call.row
      BY <1>1, <2>2, <3>1 DEF Commits, KeyOf
    <3> QED BY <3>1, <3>2, CommitLogs
  <2> QED BY <2>1, <2>2
<1>2. ASSUME NEW row \in Rows, step'[row].status = "succeeded", Real(row)'
      PROVE  Logged(row)'
  <2>1. step[row].status \in {"succeeded", "claimed"}
    BY <1>2, StepMoves DEF Moves, Born
  <2>2. run[row.run].status # "none"
    BY <2>1 DEF RowsAfterRequest
  <2>3. Real(row)
    BY <1>2, <2>2, RealStays
  <2>4. CASE step[row].status = "succeeded"
    BY <1>0, <2>3, <2>4, LoggedDone DEF DoneInv, SucceededMeansDone, Real
  <2>5. CASE step[row].status = "claimed"
    <3>1. PICK h \in Holders : /\ Finishes(h, row)
                               /\ FinishedStatus(work[h].verdict) = "succeeded"
      BY <1>2, <2>5, StepMoves DEF Moves, Born
    <3>2. Recording(h, Good) /\ work[h].row = row
      BY <3>1 DEF Finishes, FinishUndo, FinishForward, Recording, FinishedStatus
    <3> QED BY <1>0, <2>3, <3>2 DEF DoneInv
  <2> QED BY <2>1, <2>4, <2>5
<1>3. \A h \in Holders : Recording(h, Good)' /\ Real(work[h].row)' => Logged(work[h].row)'
  BY NextKeepsRecorded
<1>4. SucceededMeansDone'
  <2>1. TypeOK'
    BY NextTyped DEF Typing
  <2>2. ASSUME NEW row \in Rows, Logged(row)'
        PROVE  DoneBefore(row, Len(log) + 1)'
    BY <2>1, <2>2 DEF TypeOK, Logged, DoneBefore
  <2> QED BY <1>2, <2>2 DEF SucceededMeansDone, Real, KindOf, ElementOf
<1> QED BY <1>1, <1>3, <1>4 DEF DoneInv

(* The worker has a row of a requested run, and the reasons for its        *)
(* verdicts hold.                                                          *)
EffectInv == IInv /\ EnqueuedInv /\ DoneInv

LEMMA EffectInvariance == Spec => []EffectInv
<1>1. Init => DoneInv
  BY DEF Init, DoneInv, SucceededMeansDone, Recording, Absent, Idle
<1>2. IInv /\ EnqueuedInv /\ DoneInv /\ [Next]_vars => DoneInv'
  BY NextKeepsDone DEF IInv
<1>3. IInv /\ EnqueuedInv /\ DoneInv => EffectInv
  BY DEF EffectInv
<1> QED BY <1>1, <1>2, <1>3, Invariance, EnqueuedInvariance, PTL DEF Spec

(* A write the worker recorded as succeeded has taken effect: the verdict  *)
(* comes from the plane's answer alone, which commits the effect with the  *)
(* key or finds the key of a committed one, whatever was retried or lost.  *)
THEOREM SuccessIsReal == Spec => []SucceededMeansDone
<1>1. EffectInv => SucceededMeansDone
  BY DEF EffectInv, DoneInv
<1> QED BY <1>1, EffectInvariance, PTL
-----------------------------------------------------------------------------
(* How a step moves a run.                                                 *)

(* A queued run has done nothing, and an undo row stands for a step that   *)
(* succeeded and declares a compensation.                                  *)
TurnInv ==
  /\ \A row \in Rows : run[row.run].status = "queued" =>
                        step[row].status \in {"absent", "queued"}
  /\ \A row \in Rows : row.phase = "undo" /\ step[row].status # "absent" =>
       /\ row.pos \in 1..Len(run[row.run].body)
       /\ run[row.run].body[row.pos].undo
       /\ step[Forward(row.run, row.pos)].status = "succeeded"

(* The run has an undo row for each step that succeeded and declares one.  *)
TakesItsUndo(r) ==
  \A i \in 1..Len(run[r].body) :
    (step'[Undo(r, i)].status # "absent") <=>
      (run[r].body[i].undo /\ step'[Forward(r, i)].status = "succeeded")

RunMoves(r) ==
  \/ run'[r].status = run[r].status /\ run'[r].outcome = run[r].outcome
  \/ /\ run'[r].outcome = run[r].outcome
     /\ \/ run[r].status = "none" /\ run'[r].status = "queued"
        \/ Going(r) /\ run'[r].status \in {"running", "succeeded", "stopped"}
        \/ /\ Going(r) /\ TakesItsUndo(r)
           /\ run'[r].status \in {"compensating", "failed", "cancelled"}
  \/ /\ run[r].status = "compensating"
     /\ \E h \in Holders :
          /\ FinishUndo(h) /\ work[h].row.run = r
          /\ run'[r] = AfterUndo(r, work[h].verdict, step')

(* A run going forward has no undo row yet.                                *)
LEMMA NoUndoYet ==
  ASSUME IInv, NEW r \in Runs, run[r].status \in {"none", "queued", "running"},
         NEW i \in 1..Len(run[r].body)
  PROVE  /\ step[Undo(r, i)].status = "absent"
         /\ Undo(r, i) \in Rows /\ Forward(r, i) \in Rows
         /\ Undo(r, i).phase = "undo" /\ Undo(r, i).run = r /\ Undo(r, i).pos = i
         /\ Forward(r, i).phase = "forward" /\ Forward(r, i).run = r
<1>1. Undo(r, i) \in Rows /\ Forward(r, i) \in Rows
  BY BodyPositions DEF IInv, Base
<1>2. /\ Undo(r, i).phase = "undo" /\ Undo(r, i).run = r /\ Undo(r, i).pos = i
      /\ Forward(r, i).phase = "forward" /\ Forward(r, i).run = r
  BY DEF Undo, Forward
<1> QED BY <1>1, <1>2 DEF IInv, Base, Core, UndoAfterTurn

LEMMA RequestRunMoves ==
  ASSUME IInv, TurnInv, NEW r \in Runs, Request \/ Clock
  PROVE  RunMoves(r)
<1> USE DEF IInv, Base
<1>0. run \in [Runs -> RunRecord] /\ run[r] \in RunRecord
  BY DEF TypeOK
<1>1. ASSUME NEW q \in Runs, NEW d \in Definitions, NEW dry \in BOOLEAN,
             Enqueue(q, d, dry)
      PROVE  RunMoves(r)
  <2>1. CASE q # r
    BY <1>0, <1>1, <2>1 DEF Enqueue, RunMoves
  <2>2. CASE q = r
    <3>1. PICK n : run' = [run EXCEPT ![r] = [run[r] EXCEPT !.status = "queued",
                                     !.body = d, !.dry = dry, !.created = n]]
      BY <1>0, <1>1, <2>2 DEF Enqueue
    <3>2. run'[r].status = "queued" /\ run'[r].outcome = run[r].outcome
      BY <1>0, <3>1 DEF RunRecord
    <3> QED BY <1>1, <2>2, <3>2 DEF Enqueue, RunMoves
  <2> QED BY <2>1, <2>2
<1>2. ASSUME NEW q \in Runs, Cancel(q)
      PROVE  RunMoves(r)
  <2>1. CASE run' = [run EXCEPT ![q] = [run[q] EXCEPT !.cancel = TRUE]]
    BY <1>0, <2>1 DEF RunMoves, RunRecord
  <2>2. CASE /\ run[q].status = "queued"
             /\ run' = [run EXCEPT ![q] = [run[q] EXCEPT !.status = "cancelled", !.cancel = TRUE]]
    <3>1. CASE q # r
      BY <1>0, <2>2, <3>1 DEF RunMoves
    <3>2. CASE q = r
      <4>1. run'[r].status = "cancelled" /\ run'[r].outcome = run[r].outcome
        BY <1>0, <2>2, <3>2 DEF RunRecord
      <4>2. ASSUME NEW i \in 1..Len(run[r].body)
            PROVE  /\ step'[Undo(r, i)].status = "absent"
                   /\ step'[Forward(r, i)].status # "succeeded"
        <5>1. step' = step
          BY <1>2 DEF Cancel
        <5> QED BY <2>2, <3>2, <5>1, NoUndoYet DEF TurnInv
      <4> QED BY <2>2, <3>2, <4>1, <4>2 DEF RunMoves, TakesItsUndo, Going
    <3> QED BY <3>1, <3>2
  <2> QED BY <1>0, <1>2, <2>1, <2>2 DEF Cancel
<1>3. ASSUME NEW row \in Rows, Reject(row)
      PROVE  RunMoves(r)
  BY <1>0, <1>3 DEF Reject, RunRecord, RunMoves
<1>4. ASSUME NEW q \in Runs, RunOverdue(q)
      PROVE  RunMoves(r)
  BY <1>0, <1>4 DEF RunOverdue, RunRecord, RunMoves
<1>5. CASE run' = run
  BY <1>5 DEF RunMoves
<1> QED BY <1>1, <1>2, <1>3, <1>4, <1>5 DEF Request, Clock, Approve, Emit, SetAgent,
           LeaseLapses, ResumeDue

LEMMA ClaimRunMoves ==
  ASSUME IInv, NEW r \in Runs, NEW h \in Holders, ClaimStep(h) \/ ClaimNothing(h)
  PROVE  RunMoves(r)
<1> USE DEF IInv, Base
<1>0. run[r] \in RunRecord /\ SweptRuns \in [Runs -> RunRecord]
  BY SweptTyped DEF TypeOK, Typed
<1>1. \/ run'[r] = SweptRuns[r]
      \/ /\ SweptRuns[r].status = "queued" /\ run'[r].status = "running"
         /\ run'[r].outcome = SweptRuns[r].outcome
  <2>1. CASE ClaimNothing(h)
    BY <2>1 DEF ClaimNothing
  <2>2. CASE ClaimStep(h)
    <3>1. PICK row \in Rows :
            run' = [SweptRuns EXCEPT
                      ![row.run].status = IF @ = "queued" THEN "running" ELSE @]
      BY <2>2 DEF ClaimStep, Claimable
    <3>2. CASE row.run = r /\ SweptRuns[r].status = "queued"
      BY <1>0, <3>1, <3>2 DEF RunRecord
    <3>3. CASE ~(row.run = r /\ SweptRuns[r].status = "queued")
      BY <1>0, <3>1, <3>3 DEF RunRecord
    <3> QED BY <3>2, <3>3
  <2> QED BY <2>1, <2>2
<1>2. CASE r \notin Swept
  <2>1. SweptRuns[r] = run[r]
    BY <1>2 DEF Swept, SweptRuns
  <2> QED BY <1>1, <2>1 DEF RunMoves, Going
<1>3. CASE r \in Swept
  <2>1. /\ SweptRuns[r].status \in {"compensating", "failed", "cancelled"}
        /\ SweptRuns[r].outcome = run[r].outcome
    <3>1. \E cause \in {"failed", "cancelled"} : SweptRuns[r] = BegunRun(r, cause, step)
      BY <1>3 DEF Swept, SweptRuns
    <3>2. ASSUME NEW cause \in {"failed", "cancelled"}
          PROVE  /\ BegunRun(r, cause, step).status \in {"compensating", "failed", "cancelled"}
                 /\ BegunRun(r, cause, step).outcome = run[r].outcome
      BY <1>0 DEF BegunRun, RunRecord
    <3> QED BY <3>1, <3>2
  <2>2. run'[r] = SweptRuns[r]
    BY <1>1, <2>1
  <2>3. Going(r)
    BY <1>3, SweepRows
  <2>4. ASSUME NEW i \in 1..Len(run[r].body)
        PROVE  (step'[Undo(r, i)].status # "absent") <=>
                 (run[r].body[i].undo /\ step'[Forward(r, i)].status = "succeeded")
    <3>1. /\ step[Undo(r, i)].status = "absent"
          /\ Undo(r, i) \in Rows /\ Forward(r, i) \in Rows
          /\ Undo(r, i).phase = "undo" /\ Undo(r, i).run = r /\ Undo(r, i).pos = i
          /\ Forward(r, i).phase = "forward" /\ Forward(r, i).run = r
      BY <2>3, NoUndoYet DEF Going
    <3>2. /\ SweptSteps[Forward(r, i)] = step[Forward(r, i)]
          /\ (SweptSteps[Undo(r, i)].status # "absent") <=> i \in ToUndo(r, step)
      BY <1>3, <3>1, SweepRows
    <3>3. \A row \in Rows :
            /\ (step'[row].status # "absent") <=> (SweptSteps[row].status # "absent")
            /\ (step'[row].status = "succeeded") <=> (SweptSteps[row].status = "succeeded")
      BY ClaimRows DEF Unfinished
    <3>4. (i \in ToUndo(r, step)) <=>
            (run[r].body[i].undo /\ step[Forward(r, i)].status = "succeeded")
      BY DEF ToUndo
    <3> QED BY <3>1, <3>2, <3>3, <3>4
  <2> QED BY <2>1, <2>2, <2>3, <2>4 DEF RunMoves, TakesItsUndo
<1> QED BY <1>2, <1>3

LEMMA FinishRunMoves ==
  ASSUME IInv, NEW r \in Runs, NEW h \in Holders, FinishUndo(h) \/ FinishForward(h)
  PROVE  RunMoves(r)
<1> USE DEF IInv, Base
<1> DEFINE held == work[h].row
           verdict == work[h].verdict
           steps == [step EXCEPT ![held] = Released(@, FinishedStatus(verdict))]
<1>0. run \in [Runs -> RunRecord] /\ run[r] \in RunRecord /\ step \in [Rows -> StepRecord]
  BY DEF TypeOK
<1>1. held \in Rows /\ held.run \in Runs /\ step[held].status = "claimed"
  BY RowShape DEF FinishUndo, FinishForward, Recording, WorkOK, Busy, Holds
<1>2. CASE held.run # r
  <2>1. run'[r] = run[r]
    BY <1>0, <1>2 DEF FinishUndo, FinishForward
  <2> QED BY <2>1 DEF RunMoves
<1>3. CASE FinishUndo(h) /\ held.run = r
  <2>1. held.phase = "undo" /\ step' = steps /\ run'[r] = AfterUndo(r, verdict, steps)
    BY <1>0, <1>3 DEF FinishUndo
  <2>2. run[r].status = "compensating"
    BY <1>1, <1>3, <2>1 DEF Core, UndoOneAtATime
  <2>3. run'[r] = AfterUndo(r, verdict, step')
    BY <2>1
  <2> QED BY <1>3, <2>2, <2>3 DEF RunMoves
<1>4. CASE FinishForward(h) /\ held.run = r
  <2> DEFINE failing == Going(r) /\ verdict \in {"failed", "refused"}
  <2>1. /\ held.phase = "forward"
        /\ step' = IF failing THEN BegunSteps({r}, steps) ELSE steps
    BY <1>4 DEF FinishForward
  <2>2. \/ failing /\ run'[r] = BegunRun(r, "failed", steps)
        \/ Going(r) /\ run'[r] = [run[r] EXCEPT !.status = "stopped"]
        \/ Going(r) /\ run'[r] = [run[r] EXCEPT !.status = "succeeded"]
        \/ run'[r] = run[r]
    BY <1>0, <1>4 DEF FinishForward
  <2>3. /\ steps \in [Rows -> StepRecord]
        /\ \A row \in Rows \ {held} : steps[row] = step[row]
    <3>1. Released(step[held], FinishedStatus(verdict)) \in StepRecord
      BY <1>0, <1>1, ReleasedTyped DEF FinishedStatus, StepStatus
    <3> QED BY <1>0, <1>1, <3>1
  <2> HIDE DEF steps, held, verdict
  <2>4. CASE failing /\ run'[r] = BegunRun(r, "failed", steps)
    <3>1. /\ run'[r].status \in {"compensating", "failed", "cancelled"}
          /\ run'[r].outcome = run[r].outcome
      BY <1>0, <2>4 DEF BegunRun, RunRecord
    <3>2. ASSUME NEW i \in 1..Len(run[r].body)
          PROVE  (step'[Undo(r, i)].status # "absent") <=>
                   (run[r].body[i].undo /\ step'[Forward(r, i)].status = "succeeded")
      <4>1. /\ step[Undo(r, i)].status = "absent"
            /\ Undo(r, i) \in Rows /\ Forward(r, i) \in Rows
            /\ Undo(r, i).phase = "undo" /\ Undo(r, i).run = r /\ Undo(r, i).pos = i
            /\ Forward(r, i).phase = "forward" /\ Forward(r, i).run = r
        BY <2>4, NoUndoYet DEF Going
      <4>2. steps[Undo(r, i)].status = "absent"
        BY <2>1, <2>3, <4>1
      <4>3. /\ step'[Forward(r, i)] = steps[Forward(r, i)]
            /\ (step'[Undo(r, i)].status # "absent") <=> i \in ToUndo(r, steps)
        BY <2>1, <2>4, <4>1, <4>2 DEF BegunSteps, NewStep, Absent
      <4>4. (i \in ToUndo(r, steps)) <=>
              (run[r].body[i].undo /\ steps[Forward(r, i)].status = "succeeded")
        BY DEF ToUndo
      <4> QED BY <4>3, <4>4
    <3> QED BY <2>4, <3>1, <3>2 DEF RunMoves, TakesItsUndo
  <2>5. CASE Going(r) /\ run'[r] = [run[r] EXCEPT !.status = "stopped"]
    BY <1>0, <2>5 DEF RunMoves, RunRecord
  <2>6. CASE Going(r) /\ run'[r] = [run[r] EXCEPT !.status = "succeeded"]
    BY <1>0, <2>6 DEF RunMoves, RunRecord
  <2>7. CASE run'[r] = run[r]
    BY <2>7 DEF RunMoves
  <2> QED BY <2>2, <2>4, <2>5, <2>6, <2>7
<1> QED BY <1>2, <1>3, <1>4

(* The status and outcome of a run move only as RunMoves says.             *)
LEMMA RunStepMoves ==
  ASSUME IInv, TurnInv, [Next]_vars, NEW r \in Runs
  PROVE  RunMoves(r)
<1>1. CASE Request \/ Clock
  BY <1>1, RequestRunMoves
<1>2. CASE run' = run
  BY <1>2 DEF RunMoves
<1>3. ASSUME NEW h \in Holders, Start(h) \/ Crash(h) \/ Work(h)
      PROVE  RunMoves(r)
  BY <1>2, <1>3, ClaimRunMoves, FinishRunMoves DEF Start, Crash, Work, WithdrawEnded,
     ReadGate, CloseGate, Mint, CallPlane, LeaseLost, FinishAbandoned, Park, AwaitEvent,
     RequestApproval
<1> QED BY <1>1, <1>2, <1>3 DEF Next, vars, Commit

LEMMA NextKeepsTurn ==
  ASSUME IInv, TurnInv, [Next]_vars
  PROVE  TurnInv'
<1> USE DEF IInv, Base
<1>1. ASSUME NEW row \in Rows, run'[row.run].status = "queued"
      PROVE  step'[row].status \in {"absent", "queued"}
  <2>1. run[row.run].status \in {"none", "queued"}
    <3>1. RunMoves(row.run) /\ run[row.run] \in RunRecord
      BY RowShape, RunStepMoves DEF TypeOK
    <3>2. ASSUME NEW h \in Holders, run[row.run].status = "compensating",
                 run'[row.run] = AfterUndo(row.run, work[h].verdict, step')
          PROVE  FALSE
      BY <1>1, <3>1, <3>2, RowShape, AfterUndoEnds DEF TypeOK, Ended
    <3> QED BY <1>1, <3>1, <3>2 DEF RunMoves
  <2>2. step[row].status \in {"absent", "queued"}
    BY <2>1 DEF TurnInv, Core, NoRowsBefore
  <2>3. CASE row.phase = "undo" /\ row.pos \in ToUndo(row.run, step')
             /\ run[row.run].status = "queued"
    <3>1. /\ step'[Forward(row.run, row.pos)].status = "succeeded"
          /\ Forward(row.run, row.pos) \in Rows /\ Forward(row.run, row.pos).run = row.run
      BY <2>3, RowShape, RowsOfRun DEF ToUndo, Forward
    <3>2. step[Forward(row.run, row.pos)].status \in {"absent", "queued"}
      BY <2>3, <3>1 DEF TurnInv
    <3> QED BY <3>1, <3>2, StepMoves DEF Moves, Born
  <2>4. Moves(row)
    BY StepMoves
  <2> QED BY <1>1, <2>1, <2>2, <2>3, <2>4 DEF Moves, Born
<1>2. ASSUME NEW row \in Rows, row.phase = "undo", step'[row].status # "absent"
      PROVE  /\ row.pos \in 1..Len(run'[row.run].body)
             /\ run'[row.run].body[row.pos].undo
             /\ step'[Forward(row.run, row.pos)].status = "succeeded"
  <2>1. /\ Forward(row.run, row.pos) \in Rows /\ Forward(row.run, row.pos).phase = "forward"
        /\ row.run \in Runs
    BY RowShape, RowsOfRun DEF Forward
  <2>2. Moves(row) /\ Moves(Forward(row.run, row.pos))
    BY <2>1, StepMoves
  <2>3. CASE step[row].status # "absent"
    <3>1. run[row.run].status # "none"
      BY <2>3 DEF Core, NoRowsBefore
    <3>2. SameRequest(run'[row.run], run[row.run])
      BY <2>1, <3>1, NextKeepsBody
    <3>3. step'[Forward(row.run, row.pos)].status = "succeeded"
      BY <1>2, <2>2, <2>3 DEF TurnInv, Moves, Born, Unfinished
    <3> QED BY <1>2, <2>3, <3>2, <3>3 DEF TurnInv, SameRequest
  <2>4. CASE step[row].status = "absent"
    <3>1. Born(row)
      BY <1>2, <2>2, <2>4 DEF Moves, Unfinished
    <3>2. run[row.run].status # "none" /\ row.pos \in ToUndo(row.run, step')
      BY <1>2, <3>1 DEF Born
    <3>3. SameRequest(run'[row.run], run[row.run])
      BY <2>1, <3>2, NextKeepsBody
    <3> QED BY <3>2, <3>3 DEF ToUndo, SameRequest
  <2> QED BY <2>3, <2>4
<1> QED BY <1>1, <1>2 DEF TurnInv

LEMMA TurnInvariance == Spec => []TurnInv
<1>1. Init => TurnInv
  BY DEF Init, TurnInv, Absent
<1>2. IInv /\ TurnInv /\ [Next]_vars => TurnInv'
  BY NextKeepsTurn
<1> QED BY <1>1, <1>2, Invariance, PTL DEF Spec

(* A run that turns to failed or cancelled, in a cancel, a claim or a      *)
(* finish, takes with it an undo row for each step recorded succeeded that *)
(* declares one, and for no other.                                         *)
THEOREM TurnTakesUndo == Spec => TurnsWithItsUndo
<1>1. ASSUME IInv, TurnInv, [Next]_vars, NEW r \in Runs,
             run[r].status \in {"queued", "running"},
             run'[r].status \in {"compensating", "failed", "cancelled"}
      PROVE  \A i \in 1..Len(run[r].body) :
               (step'[Undo(r, i)].status # "absent") <=>
                 (run[r].body[i].undo /\ step'[Forward(r, i)].status = "succeeded")
  BY <1>1, RunStepMoves DEF RunMoves, TakesItsUndo
<1>2. IInv /\ TurnInv /\ [Next]_vars =>
        [\A r \in Runs :
           /\ run[r].status \in {"queued", "running"}
           /\ run'[r].status \in {"compensating", "failed", "cancelled"}
           => \A i \in 1..Len(run[r].body) :
                (step'[Undo(r, i)].status # "absent") <=>
                  (run[r].body[i].undo /\ step'[Forward(r, i)].status = "succeeded")]_vars
  BY <1>1
<1> QED BY <1>2, Invariance, TurnInvariance, PTL DEF Spec, TurnsWithItsUndo

-----------------------------------------------------------------------------
(* What the outcome of a compensation says.                                *)

(* An outcome is the last thing that happens to a run, and complete is     *)
(* written only over undo rows that all succeeded.                         *)
OutcomeInv ==
  \A r \in Runs :
    /\ run[r].outcome # "none" => run[r].status \in Ended
    /\ run[r].outcome = "complete" =>
         \A i \in Positions : step[Undo(r, i)].status \in {"absent", "succeeded"}

LEMMA AfterUndoOutcome ==
  ASSUME run \in [Runs -> RunRecord], CauseKnown, NEW r \in Runs,
         run[r].status = "compensating", NEW verdict, NEW ss
  PROVE  \/ AfterUndo(r, verdict, ss) = run[r]
         \/ /\ AfterUndo(r, verdict, ss).status \in Ended
            /\ AfterUndo(r, verdict, ss).outcome = "complete" =>
                 \A i \in Positions : ss[Undo(r, i)].status \in {"absent", "succeeded"}
BY DEF AfterUndo, CauseKnown, RunRecord, RunStatus, Ended

LEMMA NextKeepsOutcome ==
  ASSUME IInv, TurnInv, OutcomeInv, [Next]_vars
  PROVE  OutcomeInv'
<1> USE DEF IInv, Base
<1> SUFFICES ASSUME NEW r \in Runs
             PROVE  /\ run'[r].outcome # "none" => run'[r].status \in Ended
                    /\ run'[r].outcome = "complete" =>
                         \A i \in Positions : step'[Undo(r, i)].status \in {"absent", "succeeded"}
  BY DEF OutcomeInv
<1>0. run \in [Runs -> RunRecord]
  BY DEF TypeOK
<1>1. ASSUME run'[r].outcome = run[r].outcome,
             run[r].outcome # "none" => run'[r].status = run[r].status
      PROVE  /\ run'[r].outcome # "none" => run'[r].status \in Ended
             /\ run'[r].outcome = "complete" =>
                  \A i \in Positions : step'[Undo(r, i)].status \in {"absent", "succeeded"}
  <2>1. run'[r].outcome # "none" => run'[r].status \in Ended
    BY <1>1 DEF OutcomeInv
  <2>2. ASSUME run'[r].outcome = "complete", NEW i \in Positions
        PROVE  step'[Undo(r, i)].status \in {"absent", "succeeded"}
    <3>1. run[r].status \in Ended /\ step[Undo(r, i)].status \in {"absent", "succeeded"}
      BY <1>1, <2>2 DEF OutcomeInv
    <3>2. /\ Undo(r, i) \in Rows /\ Undo(r, i).phase = "undo" /\ Undo(r, i).run = r
          /\ Moves(Undo(r, i))
      BY RowsOfRun, StepMoves DEF Undo
    <3> QED BY <3>1, <3>2 DEF Moves, Born, Unfinished, Ended
  <2> QED BY <2>1, <2>2
<1>2. CASE run[r].outcome # "none" /\ run'[r].outcome = run[r].outcome
  BY <1>1, <1>2, NextKeepsEnded DEF OutcomeInv
<1>3. CASE run[r].outcome = "none" /\ run'[r].outcome = run[r].outcome
  BY <1>1, <1>3
<1>4. ASSUME NEW h \in Holders, run[r].status = "compensating",
             run'[r] = AfterUndo(r, work[h].verdict, step')
      PROVE  /\ run'[r].outcome # "none" => run'[r].status \in Ended
             /\ run'[r].outcome = "complete" =>
                  \A i \in Positions : step'[Undo(r, i)].status \in {"absent", "succeeded"}
  BY <1>0, <1>2, <1>3, <1>4, AfterUndoOutcome
<1>5. RunMoves(r)
  BY RunStepMoves
<1> QED BY <1>2, <1>3, <1>4, <1>5 DEF RunMoves

LEMMA OutcomeInvariance == Spec => []OutcomeInv
<1>1. Init => OutcomeInv
  BY DEF Init, OutcomeInv
<1>2. IInv /\ TurnInv /\ OutcomeInv /\ [Next]_vars => OutcomeInv'
  BY NextKeepsOutcome
<1> QED BY <1>1, <1>2, Invariance, TurnInvariance, PTL DEF Spec

(* compensation_outcome complete means what it says: every undo row of the *)
(* run succeeded and, unless the run was a rehearsal, took effect; and     *)
(* nothing reopens one after.                                              *)
THEOREM CompleteIsUndone == Spec => []CompleteMeansUndone
<1>1. ASSUME EffectInv, OutcomeInv
      PROVE  CompleteMeansUndone
  <2> SUFFICES ASSUME NEW r \in Runs, run[r].outcome = "complete",
                      NEW i \in Positions, step[Undo(r, i)].status # "absent"
               PROVE  /\ step[Undo(r, i)].status = "succeeded"
                      /\ ~run[r].dry => DoneBefore(Undo(r, i), Len(log) + 1)
    BY DEF CompleteMeansUndone
  <2>1. step[Undo(r, i)].status = "succeeded"
    BY <1>1 DEF OutcomeInv
  <2>2. Undo(r, i) \in Rows /\ KindOf(Undo(r, i)) = "write" /\ Undo(r, i).run = r
    BY RowsOfRun DEF Undo, KindOf
  <2> QED BY <1>1, <2>1, <2>2 DEF EffectInv, DoneInv, SucceededMeansDone
<1> QED BY <1>1, EffectInvariance, OutcomeInvariance, PTL

-----------------------------------------------------------------------------
(* Each claim's call is committed at most once.                            *)

Committed(call) == \E i \in 1..Len(log) : log[i] = call
Handed(h, call) == work[h].pc \in Busy /\ CallOf(h) = call

(* A claim's call has been made, or its worker may still make it.          *)
Made(call) ==
  Committed(call) \/ call \in upstream \/ \E h \in Holders : Handed(h, call)

(* A row's calls are those of the claims counted on it.                    *)
CountInv ==
  /\ \A row \in Rows : step[row].status = "absent" => step[row].attempt = 0
  /\ \A call \in Calls : Made(call) => call.attempt \in 1..step[call.row].attempt

(* A count grows with a claim, and never starts over.                      *)
LEMMA AttemptMoves ==
  ASSUME Base, CountInv, [Next]_vars, NEW row \in Rows
  PROVE  /\ step[row].attempt \in Nat /\ step'[row].attempt \in Nat
         /\ step'[row].attempt >= step[row].attempt
         /\ step'[row].attempt # step[row].attempt => step'[row].status = "claimed"
<1> USE DEF Base
<1>0. step \in [Rows -> StepRecord] /\ step[row].attempt \in Nat
  BY DEF TypeOK, StepRecord
<1>1. NewStep.attempt = 0
  BY DEF NewStep, Absent
<1>2. ASSUME step'[row].attempt = step[row].attempt
      PROVE  /\ step'[row].attempt \in Nat
             /\ step'[row].attempt >= step[row].attempt
             /\ step'[row].attempt # step[row].attempt => step'[row].status = "claimed"
  BY <1>0, <1>2
<1>3. CASE step'[row] = step[row]
  BY <1>2, <1>3
<1>4. CASE Request
  <2>1. ASSUME NEW r \in Runs, NEW d \in Definitions, NEW dry \in BOOLEAN,
               Enqueue(r, d, dry)
        PROVE  step'[row].attempt = step[row].attempt
    <3>1. row.run = r => step[row].attempt = 0
      BY <2>1 DEF Enqueue, RowsAfterRequest, CountInv
    <3> QED BY <1>1, <2>1, <3>1 DEF Enqueue
  <2>2. ASSUME NEW other \in Rows, Approve(other)
        PROVE  step'[row].attempt = step[row].attempt
    BY <1>0, <2>2 DEF Approve, StepRecord
  <2>3. ASSUME NEW matched, Emit(matched)
        PROVE  step'[row].attempt = step[row].attempt
    BY <1>0, <2>3 DEF Emit, StepRecord
  <2> QED BY <1>2, <1>3, <1>4, <2>1, <2>2, <2>3 DEF Request, Cancel, Reject, SetAgent
<1>5. CASE Clock
  <2>1. ASSUME NEW other \in Rows, LeaseLapses(other) \/ ResumeDue(other)
        PROVE  step'[row].attempt = step[row].attempt
    BY <1>0, <2>1 DEF LeaseLapses, ResumeDue, StepRecord
  <2> QED BY <1>2, <1>3, <1>5, <2>1 DEF Clock, RunOverdue
<1>6. ASSUME NEW h \in Holders, ClaimStep(h) \/ ClaimNothing(h)
      PROVE  /\ step'[row].attempt \in Nat
             /\ step'[row].attempt >= step[row].attempt
             /\ step'[row].attempt # step[row].attempt => step'[row].status = "claimed"
  <2>1. SweptSteps \in [Rows -> StepRecord] /\ SweptSteps[row].attempt = step[row].attempt
    BY <1>1, SweepRows DEF CountInv, SweptSteps, BegunSteps
  <2>2. CASE step' = SweptSteps
    BY <1>2, <2>1, <2>2
  <2>3. ASSUME NEW claimed \in Rows, step' = [SweptSteps EXCEPT ![claimed] = ClaimedStep(@, h)]
        PROVE  \/ step'[row].attempt = step[row].attempt
               \/ /\ step'[row].attempt = step[row].attempt + 1
                  /\ step'[row].status = "claimed"
    BY <2>1, <2>3 DEF ClaimedStep, StepRecord
  <2>4. CASE ClaimStep(h)
    <3>1. PICK claimed \in Rows : step' = [SweptSteps EXCEPT ![claimed] = ClaimedStep(@, h)]
      BY <2>4 DEF ClaimStep, Claimable
    <3>2. \/ step'[row].attempt = step[row].attempt
          \/ /\ step'[row].attempt = step[row].attempt + 1
             /\ step'[row].status = "claimed"
      BY <2>3, <3>1
    <3> QED BY <1>0, <3>2
  <2>5. CASE ClaimNothing(h)
    <3>1. step' = SweptSteps
      BY <2>5 DEF ClaimNothing
    <3> QED BY <2>2, <3>1
  <2> QED BY <1>6, <2>4, <2>5
<1>7. ASSUME NEW h \in Holders,
             \/ FinishAbandoned(h) \/ FinishUndo(h) \/ FinishForward(h)
             \/ Park(h) \/ AwaitEvent(h) \/ RequestApproval(h)
      PROVE  step'[row].attempt = step[row].attempt
  <2>1. work[h].row \in Rows
    BY <1>7 DEF FinishAbandoned, FinishUndo, FinishForward, Park, AwaitEvent,
                RequestApproval, Recording, WorkOK, Busy
  <2>2. ASSUME NEW status, NEW ss, ss = [step EXCEPT ![work[h].row] = Released(@, status)]
        PROVE  ss[row].attempt = step[row].attempt
    BY <1>0, <2>1, <2>2 DEF Released, StepRecord
  <2>3. CASE FinishAbandoned(h) \/ RequestApproval(h)
    BY <2>2, <2>3 DEF FinishAbandoned, RequestApproval
  <2>4. CASE Park(h) \/ AwaitEvent(h)
    <3>1. ASSUME NEW parked, parked.attempt = step[work[h].row].attempt,
                 step' = [step EXCEPT ![work[h].row] = parked]
          PROVE  step'[row].attempt = step[row].attempt
      BY <1>0, <2>1, <3>1
    <3>2. CASE Park(h)
      <4>1. step' = [step EXCEPT ![work[h].row] =
                       [Released(step[work[h].row], "parked") EXCEPT
                          !.waited = @ \/ work[h].verdict = "wait"]]
        BY <3>2 DEF Park
      <4>2. step[work[h].row] \in StepRecord
        BY <1>0, <2>1
      <4>3. [Released(step[work[h].row], "parked") EXCEPT
               !.waited = @ \/ work[h].verdict = "wait"].attempt = step[work[h].row].attempt
        BY <4>2 DEF Released, StepRecord
      <4> QED BY <3>1, <4>1, <4>3
    <3>3. CASE AwaitEvent(h)
      <4>1. step' = [step EXCEPT ![work[h].row] =
                       [Released(step[work[h].row], "parked") EXCEPT !.await = "waiting"]]
        BY <3>3 DEF AwaitEvent
      <4>2. step[work[h].row] \in StepRecord
        BY <1>0, <2>1
      <4>3. [Released(step[work[h].row], "parked") EXCEPT !.await = "waiting"].attempt
              = step[work[h].row].attempt
        BY <4>2 DEF Released, StepRecord
      <4> QED BY <3>1, <4>1, <4>3
    <3> QED BY <2>4, <3>2, <3>3
  <2>5. CASE FinishUndo(h) \/ FinishForward(h)
    <3>1. PICK ss : /\ ss = [step EXCEPT ![work[h].row] =
                                         Released(@, FinishedStatus(work[h].verdict))]
                    /\ \/ step' = ss
                       \/ Going(work[h].row.run) /\ step' = BegunSteps({work[h].row.run}, ss)
      BY <2>5 DEF FinishUndo, FinishForward
    <3>2. ss[row].attempt = step[row].attempt
      BY <2>2, <3>1
    <3>3. Going(row.run) /\ row.phase = "undo" => step[row].attempt = 0
      BY DEF Going, UndoAfterTurn, CountInv
    <3> QED BY <1>1, <3>1, <3>2, <3>3 DEF BegunSteps
  <2> QED BY <1>7, <2>3, <2>4, <2>5
<1>8. ASSUME NEW h \in Holders, Start(h) \/ Crash(h) \/ Work(h)
      PROVE  /\ step'[row].attempt \in Nat
             /\ step'[row].attempt >= step[row].attempt
             /\ step'[row].attempt # step[row].attempt => step'[row].status = "claimed"
  BY <1>2, <1>3, <1>6, <1>7, <1>8 DEF Start, Crash, Work, WithdrawEnded, ReadGate,
     CloseGate, Mint, CallPlane, LeaseLost
<1> QED BY <1>0, <1>3, <1>4, <1>5, <1>8, <1>2 DEF Next, vars, Commit

(* The worker has not taken an answer to its call yet.                     *)
Unanswered == {"gate", "mint", "call"}

(* A worker is handed a call by a claim, and then the call is a new one.   *)
LEMMA HandedMoves ==
  ASSUME Base, CountInv, [Next]_vars, NEW h \in Holders, NEW call \in Calls,
         Handed(h, call)'
  PROVE  \/ /\ Handed(h, call)
            /\ work'[h].pc \in Unanswered => work[h].pc \in Unanswered
         \/ /\ ClaimStep(h) /\ ~Made(call)
            /\ call.attempt \in 1..step'[call.row].attempt
<1> USE DEF Base
<1>1. WorkMoves(h)
  BY WorkerMoves DEF Handed
<1>2. CASE work'[h] = work[h]
  BY <1>2 DEF Handed, CallOf
<1>3. ASSUME ClaimStep(h), NEW row \in Rows, NEW n \in Nat,
             n = SweptSteps[row].attempt + 1, n = step'[row].attempt,
             work'[h] = Taken(row, n)
      PROVE  /\ ~Made(call) /\ call.attempt \in 1..step'[call.row].attempt
  <2>1. call.row = row /\ call.attempt = n
    <3>1. Taken(row, n).row = row /\ Taken(row, n).attempt = n
      BY TakenOK DEF Taken
    <3> QED BY <1>3, <3>1 DEF Handed, CallOf
  <2>2. SweptSteps[row].attempt = step[row].attempt /\ step[row].attempt \in Nat
    <3>1. NewStep.attempt = 0
      BY DEF NewStep, Absent
    <3> QED BY <3>1, SweepRows, AttemptMoves DEF CountInv, SweptSteps, BegunSteps
  <2> QED BY <1>3, <2>1, <2>2 DEF CountInv
<1>4. ASSUME work[h].pc \in Busy, work'[h].row = work[h].row,
             work'[h].attempt = work[h].attempt,
             ReadGate(h) \/ CloseGate(h) \/ Mint(h) \/ CallPlane(h)
      PROVE  /\ Handed(h, call)
             /\ work'[h].pc \in Unanswered => work[h].pc \in Unanswered
  <2>1. Handed(h, call)
    BY <1>4 DEF Handed, CallOf
  <2>2. CASE CloseGate(h)
    <3>1. work \in [Holders -> WorkRecord]
      BY DEF TypeOK
    <3>2. work' = [work EXCEPT ![h].pc = "record", ![h].verdict = "failed"]
      BY <2>2 DEF CloseGate, Record
    <3>3. work'[h].pc = "record"
      BY <3>1, <3>2 DEF WorkRecord
    <3> QED BY <2>1, <3>3 DEF Unanswered
  <2>3. CASE ReadGate(h) \/ Mint(h) \/ CallPlane(h)
    <3>1. ReadGate(h) => work[h].pc = "gate"
      BY DEF ReadGate
    <3>2. Mint(h) => work[h].pc = "mint"
      BY DEF Mint
    <3>3. CallPlane(h) => work[h].pc = "call"
      BY DEF CallPlane
    <3> QED BY <2>1, <2>3, <3>1, <3>2, <3>3 DEF Unanswered
  <2> QED BY <1>4, <2>1, <2>2, <2>3
<1> QED BY <1>1, <1>2, <1>3, <1>4 DEF WorkMoves

(* A call is on its way, or committed, because a worker made it.           *)
LEMMA MadeMoves ==
  ASSUME Base, [Next]_vars, NEW call \in Calls, Committed(call)' \/ call \in upstream'
  PROVE  \/ Committed(call) \/ call \in upstream
         \/ \E h \in Holders : /\ Handed(h, call) /\ work[h].pc = "call"
                               /\ work'[h].pc \notin Unanswered
<1>0. work \in [Holders -> WorkRecord]
  BY DEF Base, TypeOK
<1>1. ASSUME NEW h \in Holders, CallPlane(h) \/ Crash(h)
      PROVE  work'[h].pc \notin Unanswered
  <2>1. CASE CallPlane(h)
    <3>1. \E verdict : Record(h, verdict)
      BY <2>1 DEF CallPlane
    <3> QED BY <1>0, <3>1 DEF Record, WorkRecord, Unanswered
  <2>2. CASE Crash(h)
    BY <1>0, <2>2 DEF Crash, Idle, Unanswered
  <2> QED BY <1>1, <2>1, <2>2
<1>2. CASE call \in upstream'
  <2>1. ASSUME NEW h \in Holders, call \in Sent(h)
        PROVE  Handed(h, call) /\ work[h].pc = "call"
    BY <2>1 DEF Sent, Handed, Busy
  <2> QED BY <1>1, <1>2, <2>1, PlaneMoves
<1>3. CASE Committed(call)'
  <2>1. CASE log' = log
    BY <1>3, <2>1 DEF Committed
  <2>2. ASSUME NEW made \in Calls, Commits(made), Source(made)
        PROVE  \/ Committed(call) \/ call \in upstream
               \/ \E h \in Holders : /\ Handed(h, call) /\ work[h].pc = "call"
                                     /\ work'[h].pc \notin Unanswered
    <3>1. Committed(call) \/ call = made
      BY <1>3, <2>2, LogAppends DEF Base, Commits, Committed
    <3>2. ASSUME NEW h \in Holders, CallPlane(h), made = CallOf(h)
          PROVE  Handed(h, made) /\ work[h].pc = "call"
      BY <3>2 DEF CallPlane, Handed, Busy
    <3> QED BY <1>1, <2>2, <3>1, <3>2 DEF Source
  <2> QED BY <2>1, <2>2, PlaneMoves
<1> QED BY <1>2, <1>3

LEMMA NextKeepsCount ==
  ASSUME Base, CountInv, [Next]_vars
  PROVE  CountInv'
<1>1. ASSUME NEW row \in Rows, step'[row].status = "absent"
      PROVE  step'[row].attempt = 0
  <2>1. step[row].status = "absent"
    BY <1>1, StepMoves DEF Moves, Born, FinishedStatus
  <2> QED BY <1>1, <2>1, AttemptMoves DEF CountInv
<1>2. ASSUME NEW call \in Calls, Made(call)'
      PROVE  call.attempt \in 1..step'[call.row].attempt
  <2>1. Made(call) \/ call.attempt \in 1..step'[call.row].attempt
    BY <1>2, MadeMoves, HandedMoves DEF Made
  <2>2. ASSUME Made(call)
        PROVE  call.attempt \in 1..step'[call.row].attempt
    <3>1. call.row \in Rows /\ call.attempt \in 1..step[call.row].attempt
      BY <2>2 DEF CountInv, Calls
    <3> QED BY <3>1, AttemptMoves
  <2> QED BY <2>1, <2>2
<1> QED BY <1>1, <1>2 DEF CountInv

(* Whatever a claim's call does, it does once: one worker is handed it,    *)
(* which is still to answer, or its statement is on its way, or committed. *)
ClaimInv ==
  \A call \in Calls :
    /\ \A g, h \in Holders : Handed(g, call) /\ Handed(h, call) => g = h
    /\ \A h \in Holders : Handed(h, call) /\ work[h].pc \in Unanswered =>
                            call \notin upstream /\ ~Committed(call)
    /\ call \in upstream => ~Committed(call)
    /\ \A i, j \in 1..Len(log) : log[i] = call /\ log[j] = call => i = j

LEMMA NextKeepsClaim ==
  ASSUME Base, CountInv, ClaimInv, [Next]_vars
  PROVE  ClaimInv'
<1> USE DEF Base
<1> SUFFICES ASSUME NEW call \in Calls
             PROVE  /\ \A g, h \in Holders : Handed(g, call)' /\ Handed(h, call)' => g = h
                    /\ \A h \in Holders : Handed(h, call)' /\ work'[h].pc \in Unanswered =>
                                            call \notin upstream' /\ ~Committed(call)'
                    /\ call \in upstream' => ~Committed(call)'
                    /\ \A i, j \in 1..Len(log') :
                         log'[i] = call /\ log'[j] = call => i = j
  BY DEF ClaimInv
<1>0. work \in [Holders -> WorkRecord]
  BY DEF TypeOK
<1>1. ASSUME NEW g \in Holders, NEW h \in Holders, Handed(g, call)', Handed(h, call)'
      PROVE  g = h
  <2>1. CASE ClaimStep(g) /\ ClaimStep(h) /\ g # h
    <3>1. work'[h] = work[h] /\ work[h].pc = "idle"
      BY <1>0, <2>1 DEF ClaimStep
    <3> QED BY <1>1, <3>1 DEF Handed, Busy
  <2>2. CASE Handed(g, call) /\ Handed(h, call)
    BY <2>2 DEF ClaimInv
  <2> QED BY <1>1, <2>1, <2>2, HandedMoves DEF Made
<1>2. ASSUME NEW h \in Holders, Handed(h, call)', work'[h].pc \in Unanswered
      PROVE  call \notin upstream' /\ ~Committed(call)'
  <2>1. CASE ~Made(call)
    BY <2>1, MadeMoves DEF Made
  <2>2. CASE Handed(h, call) /\ work[h].pc \in Unanswered
    <3>1. call \notin upstream /\ ~Committed(call)
      BY <2>2 DEF ClaimInv
    <3>2. \A g \in Holders : Handed(g, call) => g = h
      BY <2>2 DEF ClaimInv
    <3> QED BY <1>2, <3>1, <3>2, MadeMoves
  <2> QED BY <1>2, <2>1, <2>2, HandedMoves
<1>3. CASE log' = log
  <2>1. call \in upstream' => ~Committed(call)'
    <3>1. ASSUME call \in upstream', Committed(call)
          PROVE  FALSE
      <4>1. call \in upstream \/ \E h \in Holders : call \in Sent(h)
        BY <3>1, PlaneMoves
      <4>2. ASSUME NEW h \in Holders, call \in Sent(h)
            PROVE  Handed(h, call) /\ work[h].pc \in Unanswered
        BY <4>2 DEF Sent, Handed, Busy, Unanswered
      <4> QED BY <3>1, <4>1, <4>2 DEF ClaimInv
    <3> QED BY <1>3, <3>1 DEF Committed
  <2> QED BY <1>1, <1>2, <1>3, <2>1 DEF ClaimInv
<1>4. ASSUME NEW made \in Calls, Commits(made), Source(made)
      PROVE  /\ call \in upstream' => ~Committed(call)'
             /\ \A i, j \in 1..Len(log') : log'[i] = call /\ log'[j] = call => i = j
  <2>1. /\ Len(log) \in Nat /\ Len(log') = Len(log) + 1
        /\ log'[Len(log) + 1] = made
        /\ \A i \in 1..Len(log) : log'[i] = log[i]
    BY <1>4, LogAppends DEF Commits
  <2>2. ~Committed(made) /\ made \notin upstream' /\ upstream' \subseteq upstream
    <3>1. ASSUME NEW h \in Holders, CallPlane(h), made = CallOf(h), upstream' = upstream
          PROVE  ~Committed(made) /\ made \notin upstream'
      <4>1. Handed(h, made) /\ work[h].pc \in Unanswered
        BY <3>1 DEF CallPlane, Handed, Busy, Unanswered
      <4> QED BY <3>1, <4>1 DEF ClaimInv
    <3>2. CASE made \in upstream /\ Commit(made)
      BY <3>2 DEF Commit, ClaimInv
    <3> QED BY <1>4, <3>1, <3>2 DEF Source
  <2>3. Committed(call)' => Committed(call) \/ call = made
    BY <2>1 DEF Committed
  <2>4. call \in upstream' => ~Committed(call)'
    BY <2>2, <2>3 DEF ClaimInv
  <2>5. \A i \in 1..Len(log) : log[i] # made
    BY <2>2 DEF Committed
  <2> QED BY <2>1, <2>4, <2>5 DEF ClaimInv
<1> QED BY <1>1, <1>2, <1>3, <1>4, PlaneMoves

LEMMA ClaimsStart == Init => CountInv /\ ClaimInv
<1> SUFFICES ASSUME Init PROVE CountInv /\ ClaimInv
  OBVIOUS
<1>1. \A call : ~Made(call)
  BY DEF Init, Made, Committed, Handed, Idle, Busy
<1>2. \A row \in Rows : step[row].attempt = 0
  BY DEF Init, Absent
<1>3. CountInv
  BY <1>1, <1>2 DEF CountInv
<1>4. Len(log) = 0
  BY DEF Init
<1>5. ClaimInv
  BY <1>1, <1>4 DEF ClaimInv, Made
<1> QED BY <1>3, <1>5

LEMMA ClaimsMeanOne ==
  ASSUME TypeOK, CountInv, ClaimInv
  PROVE  OneEffectPerClaim
BY LogRows DEF CountInv, ClaimInv, Made, Committed, OneEffectPerClaim

(* A write that claims no key takes effect at most once per claim of its   *)
(* step, and no other write does better without its key: one worker is     *)
(* handed the claim's call, it asks once, and what it gave up either runs  *)
(* late or never.                                                          *)
THEOREM EffectPerClaim == Spec => []OneEffectPerClaim
<1>1. Init => CountInv /\ ClaimInv
  BY ClaimsStart
<1>2. IInv /\ CountInv /\ ClaimInv /\ [Next]_vars => CountInv' /\ ClaimInv'
  BY NextKeepsCount, NextKeepsClaim DEF IInv
<1>3. TypeOK /\ CountInv /\ ClaimInv => OneEffectPerClaim
  BY ClaimsMeanOne
<1> QED BY <1>1, <1>2, <1>3, Invariance, TypeCorrect, PTL DEF Spec

-----------------------------------------------------------------------------
(* Effects fall in order, and undo what was done in reverse.               *)

(* A claimed undo leaves the later steps' undo over.                       *)
OverAbove ==
  \A row \in Rows : row.phase = "undo" /\ step[row].attempt > 0 =>
    \A k \in row.pos + 1..MaxSteps : step[Undo(row.run, k)].status \notin Unfinished

OrderInv == CountInv /\ OverAbove /\ EffectsInOrder /\ UndoInReverse

(* The undo rows of a run that has any stay as they are once they are over.*)
LEMMA UndoStaysOver ==
  ASSUME IInv, [Next]_vars, NEW row \in Rows, row.phase = "undo",
         step[row].status # "absent", NEW k \in row.pos + 1..MaxSteps,
         step[Undo(row.run, k)].status \notin Unfinished
  PROVE  step'[Undo(row.run, k)].status = step[Undo(row.run, k)].status
<1>0. Base
  BY DEF IInv
<1>1. /\ Undo(row.run, k) \in Rows /\ Undo(row.run, k).run = row.run
      /\ Undo(row.run, k).phase = "undo"
  BY RowShape, RowsOfRun, StepsAssumption DEF Positions, Undo
<1>2. run[row.run].status \notin {"none", "queued", "running"}
  BY <1>0 DEF Base, UndoAfterTurn
<1> QED BY <1>0, <1>1, <1>2, StepMoves DEF Moves, Born, Unfinished

LEMMA NextKeepsOver ==
  ASSUME IInv, IInv', CountInv, OverAbove, [Next]_vars
  PROVE  OverAbove'
<1> SUFFICES ASSUME NEW row \in Rows, row.phase = "undo", step'[row].attempt > 0,
                    NEW k \in row.pos + 1..MaxSteps
             PROVE  step'[Undo(row.run, k)].status \notin Unfinished
  BY DEF OverAbove
<1>1. CASE step'[row].status = "claimed"
  BY <1>1 DEF IInv, Core, UndoOneAtATime
<1>2. CASE step'[row].attempt = step[row].attempt
  <2>1. step[row].attempt > 0 /\ step[row].status # "absent"
    BY <1>2, AttemptMoves DEF IInv, CountInv
  <2>2. step[Undo(row.run, k)].status \notin Unfinished
    BY <2>1 DEF OverAbove
  <2> QED BY <2>1, <2>2, UndoStaysOver
<1> QED BY <1>1, <1>2, AttemptMoves DEF IInv

(* What was done before a place in the log stays so.                       *)
LEMMA DoneStays ==
  ASSUME Base, [Next]_vars, NEW n \in 1..Len(log) + 1, NEW row, DoneBefore(row, n)
  PROVE  DoneBefore(row, n)'
<1>1. Len(log) \in Nat
  BY DEF Base, TypeOK
<1>2. PICK i \in 1..n - 1 : log[i].row = row
  BY DEF DoneBefore
<1>3. log'[i] = log[i]
  BY <1>1, <1>2, LogStays
<1> QED BY <1>2, <1>3 DEF DoneBefore

(* An effect in the log is an old one, or the one this step commits, of a  *)
(* row that was claimed.                                                   *)
LEMMA EffectMoves ==
  ASSUME Base, EnqueuedInv, CountInv, [Next]_vars, NEW j \in 1..Len(log')
  PROVE  /\ log'[j].row \in Rows
         /\ run[log'[j].row.run].status # "none"
         /\ step[log'[j].row].attempt > 0
         /\ \/ j \in 1..Len(log) /\ log'[j] = log[j]
            \/ j = Len(log) + 1
         /\ j \in 1..Len(log) + 1
<1> USE DEF Base
<1>1. ASSUME NEW call \in Calls, Made(call)
      PROVE  call.row \in Rows /\ step[call.row].attempt > 0
  <2>1. call.row \in Rows /\ step[call.row].attempt \in Nat
    BY DEF Calls, TypeOK, StepRecord
  <2> QED BY <1>1, <2>1 DEF CountInv
<1>2. ASSUME j \in 1..Len(log), log'[j] = log[j]
      PROVE  /\ log'[j].row \in Rows /\ run[log'[j].row.run].status # "none"
             /\ step[log'[j].row].attempt > 0
  <2>1. log[j] \in Calls /\ Made(log[j])
    BY <1>2, LogRows DEF Made, Committed
  <2> QED BY <1>1, <1>2, <2>1 DEF EnqueuedInv
<1>3. Len(log) \in Nat
  BY DEF TypeOK
<1>4. CASE log' = log
  BY <1>2, <1>3, <1>4
<1>5. ASSUME NEW call \in Calls, Commits(call), Source(call)
      PROVE  /\ log'[j].row \in Rows /\ run[log'[j].row.run].status # "none"
             /\ step[log'[j].row].attempt > 0
             /\ (j \in 1..Len(log) /\ log'[j] = log[j]) \/ j = Len(log) + 1
             /\ j \in 1..Len(log) + 1
  <2>1. Made(call) /\ run[call.row.run].status # "none"
    <3>1. ASSUME NEW h \in Holders, CallPlane(h), call = CallOf(h)
          PROVE  Made(call) /\ run[call.row.run].status # "none"
      <4>1. work[h].pc \in Busy
        BY <3>1 DEF CallPlane, Busy
      <4> QED BY <3>1, <4>1 DEF Made, Handed, CallOf, EnqueuedInv
    <3> QED BY <1>5, <3>1 DEF Source, Made, EnqueuedInv
  <2>2. /\ Len(log') = Len(log) + 1 /\ log'[Len(log) + 1] = call
        /\ \A i \in 1..Len(log) : log'[i] = log[i]
    BY <1>5, LogAppends DEF Commits
  <2>3. CASE j \in 1..Len(log)
    BY <1>2, <1>3, <2>2, <2>3
  <2>4. CASE j = Len(log) + 1
    BY <1>1, <1>3, <2>1, <2>2, <2>4
  <2> QED BY <1>3, <2>2, <2>3, <2>4
<1> QED BY <1>4, <1>5, PlaneMoves

LEMMA NextKeepsOrder ==
  ASSUME EffectInv, OrderInv, [Next]_vars
  PROVE  EffectsInOrder'
<1> USE DEF EffectInv, IInv, OrderInv
<1> SUFFICES ASSUME NEW j \in 1..Len(log'), NEW row, row = log'[j].row,
                    row.phase = "forward", ~run'[row.run].dry,
                    NEW p \in 1..row.pos - 1, run'[row.run].body[p].kind = "write"
             PROVE  DoneBefore(Forward(row.run, p), j)'
  BY DEF EffectsInOrder
<1>1. /\ row \in Rows /\ run[row.run].status # "none" /\ step[row].attempt > 0
      /\ j \in 1..Len(log) + 1
  BY EffectMoves
<1>2. SameRequest(run'[row.run], run[row.run])
  BY <1>1, RowShape, NextKeepsBody
<1>3. ~run[row.run].dry /\ run[row.run].body[p].kind = "write"
  BY <1>2 DEF SameRequest
<1>4. CASE j \in 1..Len(log) /\ log'[j] = log[j]
  BY <1>1, <1>3, <1>4, DoneStays DEF EffectsInOrder
<1>5. CASE j = Len(log) + 1
  <2>1. Forward(row.run, p) \in Rows
    BY <1>1, RowShape, RowsOfRun, StepsAssumption DEF Positions
  <2>2. step[Forward(row.run, p)].status = "succeeded"
    BY <1>1 DEF Core, Sequential
  <2>3. KindOf(Forward(row.run, p)) = "write" /\ Forward(row.run, p).run = row.run
    BY <1>3 DEF KindOf, ElementOf, Forward
  <2>4. DoneBefore(Forward(row.run, p), j)
    BY <1>3, <1>5, <2>1, <2>2, <2>3 DEF DoneInv, SucceededMeansDone
  <2> QED BY <1>1, <2>4, DoneStays
<1> QED BY <1>4, <1>5, EffectMoves

LEMMA NextKeepsReverse ==
  ASSUME EffectInv, TurnInv, OrderInv, [Next]_vars
  PROVE  UndoInReverse'
<1> USE DEF EffectInv, IInv, OrderInv
<1> SUFFICES ASSUME NEW j \in 1..Len(log'), NEW row, row = log'[j].row,
                    row.phase = "undo", ~run'[row.run].dry
             PROVE  /\ DoneBefore(Forward(row.run, row.pos), j)'
                    /\ \A p \in row.pos + 1..MaxSteps :
                         step'[Undo(row.run, p)].status = "succeeded"
                           => DoneBefore(Undo(row.run, p), j)'
  BY DEF UndoInReverse
<1>1. /\ row \in Rows /\ run[row.run].status # "none" /\ step[row].attempt > 0
      /\ j \in 1..Len(log) + 1
  BY EffectMoves
<1>2. step[row].status # "absent" /\ ~run[row.run].dry /\ row.run \in Runs
  BY <1>1, RowStays, RowShape DEF CountInv
<1>3. ASSUME NEW p \in row.pos + 1..MaxSteps, step'[Undo(row.run, p)].status = "succeeded"
      PROVE  step[Undo(row.run, p)].status = "succeeded"
  BY <1>1, <1>2, <1>3, UndoStaysOver DEF OverAbove
<1>4. CASE j \in 1..Len(log) /\ log'[j] = log[j]
  BY <1>1, <1>2, <1>3, <1>4, DoneStays DEF UndoInReverse
<1>5. CASE j = Len(log) + 1
  <2>1. DoneBefore(Forward(row.run, row.pos), j)
    <3>1. /\ row.pos \in 1..Len(run[row.run].body)
          /\ run[row.run].body[row.pos].undo
          /\ step[Forward(row.run, row.pos)].status = "succeeded"
      BY <1>1, <1>2 DEF TurnInv
    <3>2. run[row.run].body \in Definitions /\ Forward(row.run, row.pos) \in Rows
      BY <1>2, <3>1, BodyPositions DEF EffectInv, IInv, Base
    <3>3. run[row.run].body[row.pos].kind = "write"
      BY <3>1, <3>2, DefinitionsAssumption
    <3>4. /\ KindOf(Forward(row.run, row.pos)) = "write"
          /\ Forward(row.run, row.pos).run = row.run
      BY <3>3 DEF KindOf, ElementOf, Forward
    <3> QED BY <1>2, <1>5, <3>1, <3>2, <3>4 DEF DoneInv, SucceededMeansDone
  <2>2. ASSUME NEW p \in row.pos + 1..MaxSteps,
               step[Undo(row.run, p)].status = "succeeded"
        PROVE  DoneBefore(Undo(row.run, p), j)
    <3>1. Undo(row.run, p) \in Rows
      BY <1>1, RowShape, RowsOfRun, StepsAssumption DEF Positions
    <3>2. KindOf(Undo(row.run, p)) = "write" /\ Undo(row.run, p).run = row.run
      BY DEF KindOf, Undo
    <3> QED BY <1>2, <1>5, <2>2, <3>1, <3>2 DEF DoneInv, SucceededMeansDone
  <2> QED BY <1>1, <1>3, <2>1, <2>2, DoneStays
<1> QED BY <1>4, <1>5, EffectMoves

LEMMA OrderInvariance == Spec => []OrderInv
<1>1. Init => OrderInv
  BY ClaimsStart DEF Init, OrderInv, OverAbove, EffectsInOrder, UndoInReverse, Absent
<1>2. EffectInv /\ EffectInv' /\ TurnInv /\ OrderInv /\ [Next]_vars => OrderInv'
  <2> SUFFICES ASSUME EffectInv, EffectInv', TurnInv, OrderInv, [Next]_vars
               PROVE  OrderInv'
    OBVIOUS
  <2>1. CountInv' /\ OverAbove'
    BY NextKeepsCount, NextKeepsOver DEF EffectInv, IInv, OrderInv
  <2> QED BY <2>1, NextKeepsOrder, NextKeepsReverse DEF OrderInv
<1> QED BY <1>1, <1>2, EffectInvariance, TurnInvariance, PTL DEF Spec

(* A forward write takes effect only after every write before it in the    *)
(* definition did, also when its statement runs after its worker gave up:  *)
(* it was sent for a claim, and a claim waits for the steps before.        *)
THEOREM EffectsOrdered == Spec => []EffectsInOrder
<1>1. OrderInv => EffectsInOrder
  BY DEF OrderInv
<1> QED BY <1>1, OrderInvariance, PTL

(* A compensation takes effect after the effect it undoes, and after each  *)
(* compensation of a later step that is ever recorded as succeeded: its    *)
(* row is claimed only when the later ones are over, which they stay.      *)
THEOREM UndoReverses == Spec => []UndoInReverse
<1>1. OrderInv => UndoInReverse
  BY DEF OrderInv
<1> QED BY <1>1, OrderInvariance, PTL

-----------------------------------------------------------------------------
(* Event waits.                                                            *)

(* A wait starts unserved with its park, and is served while parked.       *)
AwaitMoves(row) ==
  \/ step'[row].await \in {step[row].await, "no"}
  \/ /\ step'[row].await = "waiting"
     /\ \E h \in Holders : AwaitEvent(h) /\ work[h].row = row
  \/ Servable(row)

LEMMA StepAwaitMoves ==
  ASSUME Base, [Next]_vars, NEW row \in Rows
  PROVE  AwaitMoves(row)
<1> USE DEF Base
<1>0. step \in [Rows -> StepRecord]
  BY DEF TypeOK
<1>1. CASE step' = step
  BY <1>1 DEF AwaitMoves
<1>2. CASE Request
  <2>1. ASSUME NEW r \in Runs, NEW d \in Definitions, NEW dry \in BOOLEAN,
               Enqueue(r, d, dry)
        PROVE  AwaitMoves(row)
    BY <2>1 DEF Enqueue, AwaitMoves, NewStep, Absent
  <2>2. ASSUME NEW other \in Rows, Approve(other)
        PROVE  AwaitMoves(row)
    BY <1>0, <2>2 DEF Approve, AwaitMoves, StepRecord
  <2>3. ASSUME NEW matched, Emit(matched)
        PROVE  AwaitMoves(row)
    BY <1>0, <2>3 DEF Emit, AwaitMoves
  <2> QED BY <1>1, <1>2, <2>1, <2>2, <2>3 DEF Request, Cancel, Reject, SetAgent
<1>3. CASE Clock
  BY <1>0, <1>1, <1>3 DEF Clock, LeaseLapses, ResumeDue, RunOverdue, AwaitMoves, StepRecord
<1>4. ASSUME NEW h \in Holders, ClaimStep(h) \/ ClaimNothing(h)
      PROVE  AwaitMoves(row)
  <2>1. /\ SweptSteps \in [Rows -> StepRecord]
        /\ SweptSteps[row].await \in {step[row].await, "no"}
    BY SweptTyped DEF Typed, SweptSteps, BegunSteps, NewStep, Absent
  <2>2. CASE step' = SweptSteps
    BY <2>1, <2>2 DEF AwaitMoves
  <2>3. CASE \E claimed \in Rows : step' = [SweptSteps EXCEPT ![claimed] = ClaimedStep(@, h)]
    BY <2>1, <2>3 DEF AwaitMoves, ClaimedStep, StepRecord
  <2> QED BY <1>4, <2>2, <2>3 DEF ClaimStep, ClaimNothing, Claimable
<1>5. ASSUME NEW h \in Holders,
             \/ FinishAbandoned(h) \/ FinishUndo(h) \/ FinishForward(h)
             \/ Park(h) \/ AwaitEvent(h) \/ RequestApproval(h)
      PROVE  AwaitMoves(row)
  <2>1. work[h].row \in Rows
    BY <1>5 DEF FinishAbandoned, FinishUndo, FinishForward, Park, AwaitEvent,
                RequestApproval, Recording, WorkOK, Busy
  <2>2. ASSUME NEW status, NEW ss, ss = [step EXCEPT ![work[h].row] = Released(@, status)]
        PROVE  ss[row].await = step[row].await
    BY <1>0, <2>1, <2>2 DEF Released, StepRecord
  <2>3. CASE FinishAbandoned(h) \/ RequestApproval(h)
    BY <2>2, <2>3 DEF FinishAbandoned, RequestApproval, AwaitMoves
  <2>4. CASE Park(h)
    BY <1>0, <2>1, <2>4 DEF Park, Released, StepRecord, AwaitMoves
  <2>5. CASE AwaitEvent(h)
    <3>1. CASE row = work[h].row
      <4>1. step'[row].await = "waiting"
        BY <1>0, <2>1, <2>5, <3>1 DEF AwaitEvent, Released, StepRecord
      <4> QED BY <2>5, <3>1, <4>1 DEF AwaitMoves
    <3>2. CASE row # work[h].row
      BY <1>0, <2>1, <2>5, <3>2 DEF AwaitEvent, AwaitMoves
    <3> QED BY <3>1, <3>2
  <2>6. CASE FinishUndo(h) \/ FinishForward(h)
    <3>1. PICK ss : /\ ss = [step EXCEPT ![work[h].row] =
                                         Released(@, FinishedStatus(work[h].verdict))]
                    /\ \/ step' = ss
                       \/ step' = BegunSteps({work[h].row.run}, ss)
      BY <2>6 DEF FinishUndo, FinishForward
    <3>2. ss[row].await = step[row].await
      BY <2>2, <3>1
    <3> QED BY <3>1, <3>2 DEF BegunSteps, NewStep, Absent, AwaitMoves
  <2> QED BY <1>5, <2>3, <2>4, <2>5, <2>6
<1>6. ASSUME NEW h \in Holders, Start(h) \/ Crash(h) \/ Work(h)
      PROVE  AwaitMoves(row)
  BY <1>1, <1>4, <1>5, <1>6 DEF Start, Crash, Work, WithdrawEnded, ReadGate, CloseGate,
     Mint, CallPlane, LeaseLost
<1> QED BY <1>1, <1>2, <1>3, <1>6 DEF Next, vars, Commit

(* A worker that holds a row after a step it did not claim in held it      *)
(* before.                                                                 *)
LEMMA HolderKept ==
  ASSUME Base, [Next]_vars, NEW row \in Rows, NEW h \in Holders,
         Holds(h, row)', work[h].pc # "idle"
  PROVE  Holds(h, row)
<1> USE DEF Base
<1>0. step \in [Rows -> StepRecord] /\ step'[row].status = "claimed" /\ step'[row].holder = h
  BY DEF TypeOK, Holds
<1>1. CASE step'[row] = step[row]
  BY <1>1 DEF Holds
<1>2. CASE Request
  <2>1. ASSUME NEW r \in Runs, NEW d \in Definitions, NEW dry \in BOOLEAN,
               Enqueue(r, d, dry)
        PROVE  step'[row] = step[row]
    BY <1>0, <2>1 DEF Enqueue, NewStep, Absent
  <2>2. ASSUME NEW other \in Rows, Approve(other)
        PROVE  /\ step'[row].status = step[row].status
               /\ step'[row].holder = step[row].holder
    BY <1>0, <2>2 DEF Approve, StepRecord
  <2>3. ASSUME NEW matched, Emit(matched)
        PROVE  /\ step'[row].status = step[row].status
               /\ step'[row].holder = step[row].holder
    BY <1>0, <2>3 DEF Emit, StepRecord
  <2> QED BY <1>0, <1>1, <1>2, <2>1, <2>2, <2>3 DEF Request, Cancel, Reject, SetAgent, Holds
<1>3. CASE Clock
  BY <1>0, <1>1, <1>3 DEF Clock, LeaseLapses, ResumeDue, RunOverdue, Holds, StepRecord
<1>4. ASSUME NEW g \in Holders, ClaimStep(g) \/ ClaimNothing(g)
      PROVE  Holds(h, row)
  <2>1. SweptSteps \in [Rows -> StepRecord] /\ (SweptSteps[row] = step[row] \/ SweptSteps[row].status = "queued")
    BY SweepRows
  <2>2. CASE step' = SweptSteps
    BY <1>0, <1>1, <2>1, <2>2
  <2>3. ASSUME ClaimStep(g), NEW claimed \in Rows,
               step' = [SweptSteps EXCEPT ![claimed] = ClaimedStep(@, g)]
        PROVE  Holds(h, row)
    <3>1. g # h
      BY <2>3 DEF ClaimStep
    <3>2. row # claimed
      BY <1>0, <2>1, <2>3, <3>1 DEF ClaimedStep, StepRecord
    <3> QED BY <1>0, <1>1, <2>1, <2>3, <3>2
  <2> QED BY <1>4, <2>2, <2>3 DEF ClaimStep, ClaimNothing, Claimable
<1>5. ASSUME NEW g \in Holders,
             \/ FinishAbandoned(g) \/ FinishUndo(g) \/ FinishForward(g)
             \/ Park(g) \/ AwaitEvent(g) \/ RequestApproval(g)
      PROVE  Holds(h, row)
  <2>1. work[g].row \in Rows
    BY <1>5 DEF FinishAbandoned, FinishUndo, FinishForward, Park, AwaitEvent,
                RequestApproval, Recording, WorkOK, Busy
  <2>2. ASSUME NEW status, NEW ss, ss = [step EXCEPT ![work[g].row] = Released(@, status)]
        PROVE  ss[row] = step[row] \/ ss[row].holder = None
    BY <1>0, <2>1, <2>2 DEF Released, StepRecord
  <2>3. CASE FinishAbandoned(g) \/ RequestApproval(g)
    BY <1>0, <1>1, <2>2, <2>3, NoneAssumption DEF FinishAbandoned, RequestApproval
  <2>4. CASE Park(g) \/ AwaitEvent(g)
    <3>1. Released(step[work[g].row], "parked") \in StepRecord
      BY <1>0, <2>1, ReleasedTyped DEF StepStatus
    <3>2. Released(step[work[g].row], "parked").holder = None
      BY <1>0, <2>1 DEF Released, StepRecord
    <3>3. step'[row] = step[row] \/ step'[row].holder = None
      <4>1. CASE row # work[g].row
        BY <1>0, <2>1, <2>4, <4>1 DEF Park, AwaitEvent
      <4>2. CASE Park(g) /\ row = work[g].row
        <5>1. step'[row] = [Released(step[row], "parked") EXCEPT
                              !.waited = @ \/ work[g].verdict = "wait"]
          BY <1>0, <4>2 DEF Park
        <5> QED BY <3>1, <3>2, <4>2, <5>1 DEF StepRecord
      <4>3. CASE AwaitEvent(g) /\ row = work[g].row
        <5>1. step'[row] = [Released(step[row], "parked") EXCEPT !.await = "waiting"]
          BY <1>0, <4>3 DEF AwaitEvent
        <5> QED BY <3>1, <3>2, <4>3, <5>1 DEF StepRecord
      <4> QED BY <2>4, <4>1, <4>2, <4>3
    <3> QED BY <1>0, <1>1, <3>3, NoneAssumption
  <2>5. CASE FinishUndo(g) \/ FinishForward(g)
    <3>1. PICK ss : /\ ss = [step EXCEPT ![work[g].row] =
                                         Released(@, FinishedStatus(work[g].verdict))]
                    /\ \/ step' = ss
                       \/ step' = BegunSteps({work[g].row.run}, ss)
      BY <2>5 DEF FinishUndo, FinishForward
    <3>2. ss[row] = step[row] \/ ss[row].holder = None
      BY <2>2, <3>1
    <3>3. step'[row] = ss[row]
      BY <1>0, <3>1 DEF BegunSteps, NewStep, Absent
    <3> QED BY <1>0, <1>1, <3>2, <3>3, NoneAssumption
  <2> QED BY <1>5, <2>3, <2>4, <2>5
<1>6. ASSUME NEW g \in Holders, Start(g) \/ Crash(g) \/ Work(g)
      PROVE  Holds(h, row)
  BY <1>1, <1>4, <1>5, <1>6 DEF Start, Crash, Work, WithdrawEnded, ReadGate, CloseGate,
     Mint, CallPlane, LeaseLost
<1> QED BY <1>1, <1>2, <1>3, <1>6 DEF Next, vars, Commit

(* Only an event row awaits, its worker never calls the plane, and a       *)
(* worker that holds it and is to fail it read it unserved.                *)
WaitInv ==
  /\ \A row \in Rows : step[row].await # "no" =>
                        step[row].status # "absent" /\ KindOf(row) = "event"
  /\ \A h \in Holders :
       /\ work[h].pc \in {"mint", "call", "close"} => KindOf(work[h].row) # "event"
       /\ Recording(h, {"await"}) => KindOf(work[h].row) = "event"
       /\ /\ Recording(h, Outcomes \ Good) /\ Holds(h, work[h].row)
          /\ KindOf(work[h].row) = "event"
          => step[work[h].row].await # "served"
  /\ ServedWaitSucceeds

(* What a worker may be about to do with a row of that kind.               *)
WorkerWaits(h, row) ==
  /\ work[h].pc \in {"mint", "call", "close"} => KindOf(row) # "event"
  /\ Recording(h, {"await"}) => KindOf(row) = "event"
  /\ Recording(h, Outcomes \ Good) /\ Holds(h, row) /\ KindOf(row) = "event"
       => step[row].await # "served"

LEMMA TakenEvent ==
  ASSUME TypeOK, NEW row \in Rows, NEW n \in Nat
  PROVE  /\ KindOf(row) = "event" =>
              Taken(row, n).pc \in {"gate", "record"} /\ Taken(row, n).verdict \in {"none", "dry_run"}
         /\ Taken(row, n).verdict \in {"none", "dry_run"}
<1>1. run[row.run].dry \in BOOLEAN
  BY RowShape DEF TypeOK, RunRecord
<1> QED BY <1>1 DEF Taken

LEMMA WorkerKeepsWaits ==
  ASSUME Base, EnqueuedInv, WaitInv, [Next]_vars, NEW h \in Holders, work'[h].pc \in Busy,
         NEW row \in Rows, work'[h].row = row
  PROVE  WorkerWaits(h, row)'
<1> USE DEF Base
<1>0. work \in [Holders -> WorkRecord] /\ work[h] \in WorkRecord
  BY DEF TypeOK
<1>1. WorkMoves(h)
  BY WorkerMoves
<1>2. CASE work'[h] = work[h]
  <2>1. work[h].row = row /\ run[row.run].status # "none" /\ work[h].pc # "idle"
    BY <1>2 DEF EnqueuedInv, Busy
  <2>2. KindOf(row)' = KindOf(row)
    BY <2>1, RowStays
  <2>3. WorkerWaits(h, row)
    BY <2>1 DEF WorkerWaits, WaitInv
  <2>4. ASSUME Holds(h, row)', step[row].await # "served"
        PROVE  step'[row].await # "served"
    <3>1. step[row].status = "claimed"
      BY <2>1, <2>4, HolderKept DEF Holds
    <3> QED BY <2>4, <3>1, StepAwaitMoves DEF AwaitMoves, Servable
  <2>5. Holds(h, row)' => Holds(h, row)
    BY <2>1, HolderKept
  <2>6. \A verdicts : Recording(h, verdicts)' <=> Recording(h, verdicts)
    BY <1>2 DEF Recording
  <2> QED BY <1>2, <2>2, <2>3, <2>4, <2>5, <2>6 DEF WorkerWaits
<1>3. ASSUME NEW taken \in Rows, NEW n \in Nat, run[taken.run].status # "none",
             work'[h] = Taken(taken, n)
      PROVE  WorkerWaits(h, row)'
  <2>1. taken = row
    BY <1>3, TakenOK
  <2>2. KindOf(row)' = KindOf(row)
    BY <1>3, <2>1, RowStays
  <2>3. /\ KindOf(row) = "event" => Taken(row, n).pc \in {"gate", "record"}
        /\ Taken(row, n).verdict \in {"none", "dry_run"}
    BY TakenEvent
  <2> QED BY <1>3, <2>1, <2>2, <2>3 DEF WorkerWaits, Recording, Good, Outcomes
<1>4. ASSUME work[h].pc \in Busy, work'[h].row = work[h].row,
             ReadGate(h) \/ CloseGate(h) \/ Mint(h) \/ CallPlane(h)
      PROVE  WorkerWaits(h, row)'
  <2>1. work[h].row = row /\ run[row.run].status # "none"
    BY <1>4 DEF EnqueuedInv
  <2>2. KindOf(row)' = KindOf(row)
    BY <2>1, RowStays
  <2>3. step' = step
    BY <1>4 DEF ReadGate, CloseGate, Mint, CallPlane
  <2>4. ASSUME NEW verdict, Record(h, verdict)
        PROVE  work'[h].pc = "record" /\ work'[h].verdict = verdict
    BY <1>0, <2>4 DEF Record, WorkRecord
  <2>5. ASSUME KindOf(row) # "event", ~Recording(h, {"await"})'
        PROVE  WorkerWaits(h, row)'
    BY <2>2, <2>5 DEF WorkerWaits
  <2>6. CASE CloseGate(h) \/ Mint(h) \/ CallPlane(h)
    <3>1. KindOf(row) # "event"
      BY <2>1, <2>6 DEF CloseGate, Mint, CallPlane, WaitInv
    <3>2. \/ \E verdict \in Outcomes \cup {"park", "request"} : Record(h, verdict)
          \/ work' = [work EXCEPT ![h].pc = "call"]
      BY <2>6 DEF CloseGate, Mint, CallPlane, OkVerdict, Refusals, RetryVerdict, Outcomes, Good
    <3>3. CASE work' = [work EXCEPT ![h].pc = "call"]
      <4>1. work'[h].pc = "call"
        BY <1>0, <3>3 DEF WorkRecord
      <4> QED BY <2>5, <3>1, <4>1 DEF Recording
    <3>4. ASSUME NEW verdict \in Outcomes \cup {"park", "request"}, Record(h, verdict)
          PROVE  WorkerWaits(h, row)'
      BY <2>4, <2>5, <3>1, <3>4 DEF Recording, Outcomes, Good
    <3> QED BY <3>2, <3>3, <3>4
  <2>7. CASE ReadGate(h)
    <3>1. ~GoIdle(h)
      BY <1>0 DEF GoIdle, Idle, Busy
    <3>2. CASE KindOf(row) = "wait"
      BY <2>1, <2>4, <2>5, <2>7, <3>1, <3>2 DEF ReadGate, GoIdle, WaitVerdict, Recording
    <3>3. CASE KindOf(row) = "event"
      <4>1. PICK verdict : /\ Record(h, verdict)
                           /\ verdict \in Outcomes \ Good => step[row].await # "served"
        BY <2>1, <2>7, <3>1, <3>3 DEF ReadGate, GoIdle, Outcomes, Good
      <4> QED BY <2>2, <2>3, <2>4, <3>3, <4>1 DEF WorkerWaits, Recording
    <3>4. CASE KindOf(row) = "write"
      <4>1. \E pc \in {"mint", "close"}, token \in BOOLEAN :
              work' = [work EXCEPT ![h].pc = pc, ![h].token = token]
        BY <2>1, <2>7, <3>1, <3>4 DEF ReadGate, GoIdle
      <4>2. work'[h].pc \in {"mint", "close"}
        BY <1>0, <4>1 DEF WorkRecord
      <4> QED BY <2>5, <3>4, <4>2 DEF Recording
    <3> QED BY <2>1, <2>7, <3>1, <3>2, <3>3, <3>4 DEF ReadGate, GoIdle
  <2> QED BY <1>4, <2>6, <2>7
<1> QED BY <1>1, <1>2, <1>3, <1>4 DEF WorkMoves

LEMMA NextKeepsWaits ==
  ASSUME Base, EnqueuedInv, WaitInv, [Next]_vars
  PROVE  WaitInv'
<1> USE DEF Base
<1>1. ASSUME NEW row \in Rows, step'[row].await # "no"
      PROVE  step'[row].status # "absent" /\ KindOf(row)' = "event"
  <2>1. step[row].status # "absent" /\ KindOf(row) = "event"
    <3>1. ASSUME NEW h \in Holders, AwaitEvent(h), work[h].row = row
          PROVE  step[row].status # "absent" /\ KindOf(row) = "event"
      BY <3>1 DEF AwaitEvent, Holds, WaitInv
    <3> QED BY <1>1, <3>1, StepAwaitMoves DEF AwaitMoves, Servable, WaitInv
  <2>2. run[row.run].status # "none"
    BY <2>1 DEF RowsAfterRequest
  <2> QED BY <2>1, <2>2, RowStays, StepMoves DEF Moves, Born, FinishedStatus
<1>2. ASSUME NEW row \in Rows, step'[row].await = "served", step'[row].status = "failed"
      PROVE  FALSE
  <2>1. step[row].await = "served" \/ Servable(row)
    BY <1>2, StepAwaitMoves DEF AwaitMoves
  <2>2. step[row].await # "no" /\ step[row].status # "failed"
    BY <2>1 DEF Servable, WaitInv, ServedWaitSucceeds
  <2>3. PICK h \in Holders : /\ Finishes(h, row) /\ step[row].status = "claimed"
                             /\ FinishedStatus(work[h].verdict) = "failed"
    BY <1>2, <2>2, StepMoves DEF Moves, Born
  <2>4. /\ Recording(h, Outcomes \ Good) /\ Holds(h, work[h].row) /\ work[h].row = row
    BY <2>3 DEF Finishes, FinishUndo, FinishForward, Recording, FinishedStatus
  <2> QED BY <2>1, <2>2, <2>3, <2>4 DEF WaitInv, Servable
<1>3. ASSUME NEW h \in Holders, work'[h].pc \in Busy
      PROVE  /\ work'[h].pc \in {"mint", "call", "close"} => KindOf(work[h].row)' # "event"
             /\ Recording(h, {"await"})' => KindOf(work[h].row)' = "event"
             /\ (/\ Recording(h, Outcomes \ Good) /\ Holds(h, work[h].row)
                 /\ KindOf(work[h].row) = "event"
                 => step[work[h].row].await # "served")'
  <2>1. PICK row \in Rows : row = work'[h].row
    BY <1>3, NextTyped DEF Typing, WorkOK
  <2>2. WorkerWaits(h, row)'
    BY <1>3, <2>1, WorkerKeepsWaits
  <2> QED BY <2>1, <2>2 DEF WorkerWaits, KindOf, ElementOf, Holds, Recording
<1>4. \A h \in Holders : work'[h].pc \in {"mint", "call", "close", "record"} => work'[h].pc \in Busy
  BY DEF Busy
<1> QED BY <1>1, <1>2, <1>3, <1>4 DEF WaitInv, ServedWaitSucceeds, Recording

(* An event wait that was served succeeds or is still going: the worker    *)
(* that would fail it as timed out read it unserved while it held the row, *)
(* and an event serves parked rows only.                                   *)
THEOREM ServedSucceeds == Spec => []ServedWaitSucceeds
<1>1. Init => WaitInv
  BY DEF Init, WaitInv, ServedWaitSucceeds, Absent, Idle, Recording
<1>2. IInv /\ EnqueuedInv /\ WaitInv /\ [Next]_vars => WaitInv'
  BY NextKeepsWaits DEF IInv
<1>3. EffectInv => IInv /\ EnqueuedInv
  BY DEF EffectInv
<1>4. WaitInv => ServedWaitSucceeds
  BY DEF WaitInv
<1> QED BY <1>1, <1>2, <1>3, <1>4, EffectInvariance, PTL DEF Spec
=============================================================================
