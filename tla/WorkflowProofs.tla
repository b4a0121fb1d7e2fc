--------------------------- MODULE WorkflowProofs ---------------------------
(***************************************************************************)
(* Theorems about Workflow, for every value of its constants.              *)
(*                                                                         *)
(* The inductive invariant is about the runs and the rows alone, so it is  *)
(* stated of any two functions rs and ss: a claim first sweeps the runs    *)
(* whose cancel or timeout is due and then claims a row of the result, and *)
(* each half preserves it.                                                 *)
(***************************************************************************)
EXTENDS Workflow, FiniteSetTheorems, TLAPS

(* The worker names a row whenever it is processing one.                   *)
Busy == {"gate", "mint", "call", "close", "record"}
WorkOK == \A h \in Holders : work[h].pc \in Busy => work[h].row \in Rows

(* The rows of a run that was not enqueued are unclaimed too.              *)
NoRowsBefore(rs, ss) ==
  \A row \in Rows : rs[row.run].status = "none" =>
    ss[row].status = "absent" /\ ss[row].attempt = 0

(* SequentialForward of the pair.                                          *)
Sequential(ss) ==
  \A row \in Rows :
    row.phase = "forward" /\ ss[row].attempt > 0 =>
      \A i \in 1..row.pos - 1 : ss[Forward(row.run, i)].status = "succeeded"

(* Only a claim counts an attempt, so a claimed row has one.               *)
ClaimCounted(ss) ==
  \A row \in Rows : ss[row].status = "claimed" => ss[row].attempt > 0

(* Undo rows exist only once the run has turned.                           *)
UndoAfterTurn(rs, ss) ==
  \A row \in Rows :
    row.phase = "undo" /\ ss[row].status # "absent" =>
      rs[row.run].status \notin {"none", "queued", "running"}

(* A claimed undo row belongs to a compensating run, whose later steps'    *)
(* undo is over.                                                           *)
UndoOneAtATime(rs, ss) ==
  \A row \in Rows :
    row.phase = "undo" /\ ss[row].status = "claimed" =>
      /\ rs[row.run].status = "compensating"
      /\ \A i \in row.pos + 1..MaxSteps :
           ss[Undo(row.run, i)].status \notin Unfinished

(* LeaseGuardsRun of the pair.                                             *)
Guarded(rs, ss) ==
  \A row \in Rows :
    ss[row].status = "claimed" /\ ss[row].live =>
      rs[row.run].status = IF row.phase = "forward" THEN "running"
                                                    ELSE "compensating"

Typed(rs, ss) == rs \in [Runs -> RunRecord] /\ ss \in [Rows -> StepRecord]

Core(rs, ss) ==
  /\ NoRowsBefore(rs, ss)
  /\ Sequential(ss)
  /\ ClaimCounted(ss)
  /\ UndoAfterTurn(rs, ss)
  /\ UndoOneAtATime(rs, ss)
  /\ Guarded(rs, ss)

(* A compensating run remembers what turned it: its status at the end.     *)
CauseKnown ==
  \A r \in Runs : run[r].status = "compensating" => run[r].cause # "none"

(* A run that was not enqueued has no rows.                                *)
RowsAfterRequest ==
  \A row \in Rows : run[row.run].status = "none" => step[row].status = "absent"

(* What the steps need of each other even where a cancel or a decision     *)
(* acts on what it read before: the types, and that rows come after their  *)
(* run's request and undo rows after its turn.                             *)
Base == TypeOK /\ WorkOK /\ CauseKnown /\ RowsAfterRequest /\ UndoAfterTurn(run, step)

IInv == Base /\ Core(run, step)

-----------------------------------------------------------------------------
(* Facts about the operators.                                              *)

(* The forward and undo rows of a run are rows.                            *)
LEMMA RowsOfRun ==
  ASSUME NEW r \in Runs, NEW i \in Positions
  PROVE  Forward(r, i) \in Rows /\ Undo(r, i) \in Rows
BY DEF Forward, Undo, Rows, Phases

(* A row is the forward or the undo row of its run and position.           *)
LEMMA RowShape ==
  ASSUME NEW row \in Rows
  PROVE  /\ row.run \in Runs /\ row.pos \in Positions /\ row.phase \in Phases
         /\ row.phase = "forward" => row = Forward(row.run, row.pos)
         /\ row.phase = "undo" => row = Undo(row.run, row.pos)
BY DEF Forward, Undo, Rows, Phases

LEMMA NewStepTyped == NewStep \in StepRecord /\ Absent \in StepRecord
BY DEF NewStep, Absent, StepRecord, StepStatus

LEMMA IdleTyped == Idle \in WorkRecord
BY DEF Idle, WorkRecord

(* Turning a set of runs keeps the types.                                  *)
LEMMA BegunTyped ==
  ASSUME NEW r \in Runs, NEW cause \in {"failed", "cancelled"},
         NEW ss, run \in [Runs -> RunRecord]
  PROVE  BegunRun(r, cause, ss) \in RunRecord
BY DEF BegunRun, RunRecord, RunStatus, Ended

LEMMA BegunStepsTyped ==
  ASSUME NEW ending, NEW ss \in [Rows -> StepRecord]
  PROVE  BegunSteps(ending, ss) \in [Rows -> StepRecord]
BY NewStepTyped DEF BegunSteps

LEMMA SweptTyped ==
  ASSUME TypeOK
  PROVE  Typed(SweptRuns, SweptSteps)
<1>1. SweptSteps \in [Rows -> StepRecord]
  BY BegunStepsTyped DEF SweptSteps, TypeOK
<1>2. SweptRuns \in [Runs -> RunRecord]
  BY BegunTyped DEF SweptRuns, TypeOK
<1> QED BY <1>1, <1>2 DEF Typed

LEMMA ReleasedTyped ==
  ASSUME NEW s \in StepRecord, NEW status \in StepStatus
  PROVE  Released(s, status) \in StepRecord
BY DEF Released, StepRecord

(* A busy worker's call is a call, and only a worker at its call sends it. *)
LEMMA CallTyped ==
  ASSUME TypeOK, WorkOK, NEW h \in Holders
  PROVE  /\ work[h].pc \in Busy => CallOf(h) \in Calls
         /\ Sent(h) \subseteq Calls
<1>1. work[h].attempt \in Nat
  BY DEF TypeOK, WorkRecord
<1>2. work[h].pc \in Busy => CallOf(h) \in Calls
  BY <1>1 DEF CallOf, Calls, WorkOK
<1> QED BY <1>2 DEF Sent, Busy

(* What the plane commits, in one transaction: the call's effect, and the  *)
(* key of a write that claims one.                                         *)
Commits(call) ==
  /\ KindOf(call.row) = "write"
  /\ Keyed(call.row) => ~run[call.row.run].dry /\ KeyOf(call) \notin ledger
  /\ ledger' = IF Keyed(call.row) THEN ledger \cup {KeyOf(call)} ELSE ledger
  /\ log' = Append(log, call)

LEMMA ServeMoves ==
  ASSUME NEW call, Serve(call)
  PROVE  Commits(call) \/ UNCHANGED <<ledger, log>>
BY DEF Serve, Commits

LEMMA CommitTyped ==
  ASSUME TypeOK, NEW call \in Calls, Commits(call) \/ UNCHANGED <<ledger, log>>
  PROVE  /\ log' \in Seq(Calls)
         /\ ledger' \subseteq {<<row>> : row \in Rows}
<1>1. log \in Seq(Calls) /\ ledger \subseteq {<<row>> : row \in Rows}
  BY DEF TypeOK
<1>2. Append(log, call) \in Seq(Calls)
  BY <1>1
<1>3. KeyOf(call) \in {<<row>> : row \in Rows}
  BY DEF KeyOf, Calls
<1> QED BY <1>1, <1>2, <1>3 DEF Commits

-----------------------------------------------------------------------------
(* The two halves of a claim, and what a finish does to the run.           *)

(* The runs of ending turn or end, with nothing of theirs in flight, and   *)
(* take undo rows with them; nothing else changes.                         *)
Turned(rs, ss, rs2, ss2, ending) ==
  /\ \A r \in Runs \ ending : rs2[r].status = rs[r].status
  /\ \A r \in ending : /\ rs[r].status # "none"
                       /\ rs2[r].status \notin {"none", "queued", "running"}
  /\ \A row \in Rows : row.run \in ending /\ ss[row].status = "claimed" =>
                        row.phase = "forward" /\ ~ss[row].live
  /\ \A row \in Rows : \/ ss2[row] = ss[row]
                       \/ /\ row.phase = "undo" /\ row.run \in ending
                          /\ ss2[row] = NewStep

(* That keeps the core.                                                    *)
LEMMA TurnPreserves ==
  ASSUME NEW rs \in [Runs -> RunRecord], NEW rs2 \in [Runs -> RunRecord],
         NEW ss, NEW ss2, NEW ending \in SUBSET Runs,
         Core(rs, ss), Turned(rs, ss, rs2, ss2, ending)
  PROVE  Core(rs2, ss2)
<1> USE DEF Turned
<1>1. \A row \in Rows : row.phase = "forward" \/ row.run \notin ending
                       => ss2[row] = ss[row]
  OBVIOUS
<1>2. NewStep.status = "queued" /\ NewStep.attempt = 0
  BY DEF NewStep, Absent
<1>3. \A row \in Rows : ss2[row].status = "claimed" => ss2[row] = ss[row]
  BY <1>2
<1>4. NoRowsBefore(rs2, ss2)
  BY <1>1, RowShape DEF Core, NoRowsBefore
<1>5. Sequential(ss2)
  <2> SUFFICES ASSUME NEW row \in Rows, row.phase = "forward", ss2[row].attempt > 0,
                      NEW i \in 1..row.pos - 1
               PROVE  ss2[Forward(row.run, i)].status = "succeeded"
    BY DEF Sequential
  <2>1. row.run \in Runs /\ i \in Positions
    BY RowShape, StepsAssumption DEF Positions
  <2>2. Forward(row.run, i) \in Rows /\ Forward(row.run, i).phase = "forward"
    BY <2>1, RowsOfRun DEF Forward
  <2> QED BY <1>1, <2>2 DEF Core, Sequential
<1>6. ClaimCounted(ss2)
  BY <1>3 DEF Core, ClaimCounted
<1>7. UndoAfterTurn(rs2, ss2)
  BY <1>1, RowShape DEF Core, UndoAfterTurn
<1>8. UndoOneAtATime(rs2, ss2)
  <2> SUFFICES ASSUME NEW row \in Rows, row.phase = "undo", ss2[row].status = "claimed"
               PROVE  /\ rs2[row.run].status = "compensating"
                      /\ \A i \in row.pos + 1..MaxSteps :
                           ss2[Undo(row.run, i)].status \notin Unfinished
    BY DEF UndoOneAtATime
  <2>1. ss[row].status = "claimed"
    BY <1>3
  <2>2. row.run \notin ending
    BY <2>1
  <2>3. rs2[row.run].status = "compensating"
    BY <2>1, <2>2, RowShape DEF Core, UndoOneAtATime
  <2>4. ASSUME NEW i \in row.pos + 1..MaxSteps
        PROVE  ss2[Undo(row.run, i)].status \notin Unfinished
    <3>1. i \in Positions /\ row.run \in Runs
      BY RowShape, StepsAssumption DEF Positions
    <3>2. Undo(row.run, i) \in Rows /\ Undo(row.run, i).run = row.run
      BY <3>1, RowsOfRun DEF Undo
    <3> QED BY <1>1, <2>1, <2>2, <3>2 DEF Core, UndoOneAtATime
  <2> QED BY <2>3, <2>4
<1>9. Guarded(rs2, ss2)
  BY <1>3, RowShape DEF Core, Guarded
<1> QED BY <1>4, <1>5, <1>6, <1>7, <1>8, <1>9 DEF Core

(* The sweep turns only runs with nothing in flight.                       *)
LEMMA SweepPreserves ==
  ASSUME TypeOK, Core(run, step)
  PROVE  Core(SweptRuns, SweptSteps)
<1> DEFINE ending == Cancelling \cup TimedOut
<1>1. ending \in SUBSET Runs
  BY DEF Cancelling, TimedOut
<1>2. Typed(SweptRuns, SweptSteps) /\ run \in [Runs -> RunRecord]
                                   /\ step \in [Rows -> StepRecord]
  BY SweptTyped DEF TypeOK
<1>3. \A r \in Runs \ ending : SweptRuns[r].status = run[r].status
  BY DEF SweptRuns
<1>4. \A r \in ending : run[r].status \in {"queued", "running"}
  BY DEF Cancelling, TimedOut
<1>5. \A r \in Runs : run[r] \in RunRecord
  BY <1>2
<1>6. \A r \in ending : SweptRuns[r].status \in {"compensating", "failed", "cancelled"}
  BY <1>1, <1>5 DEF SweptRuns, BegunRun, RunRecord
<1>7. \A row \in Rows : row.run \in ending /\ step[row].status = "claimed" =>
                        row.phase = "forward" /\ ~step[row].live
  BY <1>4, RowShape DEF Cancelling, TimedOut, InFlight, Core, UndoAfterTurn, Phases
<1>8. \A row \in Rows : \/ SweptSteps[row] = step[row]
                        \/ /\ row.phase = "undo" /\ row.run \in ending
                           /\ SweptSteps[row] = NewStep
  BY DEF SweptSteps, BegunSteps
<1>9. SweptRuns \in [Runs -> RunRecord] /\ run \in [Runs -> RunRecord]
  BY <1>2 DEF Typed
<1>10. \A r \in ending : /\ run[r].status # "none"
                         /\ SweptRuns[r].status \notin {"none", "queued", "running"}
  BY <1>4, <1>6
<1> HIDE DEF ending
<1>11. Turned(run, step, SweptRuns, SweptSteps, ending)
  BY <1>3, <1>7, <1>8, <1>10 DEF Turned
<1> QED
  BY <1>1, <1>9, <1>11, TurnPreserves

-----------------------------------------------------------------------------
(* What the other steps do to the core.                                    *)

(* Steps that leave the statuses of runs and rows alone and start no lease *)
(* keep the core.                                                          *)
SameStatus(rs, rs2) == \A r \in Runs : rs2[r].status = rs[r].status
SameRows(ss, ss2) ==
  \A row \in Rows : /\ ss2[row].status = ss[row].status
                    /\ ss2[row].attempt = ss[row].attempt
                    /\ ss2[row].live => ss[row].live

LEMMA QuietPreserves ==
  ASSUME NEW rs, NEW rs2, NEW ss, NEW ss2,
         Core(rs, ss), SameStatus(rs, rs2), SameRows(ss, ss2)
  PROVE  Core(rs2, ss2)
<1> USE DEF SameStatus, SameRows
<1>1. NoRowsBefore(rs2, ss2)
  BY RowShape DEF Core, NoRowsBefore
<1>2. Sequential(ss2)
  <2> SUFFICES ASSUME NEW row \in Rows, row.phase = "forward", ss2[row].attempt > 0,
                      NEW i \in 1..row.pos - 1
               PROVE  ss2[Forward(row.run, i)].status = "succeeded"
    BY DEF Sequential
  <2>1. Forward(row.run, i) \in Rows
    BY RowShape, RowsOfRun, StepsAssumption DEF Positions
  <2> QED BY <2>1 DEF Core, Sequential
<1>3. ClaimCounted(ss2)
  BY DEF Core, ClaimCounted
<1>4. UndoAfterTurn(rs2, ss2)
  BY RowShape DEF Core, UndoAfterTurn
<1>5. UndoOneAtATime(rs2, ss2)
  <2> SUFFICES ASSUME NEW row \in Rows, row.phase = "undo", ss2[row].status = "claimed"
               PROVE  /\ rs2[row.run].status = "compensating"
                      /\ \A i \in row.pos + 1..MaxSteps :
                           ss2[Undo(row.run, i)].status \notin Unfinished
    BY DEF UndoOneAtATime
  <2>1. \A i \in row.pos + 1..MaxSteps : Undo(row.run, i) \in Rows
    BY RowShape, RowsOfRun, StepsAssumption DEF Positions
  <2> QED BY <2>1, RowShape DEF Core, UndoOneAtATime
<1>6. Guarded(rs2, ss2)
  BY RowShape DEF Core, Guarded
<1> QED BY <1>1, <1>2, <1>3, <1>4, <1>5, <1>6 DEF Core

(* A claimed row is let go, whatever status it goes to.                    *)
LetGo(ss, ss2, held) ==
  /\ ss[held].status = "claimed"
  /\ ss2[held].status \in {"queued", "parked", "succeeded", "failed"}
  /\ ss2[held].attempt = ss[held].attempt
  /\ \A row \in Rows \ {held} : ss2[row] = ss[row]

LEMMA ReleasePreserves ==
  ASSUME NEW rs \in [Runs -> RunRecord], NEW ss \in [Rows -> StepRecord],
         NEW ss2 \in [Rows -> StepRecord], Core(rs, ss),
         NEW held \in Rows, LetGo(ss, ss2, held)
  PROVE  Core(rs, ss2)
<1> USE DEF LetGo
<1>1. NoRowsBefore(rs, ss2)
  BY DEF Core, NoRowsBefore
<1>2. Sequential(ss2)
  <2> SUFFICES ASSUME NEW row \in Rows, row.phase = "forward", ss2[row].attempt > 0,
                      NEW i \in 1..row.pos - 1
               PROVE  ss2[Forward(row.run, i)].status = "succeeded"
    BY DEF Sequential
  <2>1. Forward(row.run, i) \in Rows
    BY RowShape, RowsOfRun, StepsAssumption DEF Positions
  <2>2. ss[Forward(row.run, i)].status = "succeeded"
    BY DEF Core, Sequential
  <2> QED BY <2>1, <2>2
<1>3. ClaimCounted(ss2)
  BY DEF Core, ClaimCounted
<1>4. UndoAfterTurn(rs, ss2)
  BY DEF Core, UndoAfterTurn
<1>5. UndoOneAtATime(rs, ss2)
  <2> SUFFICES ASSUME NEW row \in Rows, row.phase = "undo", ss2[row].status = "claimed",
                      NEW i \in row.pos + 1..MaxSteps
               PROVE  ss2[Undo(row.run, i)].status \notin Unfinished
    BY DEF Core, UndoOneAtATime
  <2>1. Undo(row.run, i) \in Rows
    BY RowShape, RowsOfRun, StepsAssumption DEF Positions
  <2>2. ss[row].status = "claimed"
    OBVIOUS
  <2>3. ss[Undo(row.run, i)].status \notin Unfinished
    BY <2>2 DEF Core, UndoOneAtATime
  <2> QED BY <2>1, <2>3 DEF Unfinished
<1>6. Guarded(rs, ss2)
  BY DEF Core, Guarded
<1> QED BY <1>1, <1>2, <1>3, <1>4, <1>5, <1>6 DEF Core

(* Claiming a row whose turn it is keeps the core.                         *)
LEMMA ClaimPreserves ==
  ASSUME NEW rs \in [Runs -> RunRecord], NEW ss \in [Rows -> StepRecord],
         Core(rs, ss), NEW h \in Holders, NEW row \in Claimable(rs, ss)
  PROVE  Core([rs EXCEPT ![row.run].status = IF @ = "queued" THEN "running" ELSE @],
              [ss EXCEPT ![row] = ClaimedStep(@, h)])
<1> DEFINE rs2 == [rs EXCEPT ![row.run].status = IF @ = "queued" THEN "running" ELSE @]
           ss2 == [ss EXCEPT ![row] = ClaimedStep(@, h)]
<1>1. row \in Rows /\ Available(ss[row])
  BY DEF Claimable
<1>2. ForwardTurn(row, rs, ss) \/ UndoTurn(row, rs, ss)
  BY DEF Claimable
<1>3. row.run \in Runs /\ row.phase \in Phases /\ row.pos \in Positions
  BY <1>1, RowShape
<1>4. ss[row] \in StepRecord /\ rs[row.run] \in RunRecord
  BY <1>1, <1>3
<1>5. /\ ss2[row].status = "claimed" /\ ss2[row].live
      /\ ss2[row].attempt = ss[row].attempt + 1
  BY <1>1, <1>4 DEF ClaimedStep, StepRecord
<1>6. \A other \in Rows \ {row} : ss2[other] = ss[other]
  BY <1>1
<1>7. \A r \in Runs : IF r = row.run /\ rs[r].status = "queued"
                      THEN rs2[r].status = "running"
                      ELSE rs2[r].status = rs[r].status
  BY <1>3, <1>4 DEF RunRecord
<1>8. ss[row].attempt \in Nat
  BY <1>4 DEF StepRecord
<1>9. ss[row].status \in Unfinished
  BY <1>1 DEF Available, Unfinished
<1> HIDE DEF rs2, ss2
<1>10. NoRowsBefore(rs2, ss2)
  BY <1>2, <1>6, <1>7, RowShape DEF Core, NoRowsBefore, ForwardTurn, UndoTurn
<1>11. Sequential(ss2)
  <2> SUFFICES ASSUME NEW other \in Rows, other.phase = "forward", ss2[other].attempt > 0,
                      NEW i \in 1..other.pos - 1
               PROVE  ss2[Forward(other.run, i)].status = "succeeded"
    BY DEF Sequential
  <2>1. Forward(other.run, i) \in Rows
    BY RowShape, RowsOfRun, StepsAssumption DEF Positions
  <2>2. ss[Forward(other.run, i)].status = "succeeded"
    <3>1. CASE other = row
      BY <1>2, <3>1 DEF ForwardTurn, UndoTurn
    <3>2. CASE other # row
      BY <1>6, <3>2 DEF Core, Sequential
    <3> QED BY <3>1, <3>2
  <2> QED BY <1>6, <1>9, <2>1, <2>2 DEF Unfinished
<1>12. ClaimCounted(ss2)
  BY <1>5, <1>6, <1>8 DEF Core, ClaimCounted
<1>13. UndoAfterTurn(rs2, ss2)
  <2> SUFFICES ASSUME NEW other \in Rows, other.phase = "undo", ss2[other].status # "absent"
               PROVE  rs2[other.run].status \notin {"none", "queued", "running"}
    BY DEF UndoAfterTurn
  <2>1. ss[other].status # "absent"
    BY <1>6, <1>9 DEF Unfinished
  <2> QED BY <1>7, <2>1, RowShape DEF Core, UndoAfterTurn
<1>14. UndoOneAtATime(rs2, ss2)
  <2> SUFFICES ASSUME NEW other \in Rows, other.phase = "undo", ss2[other].status = "claimed"
               PROVE  /\ rs2[other.run].status = "compensating"
                      /\ \A i \in other.pos + 1..MaxSteps :
                           ss2[Undo(other.run, i)].status \notin Unfinished
    BY DEF UndoOneAtATime
  <2>1. /\ rs[other.run].status = "compensating"
        /\ \A i \in other.pos + 1..MaxSteps :
             ss[Undo(other.run, i)].status \notin Unfinished
    <3>1. CASE other = row
      BY <1>2, <3>1 DEF ForwardTurn, UndoTurn
    <3>2. CASE other # row
      BY <1>6, <3>2 DEF Core, UndoOneAtATime
    <3> QED BY <3>1, <3>2
  <2>2. rs2[other.run].status = "compensating"
    BY <1>7, <2>1, RowShape
  <2>3. ASSUME NEW i \in other.pos + 1..MaxSteps
        PROVE  ss2[Undo(other.run, i)].status \notin Unfinished
    <3>1. Undo(other.run, i) \in Rows
      BY RowShape, RowsOfRun, StepsAssumption DEF Positions
    <3>2. Undo(other.run, i) # row
      BY <1>9, <2>1
    <3> QED BY <1>6, <2>1, <3>1, <3>2
  <2> QED BY <2>2, <2>3
<1>15. Guarded(rs2, ss2)
  <2> SUFFICES ASSUME NEW other \in Rows, ss2[other].status = "claimed", ss2[other].live
               PROVE  rs2[other.run].status = IF other.phase = "forward"
                                              THEN "running" ELSE "compensating"
    BY DEF Guarded
  <2>1. CASE other = row
    BY <1>2, <1>3, <1>7, <2>1 DEF ForwardTurn, UndoTurn
  <2>2. CASE other # row
    BY <1>6, <1>7, <2>2, RowShape DEF Core, Guarded
  <2> QED BY <2>1, <2>2
<1>16. Core(rs2, ss2)
  BY <1>10, <1>11, <1>12, <1>13, <1>14, <1>15 DEF Core
<1> QED BY <1>16 DEF rs2, ss2

-----------------------------------------------------------------------------
(* The steps that end or turn a run.                                       *)

(* A claimed forward row of a run still going is the only claimed row of   *)
(* the run; so is a claimed undo row among the undo rows.                  *)
LEMMA LoneForward ==
  ASSUME NEW rs \in [Runs -> RunRecord], NEW ss \in [Rows -> StepRecord],
         Core(rs, ss), NEW row \in Rows, row.phase = "forward",
         ss[row].status = "claimed", rs[row.run].status \in {"queued", "running"},
         NEW other \in Rows \ {row}, other.run = row.run
  PROVE  ss[other].status # "claimed"
<1> SUFFICES ASSUME ss[other].status = "claimed" PROVE FALSE
  OBVIOUS
<1>1. other.phase = "forward"
  BY RowShape DEF Core, UndoAfterTurn, Phases
<1>2. /\ row = Forward(row.run, row.pos) /\ other = Forward(row.run, other.pos)
      /\ row.pos \in Positions /\ other.pos \in Positions
  BY <1>1, RowShape
<1>3. ss[row].attempt > 0 /\ ss[other].attempt > 0
  BY DEF Core, ClaimCounted
<1>4. CASE row.pos < other.pos
  <2>1. row.pos \in 1..other.pos - 1
    BY <1>2, <1>4, StepsAssumption DEF Positions
  <2>2. ss[Forward(other.run, row.pos)].status = "succeeded"
    BY <1>1, <1>3, <2>1 DEF Core, Sequential
  <2> QED BY <1>2, <2>2
<1>5. CASE other.pos < row.pos
  <2>1. other.pos \in 1..row.pos - 1
    BY <1>2, <1>5, StepsAssumption DEF Positions
  <2>2. ss[Forward(row.run, other.pos)].status = "succeeded"
    BY <1>3, <2>1 DEF Core, Sequential
  <2> QED BY <1>2, <2>2
<1> QED BY <1>2, <1>4, <1>5, StepsAssumption DEF Positions

LEMMA LoneUndo ==
  ASSUME NEW rs \in [Runs -> RunRecord], NEW ss \in [Rows -> StepRecord],
         Core(rs, ss), NEW row \in Rows, row.phase = "undo",
         ss[row].status = "claimed",
         NEW other \in Rows \ {row}, other.run = row.run,
         ss[other].status = "claimed"
  PROVE  other.phase = "forward" /\ ~ss[other].live
<1>1. rs[row.run].status = "compensating"
  BY DEF Core, UndoOneAtATime
<1>2. CASE other.phase = "forward"
  BY <1>1, <1>2 DEF Core, Guarded
<1>3. CASE other.phase = "undo"
  <2>1. /\ row = Undo(row.run, row.pos) /\ other = Undo(row.run, other.pos)
        /\ row.pos \in Positions /\ other.pos \in Positions
    BY <1>3, RowShape
  <2>2. CASE row.pos < other.pos
    <3>1. other.pos \in row.pos + 1..MaxSteps
      BY <2>1, <2>2, StepsAssumption DEF Positions
    <3> QED BY <2>1, <3>1 DEF Core, UndoOneAtATime, Unfinished
  <2>3. CASE other.pos < row.pos
    <3>1. row.pos \in other.pos + 1..MaxSteps
      BY <2>1, <2>3, StepsAssumption DEF Positions
    <3> QED BY <1>3, <2>1, <3>1 DEF Core, UndoOneAtATime, Unfinished
  <2> QED BY <2>1, <2>2, <2>3, StepsAssumption DEF Positions
<1> QED BY <1>2, <1>3, RowShape DEF Phases

(* The run of held turns or ends, and may take undo rows with it.          *)
Ending(rs, ss, rs2, ss2, held) ==
  /\ \/ held.phase = "forward" /\ rs[held.run].status \in {"queued", "running"}
     \/ held.phase = "undo"
  /\ rs2[held.run].status \notin {"none", "queued", "running"}
  /\ \A r \in Runs \ {held.run} : rs2[r] = rs[r]
  /\ \A row \in Rows : \/ ss2[row] = ss[row]
                       \/ /\ row.phase = "undo" /\ row.run = held.run
                          /\ ss2[row] = NewStep

(* A finished forward row of a run still going, or a finished undo row,    *)
(* leaves the run with nothing in flight: the run may turn or end.         *)
LEMMA FinishTurns ==
  ASSUME NEW rs \in [Runs -> RunRecord], NEW rs2 \in [Runs -> RunRecord],
         NEW ss \in [Rows -> StepRecord], NEW ss2 \in [Rows -> StepRecord],
         NEW ss3, NEW held \in Rows, Core(rs, ss), LetGo(ss, ss2, held),
         Ending(rs, ss2, rs2, ss3, held)
  PROVE  Core(rs2, ss3)
<1> USE DEF Ending
<1>1. Core(rs, ss2)
  BY ReleasePreserves
<1>2. held.run \in Runs
  BY RowShape
<1>3. rs[held.run].status # "none"
  BY DEF Core, NoRowsBefore, LetGo
<1>4. ASSUME NEW row \in Rows, row.run = held.run, ss2[row].status = "claimed"
      PROVE  row.phase = "forward" /\ ~ss2[row].live
  <2>1. row # held /\ ss2[row] = ss[row]
    BY <1>4 DEF LetGo
  <2> QED BY <1>4, <2>1, LoneForward, LoneUndo DEF LetGo
<1>5. Turned(rs, ss2, rs2, ss3, {held.run})
  BY <1>2, <1>3, <1>4 DEF Turned
<1> QED BY <1>1, <1>2, <1>5, TurnPreserves

-----------------------------------------------------------------------------
(* Each action keeps the core.                                             *)

LEMMA EnqueueCore ==
  ASSUME IInv, NEW r \in Runs, NEW d \in Definitions, NEW dry \in BOOLEAN,
         Enqueue(r, d, dry)
  PROVE  Core(run', step')
<1> USE DEF IInv, Base
<1>1. /\ run[r].status = "none" /\ run'[r].status = "queued"
      /\ \A q \in Runs \ {r} : run'[q] = run[q]
  BY DEF Enqueue, TypeOK, RunRecord
<1>2. \A row \in Rows : \/ step'[row] = step[row]
                        \/ /\ row.run = r /\ row.phase = "forward"
                           /\ step'[row] = NewStep
  BY DEF Enqueue
<1>3. \A row \in Rows : row.run = r => /\ step[row].status = "absent"
                                       /\ step[row].attempt = 0
  BY <1>1 DEF Core, NoRowsBefore
<1>4. NewStep.status = "queued" /\ NewStep.attempt = 0
  BY DEF NewStep, Absent
<1>5. \A row \in Rows : row.run # r => step'[row] = step[row]
  BY <1>2
<1>6. \A row \in Rows : row.run = r => /\ step'[row].attempt = 0
                                       /\ step'[row].status # "claimed"
                                       /\ row.phase = "undo" => step'[row].status = "absent"
  BY <1>2, <1>3, <1>4
<1>7. NoRowsBefore(run', step')
  BY <1>1, <1>5, RowShape DEF Core, NoRowsBefore
<1>8. Sequential(step')
  <2> SUFFICES ASSUME NEW row \in Rows, row.phase = "forward", step'[row].attempt > 0,
                      NEW i \in 1..row.pos - 1
               PROVE  step'[Forward(row.run, i)].status = "succeeded"
    BY DEF Sequential
  <2>1. Forward(row.run, i) \in Rows /\ Forward(row.run, i).run = row.run
    BY RowShape, RowsOfRun, StepsAssumption DEF Positions, Forward
  <2>2. row.run # r
    BY <1>6
  <2> QED BY <1>5, <2>1, <2>2 DEF Core, Sequential
<1>9. ClaimCounted(step')
  BY <1>5, <1>6 DEF Core, ClaimCounted
<1>10. UndoAfterTurn(run', step')
  BY <1>1, <1>5, <1>6, RowShape DEF Core, UndoAfterTurn
<1>11. UndoOneAtATime(run', step')
  <2> SUFFICES ASSUME NEW row \in Rows, row.phase = "undo", step'[row].status = "claimed"
               PROVE  /\ run'[row.run].status = "compensating"
                      /\ \A i \in row.pos + 1..MaxSteps :
                           step'[Undo(row.run, i)].status \notin Unfinished
    BY DEF UndoOneAtATime
  <2>1. row.run # r
    BY <1>6
  <2>2. \A i \in row.pos + 1..MaxSteps :
          Undo(row.run, i) \in Rows /\ Undo(row.run, i).run = row.run
    BY RowShape, RowsOfRun, StepsAssumption DEF Positions, Undo
  <2> QED BY <1>1, <1>5, <2>1, <2>2, RowShape DEF Core, UndoOneAtATime
<1>12. Guarded(run', step')
  BY <1>1, <1>5, <1>6, RowShape DEF Core, Guarded
<1> QED BY <1>7, <1>8, <1>9, <1>10, <1>11, <1>12 DEF Core

LEMMA CancelCore ==
  ASSUME IInv, NEW r \in Runs, Cancel(r)
  PROVE  Core(run', step')
<1> USE DEF IInv, Base
<1>1. /\ run \in [Runs -> RunRecord] /\ run' \in [Runs -> RunRecord]
      /\ step \in [Rows -> StepRecord] /\ step' = step
  <2>1. run \in [Runs -> RunRecord] /\ step \in [Rows -> StepRecord]
    BY DEF TypeOK
  <2>2. [run[r] EXCEPT !.status = "cancelled", !.cancel = TRUE] \in RunRecord
    BY <2>1 DEF RunRecord, RunStatus, Ended
  <2>3. [run[r] EXCEPT !.cancel = TRUE] \in RunRecord
    BY <2>1 DEF RunRecord
  <2>4. \/ run' = [run EXCEPT ![r] = [run[r] EXCEPT !.status = "cancelled", !.cancel = TRUE]]
        \/ run' = [run EXCEPT ![r] = [run[r] EXCEPT !.cancel = TRUE]]
    BY <2>1 DEF Cancel
  <2> QED BY <2>1, <2>2, <2>3, <2>4 DEF Cancel
<1>2. CASE run[r].status = "queued"
  <2>1. /\ run'[r].status = "cancelled"
        /\ \A q \in Runs \ {r} : run'[q] = run[q]
    BY <1>2, <1>1 DEF Cancel, RunRecord
  <2>2. \A row \in Rows : row.run = r /\ step[row].status = "claimed" =>
                           row.phase = "forward" /\ ~step[row].live
    BY <1>2, RowShape DEF Core, UndoAfterTurn, Guarded, Phases
  <2>3. Turned(run, step, run', step', {r})
    BY <1>1, <1>2, <2>1, <2>2 DEF Turned
  <2> QED BY <1>1, <2>3, TurnPreserves
<1>3. CASE run[r].status # "queued"
  <2>1. SameStatus(run, run') /\ SameRows(step, step')
    BY <1>1, <1>3 DEF Cancel, SameStatus, SameRows, RunRecord
  <2> QED BY <2>1, QuietPreserves
<1> QED BY <1>2, <1>3

LEMMA QuietCore ==
  ASSUME IInv,
         \/ \E row \in Rows : Approve(row) \/ Reject(row)
         \/ \E matched \in SUBSET {row \in Rows : Servable(row)} : Emit(matched)
         \/ SetAgent
         \/ Clock
         \/ \E h \in Holders : \/ Start(h) \/ Crash(h) \/ WithdrawEnded(h)
                              \/ ReadGate(h) \/ CloseGate(h) \/ Mint(h)
                              \/ CallPlane(h) \/ LeaseLost(h)
  PROVE  Core(run', step')
<1> USE DEF IInv, Base, SameStatus, SameRows
<1>0. run \in [Runs -> RunRecord] /\ step \in [Rows -> StepRecord]
  BY DEF TypeOK
<1>1. ASSUME NEW row \in Rows, Approve(row) \/ Reject(row)
      PROVE  SameStatus(run, run') /\ SameRows(step, step')
  <2>1. CASE Approve(row)
    BY <1>0, <2>1 DEF Approve, StepRecord
  <2>2. CASE Reject(row)
    BY <1>0, <2>2 DEF Reject, RunRecord
  <2> QED BY <1>1, <2>1, <2>2
<1>2. ASSUME NEW matched, Emit(matched)
      PROVE  SameStatus(run, run') /\ SameRows(step, step')
  BY <1>0, <1>2 DEF Emit, StepRecord
<1>3. ASSUME SetAgent
      PROVE  SameStatus(run, run') /\ SameRows(step, step')
  BY <1>3 DEF SetAgent
<1>4. ASSUME Clock
      PROVE  SameStatus(run, run') /\ SameRows(step, step')
  <2>1. ASSUME NEW row \in Rows, LeaseLapses(row) \/ ResumeDue(row)
        PROVE  SameStatus(run, run') /\ SameRows(step, step')
    BY <1>0, <2>1 DEF LeaseLapses, ResumeDue, StepRecord
  <2>2. ASSUME NEW r \in Runs, RunOverdue(r)
        PROVE  SameStatus(run, run') /\ SameRows(step, step')
    BY <1>0, <2>2 DEF RunOverdue, RunRecord
  <2> QED BY <1>4, <2>1, <2>2 DEF Clock
<1>5. ASSUME NEW h \in Holders,
             \/ Start(h) \/ Crash(h) \/ WithdrawEnded(h) \/ ReadGate(h)
             \/ CloseGate(h) \/ Mint(h) \/ CallPlane(h) \/ LeaseLost(h)
      PROVE  SameStatus(run, run') /\ SameRows(step, step')
  BY <1>5 DEF Start, Crash, WithdrawEnded, ReadGate, CloseGate, Mint, CallPlane,
              LeaseLost
<1>6. SameStatus(run, run') /\ SameRows(step, step')
  BY <1>1, <1>2, <1>3, <1>4, <1>5
<1> QED BY <1>6, QuietPreserves

LEMMA ClaimCore ==
  ASSUME IInv, NEW h \in Holders, ClaimStep(h) \/ ClaimNothing(h)
  PROVE  Core(run', step')
<1> USE DEF IInv, Base
<1>1. Core(SweptRuns, SweptSteps) /\ Typed(SweptRuns, SweptSteps)
  BY SweepPreserves, SweptTyped
<1>2. CASE ClaimNothing(h)
  BY <1>1, <1>2 DEF ClaimNothing
<1>3. CASE ClaimStep(h)
  <2>1. PICK row \in Claimable(SweptRuns, SweptSteps) :
          /\ step' = [SweptSteps EXCEPT ![row] = ClaimedStep(@, h)]
          /\ run' = [SweptRuns EXCEPT
                       ![row.run].status = IF @ = "queued" THEN "running" ELSE @]
    BY <1>3 DEF ClaimStep
  <2> QED BY <1>1, <2>1, ClaimPreserves DEF Typed
<1> QED BY <1>2, <1>3

(* A worker that queues or parks its row lets it go.                       *)
LEMMA ReleaseTyped ==
  ASSUME Base, NEW h \in Holders,
         FinishAbandoned(h) \/ Park(h) \/ AwaitEvent(h) \/ RequestApproval(h)
  PROVE  /\ work[h].row \in Rows /\ run' = run
         /\ step' \in [Rows -> StepRecord] /\ LetGo(step, step', work[h].row)
<1> USE DEF Base
<1> DEFINE held == work[h].row
<1>1. step \in [Rows -> StepRecord]
  BY DEF TypeOK
<1>2. held \in Rows /\ step[held].status = "claimed" /\ run' = run
  BY DEF FinishAbandoned, Park, AwaitEvent, RequestApproval, Recording, WorkOK,
         Busy, Holds
<1>3. \A status \in StepStatus : /\ Released(step[held], status) \in StepRecord
                                 /\ Released(step[held], status).status = status
                                 /\ Released(step[held], status).attempt = step[held].attempt
  BY <1>1, <1>2, ReleasedTyped DEF Released, StepRecord
<1>4. /\ step' \in [Rows -> StepRecord]
      /\ step'[held].status \in {"queued", "parked"}
      /\ step'[held].attempt = step[held].attempt
      /\ \A row \in Rows \ {held} : step'[row] = step[row]
  <2>1. CASE FinishAbandoned(h)
    BY <1>1, <1>2, <1>3, <2>1 DEF FinishAbandoned, StepStatus
  <2>2. CASE Park(h)
    BY <1>1, <1>2, <1>3, <2>2 DEF Park, StepStatus, StepRecord
  <2>3. CASE AwaitEvent(h)
    BY <1>1, <1>2, <1>3, <2>3 DEF AwaitEvent, StepStatus, StepRecord
  <2>4. CASE RequestApproval(h)
    BY <1>1, <1>2, <1>3, <2>4 DEF RequestApproval, StepStatus
  <2> QED BY <2>1, <2>2, <2>3, <2>4
<1> QED BY <1>2, <1>4 DEF LetGo

LEMMA ReleaseCore ==
  ASSUME IInv, NEW h \in Holders,
         FinishAbandoned(h) \/ Park(h) \/ AwaitEvent(h) \/ RequestApproval(h)
  PROVE  Core(run', step')
<1>1. Core(run, step) /\ Base /\ run \in [Runs -> RunRecord] /\ step \in [Rows -> StepRecord]
  BY DEF IInv, Base, TypeOK
<1> QED BY <1>1, ReleaseTyped, ReleasePreserves

(* A finished undo leaves its run as it was, or ends it.                   *)
LEMMA AfterUndoEnds ==
  ASSUME run \in [Runs -> RunRecord], CauseKnown, NEW r \in Runs,
         NEW verdict, NEW steps
  PROVE  /\ AfterUndo(r, verdict, steps) \in RunRecord
         /\ \/ AfterUndo(r, verdict, steps) = run[r]
            \/ AfterUndo(r, verdict, steps).status \in Ended
BY DEF AfterUndo, CauseKnown, RunRecord, RunStatus, Ended

(* A finish keeps the types, and lets its row go before the run turns.     *)
LEMMA FinishTyped ==
  ASSUME Base, NEW h \in Holders, FinishUndo(h) \/ FinishForward(h)
  PROVE  run' \in [Runs -> RunRecord] /\ step' \in [Rows -> StepRecord]
<1> USE DEF Base
<1> DEFINE held == work[h].row
           verdict == work[h].verdict
           steps == [step EXCEPT ![held] = Released(@, FinishedStatus(verdict))]
<1>1. run \in [Runs -> RunRecord] /\ step \in [Rows -> StepRecord]
  BY DEF TypeOK
<1>2. held \in Rows /\ held.run \in Runs
  BY RowShape DEF FinishUndo, FinishForward, Recording, WorkOK, Busy
<1>3. steps \in [Rows -> StepRecord]
  <2>1. Released(step[held], FinishedStatus(verdict)) \in StepRecord
    BY <1>1, <1>2, ReleasedTyped DEF FinishedStatus, StepStatus
  <2> QED BY <1>1, <1>2, <2>1
<1>4. BegunSteps({held.run}, steps) \in [Rows -> StepRecord]
  BY <1>3, BegunStepsTyped
<1>5. /\ BegunRun(held.run, "failed", steps) \in RunRecord
      /\ [run[held.run] EXCEPT !.status = "stopped"] \in RunRecord
      /\ [run[held.run] EXCEPT !.status = "succeeded"] \in RunRecord
      /\ AfterUndo(held.run, verdict, steps) \in RunRecord
  <2>1. BegunRun(held.run, "failed", steps) \in RunRecord
    BY <1>1, <1>2, BegunTyped
  <2>2. /\ [run[held.run] EXCEPT !.status = "stopped"] \in RunRecord
        /\ [run[held.run] EXCEPT !.status = "succeeded"] \in RunRecord
    BY <1>1, <1>2 DEF RunRecord, RunStatus, Ended
  <2> HIDE DEF steps
  <2> QED BY <1>1, <1>2, <2>1, <2>2, AfterUndoEnds
<1>6. \/ step' = steps
      \/ step' = BegunSteps({held.run}, steps)
  BY DEF FinishUndo, FinishForward
<1>7. \E new \in RunRecord : run' = [run EXCEPT ![held.run] = new]
  <2>1. CASE FinishUndo(h)
    BY <1>5, <2>1 DEF FinishUndo
  <2>2. CASE FinishForward(h)
    BY <1>1, <1>2, <1>5, <2>2 DEF FinishForward
  <2> QED BY <2>1, <2>2
<1> QED BY <1>1, <1>2, <1>3, <1>4, <1>6, <1>7

LEMMA FinishCore ==
  ASSUME IInv, NEW h \in Holders, FinishUndo(h) \/ FinishForward(h)
  PROVE  Core(run', step')
<1> USE DEF IInv, Base
<1> DEFINE held == work[h].row
           verdict == work[h].verdict
           steps == [step EXCEPT ![held] = Released(@, FinishedStatus(verdict))]
<1>1. run \in [Runs -> RunRecord] /\ step \in [Rows -> StepRecord]
  BY DEF TypeOK
<1>2. held \in Rows /\ held.run \in Runs /\ step[held].status = "claimed"
  BY RowShape DEF FinishUndo, FinishForward, Recording, WorkOK, Busy, Holds
<1>3. FinishedStatus(verdict) \in {"succeeded", "failed"}
  BY DEF FinishedStatus
<1>4. steps \in [Rows -> StepRecord] /\ LetGo(step, steps, held)
  <2>1. Released(step[held], FinishedStatus(verdict)) \in StepRecord
    BY <1>1, <1>2, <1>3, ReleasedTyped DEF StepStatus
  <2>2. /\ Released(step[held], FinishedStatus(verdict)).status = FinishedStatus(verdict)
        /\ Released(step[held], FinishedStatus(verdict)).attempt = step[held].attempt
    BY <1>1, <1>2 DEF Released, StepRecord
  <2> QED BY <1>1, <1>2, <1>3, <2>1, <2>2 DEF LetGo
<1> HIDE DEF steps, held, verdict
<1>5. Core(run, steps)
  BY <1>1, <1>2, <1>4, ReleasePreserves
<1>6. CASE FinishUndo(h)
  <2>1. /\ held.phase = "undo" /\ step' = steps
        /\ run' = [run EXCEPT ![held.run] = AfterUndo(held.run, verdict, steps)]
    BY <1>6 DEF FinishUndo, steps, held, verdict
  <2>2. run' \in [Runs -> RunRecord] /\ step' \in [Rows -> StepRecord]
    BY <1>6, FinishTyped
  <2>3. CASE run'[held.run] = run[held.run]
    BY <1>1, <1>2, <1>5, <2>1, <2>2, <2>3, QuietPreserves DEF SameStatus, SameRows
  <2>4. CASE run'[held.run].status \in Ended
    <3>1. run'[held.run].status \notin {"none", "queued", "running"}
      BY <2>4 DEF Ended
    <3>2. Ending(run, steps, run', step', held)
      BY <1>1, <1>2, <2>1, <3>1 DEF Ending
    <3> QED BY <1>1, <1>2, <1>4, <2>2, <3>2, FinishTurns
  <2> QED BY <1>1, <1>2, <2>1, <2>2, <2>3, <2>4, AfterUndoEnds
<1>7. CASE FinishForward(h)
  <2> DEFINE failing == Going(held.run) /\ verdict \in {"failed", "refused"}
  <2>1. /\ held.phase = "forward"
        /\ step' = IF failing THEN BegunSteps({held.run}, steps) ELSE steps
        /\ \A r \in Runs \ {held.run} : run'[r] = run[r]
        /\ DOMAIN run' = Runs
        /\ run' = [run EXCEPT ![held.run] = run'[held.run]]
    BY <1>1, <1>7 DEF FinishForward, steps, held, verdict
  <2>2. \/ /\ Going(held.run)
           /\ \/ /\ failing /\ run'[held.run] = BegunRun(held.run, "failed", steps)
              \/ /\ ~failing
                 /\ \/ run'[held.run] = [run[held.run] EXCEPT !.status = "stopped"]
                    \/ run'[held.run] = [run[held.run] EXCEPT !.status = "succeeded"]
        \/ ~failing /\ run'[held.run] = run[held.run]
    BY <1>1, <1>2, <1>7 DEF FinishForward, steps, held, verdict
  <2>4. run' \in [Runs -> RunRecord] /\ step' \in [Rows -> StepRecord]
    BY <1>7, FinishTyped
  <2>5. CASE run'[held.run] = run[held.run] /\ ~failing
    BY <1>1, <1>2, <1>5, <2>1, <2>4, <2>5, QuietPreserves DEF SameStatus, SameRows
  <2>6. CASE Going(held.run)
    <3>1. \/ ~failing /\ run'[held.run] = run[held.run]
          \/ run'[held.run].status \notin {"none", "queued", "running"}
      BY <1>1, <1>2, <2>2 DEF BegunRun, RunRecord
    <3>2. \A row \in Rows : \/ step'[row] = steps[row]
                            \/ /\ row.phase = "undo" /\ row.run = held.run
                               /\ step'[row] = NewStep
      BY <2>1 DEF BegunSteps
    <3>3. CASE run'[held.run].status \notin {"none", "queued", "running"}
      <4>1. Ending(run, steps, run', step', held)
        BY <2>1, <2>6, <3>2, <3>3 DEF Ending, Going
      <4> HIDE DEF failing
      <4>2. Core(run', step')
        BY <1>1, <1>2, <1>4, <2>4, <4>1, FinishTurns
      <4> QED BY <2>4, <4>2
    <3> QED BY <2>5, <3>1, <3>3
  <2> QED BY <2>2, <2>4, <2>5, <2>6
<1> QED BY <1>6, <1>7

(* A finish that turns its run records the cause.                          *)
LEMMA FinishCause ==
  ASSUME Base, NEW h \in Holders, FinishUndo(h) \/ FinishForward(h)
  PROVE  CauseKnown'
<1> USE DEF Base
<1> DEFINE r == work[h].row.run
<1>1. run \in [Runs -> RunRecord]
  BY DEF TypeOK
<1>2. r \in Runs
  BY RowShape DEF FinishUndo, FinishForward, Recording, WorkOK, Busy
<1>3. \A q \in Runs \ {r} : run'[q] = run[q]
  BY <1>1 DEF FinishUndo, FinishForward
<1>4. \/ run'[r] = run[r]
      \/ run'[r].status \in Ended
      \/ \E steps : run'[r] = BegunRun(r, "failed", steps)
  <2>1. CASE FinishUndo(h)
    BY <1>1, <1>2, <2>1, AfterUndoEnds DEF FinishUndo
  <2>2. CASE FinishForward(h)
    <3>1. \/ run'[r] = run[r]
          \/ run'[r] = [run[r] EXCEPT !.status = "stopped"]
          \/ run'[r] = [run[r] EXCEPT !.status = "succeeded"]
          \/ \E steps : run'[r] = BegunRun(r, "failed", steps)
      BY <1>1, <1>2, <2>2 DEF FinishForward
    <3>2. run[r] \in RunRecord
      BY <1>1, <1>2
    <3>3. /\ [run[r] EXCEPT !.status = "stopped"].status = "stopped"
          /\ [run[r] EXCEPT !.status = "succeeded"].status = "succeeded"
      BY <3>2 DEF RunRecord
    <3> QED BY <3>1, <3>3 DEF Ended
  <2> QED BY <2>1, <2>2
<1>5. run'[r].status = "compensating" => run'[r].cause # "none"
  <2>1. ASSUME NEW steps
        PROVE  BegunRun(r, "failed", steps).status = "compensating" =>
                 BegunRun(r, "failed", steps).cause # "none"
    BY <1>1, <1>2 DEF BegunRun, RunRecord
  <2> QED BY <1>2, <1>4, <2>1 DEF CauseKnown, Ended
<1> QED BY <1>3, <1>5 DEF CauseKnown

-----------------------------------------------------------------------------
(* Each action keeps the types, the worker's row and the run's cause.      *)

Typing == TypeOK /\ WorkOK /\ CauseKnown

(* A worker put to a state that names no row, or a row it may name.        *)
LEMMA PutOK ==
  ASSUME NEW h \in Holders, TypeOK, WorkOK, NEW w \in WorkRecord,
         w.pc \in Busy => w.row \in Rows,
         work' = [work EXCEPT ![h] = w]
  PROVE  work' \in [Holders -> WorkRecord] /\ WorkOK'
BY DEF TypeOK, WorkOK

LEMMA GoIdleOK ==
  ASSUME NEW h \in Holders, TypeOK, WorkOK, GoIdle(h)
  PROVE  work' \in [Holders -> WorkRecord] /\ WorkOK'
<1>1. Idle \in WorkRecord /\ Idle.pc \notin Busy
  BY IdleTyped DEF Idle, Busy
<1> QED BY <1>1, PutOK DEF GoIdle

(* Moving a worker that has a row, with whatever token and verdict.        *)
LEMMA MoveOK ==
  ASSUME NEW h \in Holders, TypeOK, WorkOK, work[h].pc \in Busy,
         NEW pc \in Busy, NEW token \in BOOLEAN,
         NEW verdict \in Outcomes \cup Deferrals \cup {"none"},
         work' = [work EXCEPT ![h] = [work[h] EXCEPT !.pc = pc, !.token = token,
                                                     !.verdict = verdict]]
  PROVE  work' \in [Holders -> WorkRecord] /\ WorkOK'
<1>1. work[h] \in WorkRecord /\ work[h].row \in Rows
  BY DEF TypeOK, WorkOK
<1>2. [work[h] EXCEPT !.pc = pc, !.token = token, !.verdict = verdict] \in WorkRecord
  BY <1>1 DEF WorkRecord, Busy
<1>3. [work[h] EXCEPT !.pc = pc, !.token = token, !.verdict = verdict].row = work[h].row
  BY <1>1 DEF WorkRecord
<1> QED BY <1>1, <1>2, <1>3, PutOK

LEMMA RecordOK ==
  ASSUME NEW h \in Holders, TypeOK, WorkOK, work[h].pc \in Busy,
         NEW verdict \in Outcomes \cup Deferrals, Record(h, verdict)
  PROVE  work' \in [Holders -> WorkRecord] /\ WorkOK'
<1>1. work[h] \in WorkRecord
  BY DEF TypeOK
<1>2. work' = [work EXCEPT ![h] = [work[h] EXCEPT !.pc = "record",
                                   !.token = work[h].token, !.verdict = verdict]]
  BY <1>1 DEF Record, WorkRecord
<1>3. work[h].token \in BOOLEAN /\ "record" \in Busy
  BY <1>1 DEF WorkRecord, Busy
<1> QED BY <1>2, <1>3, MoveOK

(* The requests of the agent, the approver and the project.                *)
LEMMA RequestTyped ==
  ASSUME Base, Request
  PROVE  Typing'
<1> USE DEF Base
<1>1. /\ run \in [Runs -> RunRecord] /\ step \in [Rows -> StepRecord]
      /\ approval \in [Rows -> ApprovalRecord]
  BY DEF TypeOK
<1>2. ASSUME NEW r \in Runs, NEW d \in Definitions, NEW dry \in BOOLEAN,
             Enqueue(r, d, dry)
      PROVE  Typing'
  <2> DEFINE n == Cardinality({q \in Runs : run[q].status # "none"})
  <2>1. n \in Nat
    BY RunsAssumption, FS_Subset, FS_CardinalityType
  <2> HIDE DEF n
  <2>2. [run[r] EXCEPT !.status = "queued", !.body = d, !.dry = dry,
                       !.created = n] \in RunRecord
    BY <1>1, <2>1 DEF RunRecord, RunStatus
  <2>3. run' = [run EXCEPT ![r] = [run[r] EXCEPT !.status = "queued", !.body = d,
                                                 !.dry = dry, !.created = n]]
    BY <1>1, <1>2 DEF Enqueue, n
  <2>4. run' \in [Runs -> RunRecord] /\ CauseKnown'
    BY <1>1, <2>2, <2>3 DEF Typing, CauseKnown, RunRecord
  <2>5. step' \in [Rows -> StepRecord]
    BY <1>1, <1>2, NewStepTyped DEF Enqueue
  <2> QED BY <1>2, <2>4, <2>5 DEF Enqueue, Typing, TypeOK, WorkOK
<1>3. ASSUME NEW r \in Runs, Cancel(r)
      PROVE  Typing'
  <2>1. run' \in [Runs -> RunRecord] /\ CauseKnown'
    <3>1. /\ [run[r] EXCEPT !.status = "cancelled", !.cancel = TRUE] \in RunRecord
          /\ [run[r] EXCEPT !.cancel = TRUE] \in RunRecord
      BY <1>1 DEF RunRecord, RunStatus, Ended
    <3>2. \/ run' = [run EXCEPT ![r] = [run[r] EXCEPT !.status = "cancelled", !.cancel = TRUE]]
          \/ run' = [run EXCEPT ![r] = [run[r] EXCEPT !.cancel = TRUE]]
      BY <1>1, <1>3 DEF Cancel
    <3>3. run' \in [Runs -> RunRecord]
      BY <1>1, <3>1, <3>2
    <3>4. \A q \in Runs : run'[q].status = "compensating" =>
            run[q].status = "compensating" /\ run'[q].cause = run[q].cause
      <4>1. CASE run' = [run EXCEPT ![r] = [run[r] EXCEPT !.status = "cancelled", !.cancel = TRUE]]
        BY <1>1, <4>1 DEF RunRecord
      <4>2. CASE run' = [run EXCEPT ![r] = [run[r] EXCEPT !.cancel = TRUE]]
        BY <1>1, <4>2 DEF RunRecord
      <4> QED BY <3>2, <4>1, <4>2
    <3> QED BY <3>3, <3>4 DEF CauseKnown
  <2> QED BY <1>3, <2>1 DEF Cancel, Typing, TypeOK, WorkOK
<1>4. ASSUME NEW row \in Rows, Approve(row)
      PROVE  Typing'
  <2>1. approval' \in [Rows -> ApprovalRecord]
    BY <1>1, <1>4 DEF Approve, ApprovalRecord, ApprovalStatus, Decided
  <2>2. step' \in [Rows -> StepRecord]
    <3>1. [step[row] EXCEPT !.due = @ \/ step[row].status = "parked"] \in StepRecord
      BY <1>1 DEF StepRecord
    <3> QED BY <1>1, <1>4, <3>1 DEF Approve
  <2> QED BY <1>4, <2>1, <2>2 DEF Approve, Typing, TypeOK, WorkOK, CauseKnown
<1>5. ASSUME NEW row \in Rows, Reject(row)
      PROVE  Typing'
  <2>1. approval' \in [Rows -> ApprovalRecord]
    BY <1>1, <1>5 DEF Reject, ApprovalRecord, ApprovalStatus, Decided
  <2>2. run' \in [Runs -> RunRecord] /\ CauseKnown'
    BY <1>1, <1>5 DEF Reject, RunRecord, CauseKnown
  <2> QED BY <1>5, <2>1, <2>2 DEF Reject, Typing, TypeOK, WorkOK
<1>6. ASSUME NEW matched, Emit(matched)
      PROVE  Typing'
  <2>1. step' \in [Rows -> StepRecord]
    BY <1>1, <1>6 DEF Emit, StepRecord
  <2> QED BY <1>6, <2>1 DEF Emit, Typing, TypeOK, WorkOK, CauseKnown
<1>7. ASSUME SetAgent
      PROVE  Typing'
  BY <1>7 DEF SetAgent, Typing, TypeOK, WorkOK, CauseKnown
<1> QED BY <1>2, <1>3, <1>4, <1>5, <1>6, <1>7 DEF Request

(* The deadlines, the life of the loop, and the late statements.           *)
LEMMA ClockTyped ==
  ASSUME Base,
         \/ Clock
         \/ \E h \in Holders : Start(h) \/ Crash(h)
         \/ \E call \in upstream : Commit(call)
  PROVE  Typing'
<1> USE DEF Base
<1>1. /\ run \in [Runs -> RunRecord] /\ step \in [Rows -> StepRecord]
      /\ approval \in [Rows -> ApprovalRecord]
  BY DEF TypeOK
<1>2. ASSUME NEW row \in Rows, LeaseLapses(row) \/ ResumeDue(row)
      PROVE  Typing'
  <2>1. step' \in [Rows -> StepRecord]
    <3>1. /\ [step[row] EXCEPT !.live = FALSE] \in StepRecord
          /\ [step[row] EXCEPT !.due = TRUE] \in StepRecord
      BY <1>1 DEF StepRecord
    <3> QED BY <1>1, <1>2, <3>1 DEF LeaseLapses, ResumeDue
  <2>2. approval' \in [Rows -> ApprovalRecord]
    BY <1>1, <1>2 DEF LeaseLapses, ResumeDue, ApprovalRecord
  <2> QED BY <1>2, <2>1, <2>2 DEF LeaseLapses, ResumeDue, Typing, TypeOK, WorkOK,
                                  CauseKnown
<1>3. ASSUME NEW r \in Runs, RunOverdue(r)
      PROVE  Typing'
  <2>1. run' \in [Runs -> RunRecord] /\ CauseKnown'
    BY <1>1, <1>3 DEF RunOverdue, RunRecord, CauseKnown
  <2> QED BY <1>3, <2>1 DEF RunOverdue, Typing, TypeOK, WorkOK
<1>4. ASSUME NEW h \in Holders, Start(h)
      PROVE  Typing'
  <2>1. work' \in [Holders -> WorkRecord] /\ WorkOK'
    BY <1>4, GoIdleOK DEF Start, GoIdle
  <2> QED BY <1>4, <2>1 DEF Start, Typing, TypeOK, CauseKnown
<1>5. ASSUME NEW h \in Holders, Crash(h)
      PROVE  Typing'
  <2>1. [Idle EXCEPT !.pc = "dead"] \in WorkRecord
    BY DEF Idle, WorkRecord
  <2>2. [Idle EXCEPT !.pc = "dead"].pc \notin Busy
    BY DEF Idle, Busy
  <2>3. work' \in [Holders -> WorkRecord] /\ WorkOK'
    BY <1>5, <2>1, <2>2, PutOK DEF Crash
  <2>4. upstream' \subseteq Calls
    BY <1>5, CallTyped DEF Crash, TypeOK
  <2> QED BY <1>5, <2>3, <2>4 DEF Crash, Typing, TypeOK, CauseKnown
<1>6. ASSUME NEW call \in upstream, Commit(call)
      PROVE  Typing'
  <2>1. call \in Calls /\ upstream' \subseteq Calls
    BY <1>6 DEF Commit, TypeOK
  <2>2. log' \in Seq(Calls) /\ ledger' \subseteq {<<row>> : row \in Rows}
    BY <1>6, <2>1, CommitTyped, ServeMoves DEF Commit
  <2> QED BY <1>6, <2>1, <2>2 DEF Commit, Typing, TypeOK, WorkOK, CauseKnown
<1> QED BY <1>2, <1>3, <1>4, <1>5, <1>6 DEF Clock

(* What a claim hands a worker.                                            *)
LEMMA TakenOK ==
  ASSUME NEW row \in Rows, NEW n \in Nat
  PROVE  Taken(row, n) \in WorkRecord /\ Taken(row, n).row = row
<1> DEFINE at(pc, verdict) == [pc |-> pc, row |-> row, attempt |-> n,
                               token |-> FALSE, verdict |-> verdict]
<1>1. /\ at("record", "dry_run") \in WorkRecord /\ at("gate", "none") \in WorkRecord
      /\ at("mint", "none") \in WorkRecord
  BY DEF WorkRecord, Outcomes, Good
<1>2. Taken(row, n) \in {at("record", "dry_run"), at("gate", "none"), at("mint", "none")}
  BY DEF Taken
<1>3. /\ at("record", "dry_run").row = row /\ at("gate", "none").row = row
      /\ at("mint", "none").row = row
  OBVIOUS
<1> HIDE DEF at
<1> QED BY <1>1, <1>2, <1>3

LEMMA ClaimTyped ==
  ASSUME Base, NEW h \in Holders, ClaimStep(h) \/ ClaimNothing(h)
  PROVE  Typing'
<1> USE DEF Base
<1>1. Typed(SweptRuns, SweptSteps)
  BY SweptTyped
<1>2. \A r \in Runs : SweptRuns[r].status = "compensating" => SweptRuns[r].cause # "none"
  <2> SUFFICES ASSUME NEW r \in Runs, SweptRuns[r].status = "compensating"
               PROVE  SweptRuns[r].cause # "none"
    OBVIOUS
  <2>1. run[r] \in RunRecord
    BY DEF TypeOK
  <2>2. \/ SweptRuns[r] = run[r]
        \/ \E cause \in {"failed", "cancelled"} :
             SweptRuns[r] = BegunRun(r, cause, step)
    BY DEF SweptRuns
  <2>3. CASE SweptRuns[r] = run[r]
    BY <2>3 DEF CauseKnown
  <2>4. ASSUME NEW cause \in {"failed", "cancelled"},
               SweptRuns[r] = BegunRun(r, cause, step)
        PROVE  SweptRuns[r].cause # "none"
    BY <2>1, <2>4 DEF BegunRun, RunRecord
  <2> QED BY <2>2, <2>3, <2>4
<1>3. CASE ClaimNothing(h)
  <2>1. work[h] \in WorkRecord
    BY DEF TypeOK
  <2>2. [work[h] EXCEPT !.pc = "withdraw"] \in WorkRecord
    BY <2>1 DEF WorkRecord
  <2>3. [work[h] EXCEPT !.pc = "withdraw"].pc \notin Busy
    BY <2>1 DEF WorkRecord, Busy
  <2>4. work' \in [Holders -> WorkRecord] /\ WorkOK'
    <3>1. CASE work' = work
      BY <3>1 DEF TypeOK, WorkOK
    <3>2. CASE work' = [work EXCEPT ![h].pc = "withdraw"]
      BY <2>2, <2>3, <3>2, PutOK
    <3> QED BY <1>3, <3>1, <3>2 DEF ClaimNothing
  <2>5. CauseKnown'
    BY <1>2, <1>3 DEF ClaimNothing, CauseKnown
  <2> QED BY <1>1, <1>3, <2>4, <2>5 DEF ClaimNothing, Typed, Typing, TypeOK
<1>4. CASE ClaimStep(h)
  <2>1. PICK row \in Claimable(SweptRuns, SweptSteps) :
          /\ step' = [SweptSteps EXCEPT ![row] = ClaimedStep(@, h)]
          /\ run' = [SweptRuns EXCEPT
                       ![row.run].status = IF @ = "queued" THEN "running" ELSE @]
          /\ work' = [work EXCEPT ![h] = Taken(row, SweptSteps[row].attempt + 1)]
    BY <1>4 DEF ClaimStep
  <2>2. row \in Rows /\ row.run \in Runs
    BY RowShape DEF Claimable
  <2>3. SweptSteps[row] \in StepRecord /\ SweptRuns[row.run] \in RunRecord
    BY <1>1, <2>2 DEF Typed
  <2>4. ClaimedStep(SweptSteps[row], h) \in StepRecord
    <3>1. /\ SweptSteps[row].attempt + 1 \in Nat
          /\ "claimed" \in StepStatus /\ h \in Holders \cup {None}
      BY <2>3 DEF StepRecord, StepStatus
    <3> QED BY <2>3, <3>1 DEF ClaimedStep, StepRecord
  <2>5. step' \in [Rows -> StepRecord]
    BY <1>1, <2>1, <2>4 DEF Typed
  <2>6. run' \in [Runs -> RunRecord]
    BY <1>1, <2>1, <2>3 DEF Typed, RunRecord, RunStatus
  <2>7. CauseKnown'
    BY <1>1, <1>2, <2>1, <2>2 DEF Typed, CauseKnown, RunRecord
  <2>8. SweptSteps[row].attempt + 1 \in Nat
    BY <2>3 DEF StepRecord
  <2>9. work' \in [Holders -> WorkRecord] /\ WorkOK'
    BY <2>1, <2>2, <2>8, TakenOK, PutOK
  <2> QED BY <1>4, <2>5, <2>6, <2>7, <2>9 DEF ClaimStep, Typing, TypeOK
<1> QED BY <1>3, <1>4

(* The withdrawal, the gate, the token and the call.                       *)
LEMMA ProcessTyped ==
  ASSUME Base, NEW h \in Holders,
         \/ WithdrawEnded(h) \/ ReadGate(h) \/ CloseGate(h) \/ Mint(h)
         \/ CallPlane(h) \/ LeaseLost(h)
  PROVE  Typing'
<1> USE DEF Base
<1>0. /\ approval \in [Rows -> ApprovalRecord] /\ work[h] \in WorkRecord
      /\ work[h].token \in BOOLEAN /\ work[h].verdict \in Outcomes \cup Deferrals \cup {"none"}
  BY DEF TypeOK, WorkRecord
<1> USE DEF GoIdle
<1>1. CASE WithdrawEnded(h)
  <2>1. \A row \in Rows : [approval[row] EXCEPT !.status = "withdrawn"] \in ApprovalRecord
    BY <1>0 DEF ApprovalRecord, ApprovalStatus
  <2>2. approval' \in [Rows -> ApprovalRecord]
    BY <1>0, <1>1, <2>1 DEF WithdrawEnded
  <2>3. work' \in [Holders -> WorkRecord] /\ WorkOK'
    BY <1>1, GoIdleOK DEF WithdrawEnded
  <2> QED BY <1>1, <2>2, <2>3 DEF WithdrawEnded, Typing, TypeOK, CauseKnown
<1>2. CASE ReadGate(h)
  <2>1. work[h].pc \in Busy
    BY <1>2 DEF ReadGate, Busy
  <2>2. work' \in [Holders -> WorkRecord] /\ WorkOK'
    <3>1. CASE GoIdle(h)
      BY <3>1, GoIdleOK
    <3>2. ASSUME NEW verdict \in {"succeeded", "wait", "await", "failed"},
                 Record(h, verdict)
          PROVE  work' \in [Holders -> WorkRecord] /\ WorkOK'
      BY <2>1, <3>2, RecordOK DEF Outcomes, Good, Deferrals
    <3>3. ASSUME NEW pc \in {"mint", "close"}, NEW token \in BOOLEAN,
                 work' = [work EXCEPT ![h].pc = pc, ![h].token = token]
          PROVE  work' \in [Holders -> WorkRecord] /\ WorkOK'
      <4>1. work' = [work EXCEPT ![h] = [work[h] EXCEPT !.pc = pc, !.token = token,
                                                        !.verdict = work[h].verdict]]
        BY <1>0, <3>3 DEF TypeOK, WorkRecord
      <4>2. pc \in Busy
        BY DEF Busy
      <4> QED BY <1>0, <2>1, <4>1, <4>2, MoveOK
    <3>4. \/ GoIdle(h)
          \/ \E verdict \in {"succeeded", "wait", "await", "failed"} : Record(h, verdict)
          \/ \E pc \in {"mint", "close"}, token \in BOOLEAN :
               work' = [work EXCEPT ![h].pc = pc, ![h].token = token]
      BY <1>2 DEF ReadGate, WaitVerdict
    <3> QED BY <3>1, <3>2, <3>3, <3>4
  <2> QED BY <1>2, <2>2 DEF ReadGate, Typing, TypeOK, CauseKnown
<1>3. CASE CloseGate(h)
  <2>1. work[h].pc \in Busy
    BY <1>3 DEF CloseGate, Busy
  <2>2. work' \in [Holders -> WorkRecord] /\ WorkOK'
    BY <1>3, <2>1, RecordOK DEF CloseGate, Outcomes
  <2>3. approval' \in [Rows -> ApprovalRecord]
    <3>1. [approval[work[h].row] EXCEPT !.status = "expired"] \in ApprovalRecord
      BY <1>0, <2>1 DEF ApprovalRecord, ApprovalStatus, WorkOK
    <3> QED BY <1>0, <1>3, <3>1 DEF CloseGate
  <2> QED BY <1>3, <2>2, <2>3 DEF CloseGate, Typing, TypeOK, CauseKnown
<1>4. CASE Mint(h)
  <2>1. work[h].pc \in Busy
    BY <1>4 DEF Mint, Busy
  <2>2. work' \in [Holders -> WorkRecord] /\ WorkOK'
    <3>1. ASSUME NEW verdict \in {"token_refused", "failed", "abandoned"},
                 Record(h, verdict)
          PROVE  work' \in [Holders -> WorkRecord] /\ WorkOK'
      BY <2>1, <3>1, RecordOK DEF Outcomes
    <3>2. CASE work' = [work EXCEPT ![h].pc = "call"]
      <4>1. work' = [work EXCEPT ![h] = [work[h] EXCEPT !.pc = "call",
                            !.token = work[h].token, !.verdict = work[h].verdict]]
        BY <1>0, <3>2 DEF TypeOK, WorkRecord
      <4> QED BY <1>0, <2>1, <4>1, MoveOK DEF Busy
    <3> QED BY <1>4, <3>1, <3>2 DEF Mint
  <2> QED BY <1>4, <2>2 DEF Mint, Typing, TypeOK, CauseKnown
<1>5. CASE CallPlane(h)
  <2>1. work[h].pc \in Busy /\ work[h].row \in Rows
    BY <1>5 DEF CallPlane, Busy, WorkOK
  <2>2. work' \in [Holders -> WorkRecord] /\ WorkOK'
    <3>1. \E verdict \in Outcomes \cup Deferrals : Record(h, verdict)
      BY <1>5 DEF CallPlane, OkVerdict, RetryVerdict, Refusals, Outcomes, Good, Deferrals
    <3> QED BY <2>1, <3>1, RecordOK
  <2>3. CallOf(h) \in Calls /\ upstream' \subseteq Calls
    BY <1>5, <2>1, CallTyped DEF CallPlane, TypeOK
  <2>4. log' \in Seq(Calls) /\ ledger' \subseteq {<<row>> : row \in Rows}
    BY <1>5, <2>3, CommitTyped, ServeMoves DEF CallPlane
  <2> QED BY <1>5, <2>2, <2>3, <2>4 DEF CallPlane, Typing, TypeOK, CauseKnown
<1>6. CASE LeaseLost(h)
  BY <1>6, GoIdleOK DEF LeaseLost, Typing, TypeOK, CauseKnown
<1> QED BY <1>1, <1>2, <1>3, <1>4, <1>5, <1>6

(* Every step keeps the types, and every step keeps the core.              *)
LEMMA WorkTyped ==
  ASSUME Base, NEW h \in Holders, Work(h)
  PROVE  Typing'
<1> USE DEF Base
<1>1. CASE ClaimStep(h) \/ ClaimNothing(h)
  BY <1>1, ClaimTyped
<1>2. CASE \/ WithdrawEnded(h) \/ ReadGate(h) \/ CloseGate(h) \/ Mint(h)
           \/ CallPlane(h) \/ LeaseLost(h)
  BY <1>2, ProcessTyped
<1>3. CASE FinishAbandoned(h) \/ Park(h) \/ AwaitEvent(h) \/ RequestApproval(h)
  <2>1. GoIdle(h) /\ run' = run /\ UNCHANGED <<active, upstream, ledger, log>>
    BY <1>3 DEF FinishAbandoned, Park, AwaitEvent, RequestApproval
  <2>2. work' \in [Holders -> WorkRecord] /\ WorkOK'
    BY <2>1, GoIdleOK
  <2>3. step' \in [Rows -> StepRecord]
    BY <1>3, ReleaseTyped
  <2>4. approval' \in [Rows -> ApprovalRecord]
    <3>1. [status |-> "pending", open |-> TRUE] \in ApprovalRecord
      BY DEF ApprovalRecord, ApprovalStatus
    <3> QED BY <1>3, <3>1 DEF FinishAbandoned, Park, AwaitEvent, RequestApproval, TypeOK
  <2> QED BY <2>1, <2>2, <2>3, <2>4 DEF Typing, TypeOK, CauseKnown
<1>4. CASE FinishUndo(h) \/ FinishForward(h)
  <2>1. GoIdle(h) /\ UNCHANGED <<approval, active, upstream, ledger, log>>
    BY <1>4 DEF FinishUndo, FinishForward
  <2>2. work' \in [Holders -> WorkRecord] /\ WorkOK'
    BY <2>1, GoIdleOK
  <2>3. run' \in [Runs -> RunRecord] /\ step' \in [Rows -> StepRecord] /\ CauseKnown'
    BY <1>4, FinishTyped, FinishCause
  <2> QED BY <2>1, <2>2, <2>3 DEF Typing, TypeOK
<1> QED BY <1>1, <1>2, <1>3, <1>4 DEF Work

LEMMA NextTyped ==
  ASSUME Base, [Next]_vars
  PROVE  Typing'
<1>1. CASE UNCHANGED vars
  BY <1>1 DEF vars, Base, Typing, TypeOK, WorkOK, CauseKnown
<1>2. CASE Request \/ Clock \/ \E call \in upstream : Commit(call)
  BY <1>2, RequestTyped, ClockTyped
<1>3. ASSUME NEW h \in Holders, Start(h) \/ Crash(h) \/ Work(h)
      PROVE  Typing'
  BY <1>3, ClockTyped, WorkTyped
<1> QED BY <1>1, <1>2, <1>3 DEF Next

LEMMA NextKeepsIInv == IInv /\ [Next]_vars => IInv'
<1> SUFFICES ASSUME IInv, [Next]_vars PROVE IInv'
  OBVIOUS
<1>1. Typing'
  BY NextTyped DEF IInv
<1>2. Core(run', step')
  <2>1. CASE UNCHANGED vars \/ \E call \in upstream : Commit(call)
    BY <2>1 DEF vars, Commit, IInv
  <2>2. CASE Request \/ Clock
    BY <2>2, EnqueueCore, CancelCore, QuietCore DEF Request
  <2>3. ASSUME NEW h \in Holders, Start(h) \/ Crash(h) \/ Work(h)
        PROVE  Core(run', step')
    BY <2>3, ClaimCore, QuietCore, ReleaseCore, FinishCore DEF Work
  <2> QED BY <2>1, <2>2, <2>3 DEF Next
<1>3. RowsAfterRequest' /\ UndoAfterTurn(run', step')
  BY <1>2 DEF Core, NoRowsBefore, RowsAfterRequest
<1> QED BY <1>1, <1>2, <1>3 DEF Typing, Base, IInv

LEMMA InitIInv == Init => IInv
<1> SUFFICES ASSUME Init PROVE IInv
  OBVIOUS
<1>1. TypeOK
  <2>1. run \in [Runs -> RunRecord]
    BY DEF Init, RunRecord, RunStatus
  <2>2. step \in [Rows -> StepRecord]
    BY NewStepTyped DEF Init
  <2>3. approval \in [Rows -> ApprovalRecord]
    BY DEF Init, ApprovalRecord, ApprovalStatus
  <2>4. work \in [Holders -> WorkRecord]
    BY DEF Init, Idle, WorkRecord
  <2> QED BY <2>1, <2>2, <2>3, <2>4 DEF Init, TypeOK
<1>2. WorkOK /\ CauseKnown
  BY DEF Init, WorkOK, CauseKnown, Idle, Busy
<1>3. \A row \in Rows : /\ step[row].status = "absent" /\ step[row].attempt = 0
                        /\ ~step[row].live
  BY DEF Init, Absent
<1>4. Core(run, step)
  BY <1>3 DEF Core, NoRowsBefore, Sequential, ClaimCounted, UndoAfterTurn,
              UndoOneAtATime, Guarded
<1>5. RowsAfterRequest /\ UndoAfterTurn(run, step)
  BY <1>4 DEF Core, NoRowsBefore, RowsAfterRequest
<1> QED BY <1>1, <1>2, <1>4, <1>5 DEF IInv, Base

-----------------------------------------------------------------------------

(* Whatever the worker, the agent, the approver and the clock do, the      *)
(* inductive invariant holds: the claim, finish and park functions of      *)
(* migrations 0034-0036 keep it together.                                  *)
THEOREM Invariance == Spec => []IInv
<1>1. Init => IInv
  BY InitIInv
<1>2. IInv /\ [Next]_vars => IInv'
  BY NextKeepsIInv
<1> QED BY <1>1, <1>2, PTL DEF Spec

(* Every variable keeps its type.                                          *)
THEOREM TypeCorrect == Spec => []TypeOK
<1>1. IInv => TypeOK
  BY DEF IInv, Base
<1> QED BY <1>1, Invariance, PTL

(* A worker inside its lease works for a run still going the way of its    *)
(* step: a claim's cancel and timeout passes leave out a run with an       *)
(* unexpired claim, and a finish that turns or ends a run finishes the     *)
(* only row under one.                                                     *)
THEOREM LeaseGuards == Spec => []LeaseGuardsRun
<1>1. IInv => LeaseGuardsRun
  BY DEF IInv, Core, Guarded, LeaseGuardsRun
<1> QED BY <1>1, Invariance, PTL

(* A forward step is claimed only after every earlier one succeeded, and   *)
(* none of them leaves succeeded afterwards.                               *)
THEOREM ForwardOrder == Spec => []SequentialForward
<1>1. IInv => SequentialForward
  BY DEF IInv, Core, Sequential, SequentialForward
<1> QED BY <1>1, Invariance, PTL

-----------------------------------------------------------------------------
(* A run that ended stays as it ended.                                     *)

(* An undo is finished for a run still compensating, so the unconditional  *)
(* stop of workflow_finish_step never rewrites an ended run.               *)
LEMMA NextKeepsEnded ==
  ASSUME IInv, [Next]_vars, NEW r \in Runs, run[r].status \in Ended
  PROVE  run'[r].status = run[r].status
<1> USE DEF IInv, Base, Ended
<1>0. run \in [Runs -> RunRecord] /\ run[r] \in RunRecord
  BY DEF TypeOK
<1>1. CASE run' = run
  BY <1>1
<1>2. CASE Request
  <2>1. ASSUME NEW q \in Runs, NEW d \in Definitions, NEW dry \in BOOLEAN,
               Enqueue(q, d, dry)
        PROVE  run'[r] = run[r]
    BY <1>0, <2>1 DEF Enqueue
  <2>2. ASSUME NEW q \in Runs, Cancel(q)
        PROVE  run'[r] = run[r]
    BY <1>0, <2>2 DEF Cancel
  <2>3. ASSUME NEW row \in Rows, Reject(row)
        PROVE  run'[r].status = run[r].status
    BY <1>0, <2>3 DEF Reject, RunRecord
  <2> QED BY <1>2, <2>1, <2>2, <2>3 DEF Request, Approve, Emit, SetAgent
<1>3. CASE Clock
  BY <1>0, <1>3 DEF Clock, LeaseLapses, ResumeDue, RunOverdue, RunRecord
<1>4. ASSUME NEW h \in Holders, ClaimStep(h) \/ ClaimNothing(h)
      PROVE  run'[r].status = run[r].status
  <2>1. SweptRuns[r] = run[r]
    BY DEF SweptRuns, Cancelling, TimedOut
  <2>2. \A q \in Runs : SweptRuns[q] \in RunRecord
    BY SweptTyped DEF Typed
  <2>3. CASE ClaimNothing(h)
    BY <2>1, <2>3 DEF ClaimNothing
  <2>4. CASE ClaimStep(h)
    <3>1. PICK row \in Rows :
            run' = [SweptRuns EXCEPT
                      ![row.run].status = IF @ = "queued" THEN "running" ELSE @]
      BY <2>4 DEF ClaimStep, Claimable
    <3> QED BY <2>1, <2>2, <3>1, SweptTyped DEF Typed, RunRecord
  <2> QED BY <1>4, <2>3, <2>4
<1>5. ASSUME NEW h \in Holders, FinishUndo(h) \/ FinishForward(h)
      PROVE  run'[r].status = run[r].status
  <2>1. work[h].row \in Rows /\ work[h].row.run \in Runs
    BY <1>5, RowShape DEF FinishUndo, FinishForward, Recording, WorkOK, Busy
  <2>2. CASE FinishUndo(h)
    <3>1. run[work[h].row.run].status = "compensating"
      BY <2>1, <2>2 DEF FinishUndo, Holds, Core, UndoOneAtATime
    <3> QED BY <1>0, <2>1, <2>2, <3>1 DEF FinishUndo
  <2>3. CASE FinishForward(h)
    BY <1>0, <2>1, <2>3 DEF FinishForward, Going
  <2> QED BY <1>5, <2>2, <2>3
<1>6. ASSUME NEW h \in Holders, Start(h) \/ Crash(h) \/ Work(h)
      PROVE  run'[r].status = run[r].status
  <2>1. CASE run' # run
    BY <1>4, <1>5, <1>6, <2>1 DEF Start, Crash, Work, WithdrawEnded, ReadGate, CloseGate,
       Mint, CallPlane, LeaseLost, FinishAbandoned, Park, AwaitEvent, RequestApproval
  <2> QED BY <2>1
<1> QED BY <1>1, <1>2, <1>3, <1>6 DEF Next, vars, Commit

(* A run that ended stays as it ended, whatever finishes late.             *)
THEOREM EndedStays == Spec => EndedRunStays
<1>1. IInv /\ [Next]_vars =>
        [\A r \in Runs : run[r].status \in Ended => run'[r].status = run[r].status]_vars
  BY NextKeepsEnded
<1> QED BY <1>1, Invariance, PTL DEF Spec, EndedRunStays

-----------------------------------------------------------------------------
(* What a run was asked for.                                               *)

(* What a request fixed: the definition, and whether it is a rehearsal.    *)
SameRequest(a, b) == a.body = b.body /\ a.dry = b.dry

(* A run keeps both from when it is enqueued.                              *)
LEMMA NextKeepsBody ==
  ASSUME Base, [Next]_vars, NEW r \in Runs, run[r].status # "none"
  PROVE  run'[r].status # "none" /\ SameRequest(run'[r], run[r])
<1> USE DEF Base, SameRequest
<1>0. run \in [Runs -> RunRecord] /\ run[r] \in RunRecord
  BY DEF TypeOK
<1>1. CASE run' = run
  BY <1>1
<1>2. CASE Request
  <2>1. ASSUME NEW q \in Runs, NEW d \in Definitions, NEW dry \in BOOLEAN,
               Enqueue(q, d, dry)
        PROVE  run'[r] = run[r]
    BY <1>0, <2>1 DEF Enqueue
  <2>2. ASSUME NEW q \in Runs, Cancel(q)
        PROVE  run'[r].status # "none" /\ SameRequest(run'[r], run[r])
    <3>1. \/ run' = [run EXCEPT ![q] = [run[q] EXCEPT !.status = "cancelled", !.cancel = TRUE]]
          \/ run' = [run EXCEPT ![q] = [run[q] EXCEPT !.cancel = TRUE]]
      BY <1>0, <2>2 DEF Cancel
    <3>2. /\ [run[r] EXCEPT !.status = "cancelled", !.cancel = TRUE].status # "none"
          /\ SameRequest([run[r] EXCEPT !.status = "cancelled", !.cancel = TRUE], run[r])
          /\ [run[r] EXCEPT !.cancel = TRUE].status = run[r].status
          /\ SameRequest([run[r] EXCEPT !.cancel = TRUE], run[r])
      BY <1>0 DEF RunRecord
    <3> QED BY <1>0, <3>1, <3>2
  <2>3. ASSUME NEW row \in Rows, Reject(row)
        PROVE  run'[r].status # "none" /\ SameRequest(run'[r], run[r])
    BY <1>0, <2>3 DEF Reject, RunRecord
  <2> QED BY <1>0, <1>2, <2>1, <2>2, <2>3 DEF Request, Approve, Emit, SetAgent
<1>3. CASE Clock
  BY <1>0, <1>3 DEF Clock, LeaseLapses, ResumeDue, RunOverdue, RunRecord
<1>4. ASSUME NEW cause \in {"failed", "cancelled"}, NEW steps
      PROVE  /\ BegunRun(r, cause, steps).status # "none"
             /\ SameRequest(BegunRun(r, cause, steps), run[r])
  BY <1>0 DEF BegunRun, RunRecord
<1>5. ASSUME NEW h \in Holders, ClaimStep(h) \/ ClaimNothing(h)
      PROVE  run'[r].status # "none" /\ SameRequest(run'[r], run[r])
  <2>1. SweptRuns[r].status # "none" /\ SameRequest(SweptRuns[r], run[r])
    BY <1>4 DEF SweptRuns
  <2>2. SweptRuns \in [Runs -> RunRecord]
    BY SweptTyped DEF Typed
  <2>3. CASE ClaimNothing(h)
    BY <2>1, <2>3 DEF ClaimNothing
  <2>4. CASE ClaimStep(h)
    <3>1. PICK row \in Rows :
            run' = [SweptRuns EXCEPT
                      ![row.run].status = IF @ = "queued" THEN "running" ELSE @]
      BY <2>4 DEF ClaimStep, Claimable
    <3> QED BY <2>1, <2>2, <3>1 DEF RunRecord
  <2> QED BY <1>5, <2>3, <2>4
<1>6. ASSUME NEW h \in Holders, FinishUndo(h) \/ FinishForward(h)
      PROVE  run'[r].status # "none" /\ SameRequest(run'[r], run[r])
  <2>1. CASE FinishUndo(h)
    <3>1. ASSUME NEW verdict, NEW steps
          PROVE  /\ AfterUndo(r, verdict, steps).status # "none"
                 /\ SameRequest(AfterUndo(r, verdict, steps), run[r])
      BY <1>0 DEF AfterUndo, RunRecord, CauseKnown
    <3> QED BY <1>0, <2>1, <3>1 DEF FinishUndo
  <2>2. CASE FinishForward(h)
    <3>1. /\ SameRequest([run[r] EXCEPT !.status = "stopped"], run[r])
          /\ [run[r] EXCEPT !.status = "stopped"].status # "none"
          /\ SameRequest([run[r] EXCEPT !.status = "succeeded"], run[r])
          /\ [run[r] EXCEPT !.status = "succeeded"].status # "none"
      BY <1>0 DEF RunRecord
    <3> QED BY <1>0, <1>4, <2>2, <3>1 DEF FinishForward
  <2> QED BY <1>6, <2>1, <2>2
<1>7. ASSUME NEW h \in Holders, Start(h) \/ Crash(h) \/ Work(h)
      PROVE  run'[r].status # "none" /\ SameRequest(run'[r], run[r])
  <2>1. CASE run' # run
    BY <1>5, <1>6, <1>7, <2>1 DEF Start, Crash, Work, WithdrawEnded, ReadGate, CloseGate,
       Mint, CallPlane, LeaseLost, FinishAbandoned, Park, AwaitEvent, RequestApproval
  <2> QED BY <2>1
<1> QED BY <1>1, <1>2, <1>3, <1>7 DEF Next, vars, Commit

-----------------------------------------------------------------------------
(* How a step moves a worker.                                              *)

(* A worker is busy after a step because it was left alone, was handed a   *)
(* row of a run, or moved on with the row it has.                          *)
WorkMoves(h) ==
  \/ work'[h] = work[h]
  \/ /\ ClaimStep(h)
     /\ \E row \in Rows, n \in Nat :
          /\ run[row.run].status # "none" /\ step'[row].status = "claimed"
          /\ n = SweptSteps[row].attempt + 1 /\ n = step'[row].attempt
          /\ work'[h] = Taken(row, n)
  \/ /\ work[h].pc \in Busy
     /\ work'[h].row = work[h].row /\ work'[h].attempt = work[h].attempt
     /\ ReadGate(h) \/ CloseGate(h) \/ Mint(h) \/ CallPlane(h)

(* A claim leaves an unrequested run alone.                                *)
LEMMA SweptNone ==
  ASSUME TypeOK, NEW r \in Runs, run[r].status = "none"
  PROVE  SweptRuns[r].status = "none"
BY DEF SweptRuns, Cancelling, TimedOut

LEMMA WorkerMoves ==
  ASSUME Base, [Next]_vars, NEW h \in Holders, work'[h].pc \in Busy
  PROVE  WorkMoves(h)
<1> USE DEF Base
<1>0. work \in [Holders -> WorkRecord] /\ work[h] \in WorkRecord
  BY DEF TypeOK
<1>1. CASE ClaimStep(h)
  <2>1. PICK row \in Claimable(SweptRuns, SweptSteps) :
          /\ step' = [SweptSteps EXCEPT ![row] = ClaimedStep(@, h)]
          /\ work' = [work EXCEPT ![h] = Taken(row, SweptSteps[row].attempt + 1)]
    BY <1>1 DEF ClaimStep
  <2>2. row \in Rows /\ row.run \in Runs
    BY RowShape DEF Claimable
  <2>3. SweptRuns[row.run].status # "none"
    BY DEF Claimable, ForwardTurn, UndoTurn
  <2>4. run[row.run].status # "none"
    BY <2>2, <2>3, SweptNone
  <2>5. SweptSteps[row].attempt + 1 \in Nat
    BY <2>2, SweptTyped DEF Typed, StepRecord
  <2>6. work'[h] = Taken(row, SweptSteps[row].attempt + 1)
    BY <1>0, <2>1
  <2>7. /\ step'[row].status = "claimed"
        /\ step'[row].attempt = SweptSteps[row].attempt + 1
    BY <2>1, <2>2, SweptTyped DEF Typed, ClaimedStep, StepRecord
  <2> QED BY <1>1, <2>2, <2>4, <2>5, <2>6, <2>7 DEF WorkMoves
<1>2. ASSUME NEW other \in Holders \ {h}, Start(other) \/ Crash(other) \/ Work(other)
      PROVE  work'[h] = work[h]
  BY <1>0, <1>2 DEF Start, Crash, Work, ClaimStep, ClaimNothing, WithdrawEnded, ReadGate,
     CloseGate, Mint, CallPlane, LeaseLost, FinishAbandoned, FinishUndo, FinishForward,
     Park, AwaitEvent, RequestApproval, GoIdle, Record
<1>3. ASSUME \/ work' = [work EXCEPT ![h] = Idle]
             \/ work' = [work EXCEPT ![h].pc = "withdraw"]
             \/ work' = [work EXCEPT ![h] = [Idle EXCEPT !.pc = "dead"]]
      PROVE  FALSE
  BY <1>0, <1>3 DEF Idle, Busy, WorkRecord
<1>4. CASE ReadGate(h) \/ CloseGate(h) \/ Mint(h) \/ CallPlane(h)
  <2>1. work[h].pc \in Busy
    BY <1>4 DEF ReadGate, CloseGate, Mint, CallPlane, Busy
  <2>2. \/ GoIdle(h)
        \/ \E verdict : Record(h, verdict)
        \/ \E pc, token : work' = [work EXCEPT ![h].pc = pc, ![h].token = token]
        \/ work' = [work EXCEPT ![h].pc = "call"]
    BY <1>4 DEF ReadGate, CloseGate, Mint, CallPlane, GoIdle
  <2>3. work'[h].row = work[h].row /\ work'[h].attempt = work[h].attempt
    <3>1. ASSUME NEW verdict, Record(h, verdict)
          PROVE  work'[h].row = work[h].row /\ work'[h].attempt = work[h].attempt
      BY <1>0, <3>1 DEF Record, WorkRecord
    <3>2. ASSUME NEW pc, NEW token,
                 work' = [work EXCEPT ![h].pc = pc, ![h].token = token]
          PROVE  work'[h].row = work[h].row /\ work'[h].attempt = work[h].attempt
      BY <1>0, <3>2 DEF WorkRecord
    <3>3. CASE work' = [work EXCEPT ![h].pc = "call"]
      <4>1. work'[h] = [work[h] EXCEPT !.pc = "call"]
        BY <1>0, <3>3
      <4> QED BY <1>0, <4>1 DEF WorkRecord
    <3> QED BY <1>3, <2>2, <3>1, <3>2, <3>3 DEF GoIdle
  <2> QED BY <1>4, <2>1, <2>3 DEF WorkMoves
<1>5. CASE work' = work
  BY <1>5 DEF WorkMoves
<1>6. ASSUME Start(h) \/ Crash(h) \/ Work(h)
      PROVE  WorkMoves(h)
  BY <1>1, <1>3, <1>4, <1>5, <1>6 DEF Start, Crash, Work, ClaimNothing, WithdrawEnded,
     LeaseLost, FinishAbandoned, FinishUndo, FinishForward, Park, AwaitEvent,
     RequestApproval, GoIdle
<1>7. CASE \E other \in Holders : Start(other) \/ Crash(other) \/ Work(other)
  BY <1>2, <1>6, <1>7 DEF WorkMoves
<1>8. CASE Request \/ Clock \/ UNCHANGED vars \/ \E call \in upstream : Commit(call)
  BY <1>5, <1>8 DEF Request, Clock, vars, Commit, Enqueue, Cancel, Approve, Reject, Emit, SetAgent,
     LeaseLapses, ResumeDue, RunOverdue
<1> QED BY <1>7, <1>8 DEF Next
-----------------------------------------------------------------------------
(* What a row asks for does not change under a worker, a statement on its  *)
(* way or an effect: their runs were enqueued.                             *)
EnqueuedInv ==
  /\ \A h \in Holders : work[h].pc \in Busy => run[work[h].row.run].status # "none"
  /\ \A call \in upstream : run[call.row.run].status # "none"
  /\ \A i \in 1..Len(log) : run[log[i].row.run].status # "none"

LEMMA NextKeepsWorkers ==
  ASSUME Base, EnqueuedInv, [Next]_vars,
         NEW h \in Holders, work'[h].pc \in Busy
  PROVE  run'[work'[h].row.run].status # "none"
<1>1. PICK row \in Rows : row = work'[h].row /\ run[row.run].status # "none"
  <2>1. CASE work'[h] = work[h]
    BY <2>1 DEF Base, WorkOK, EnqueuedInv
  <2>2. ASSUME NEW row \in Rows, NEW n \in Nat, run[row.run].status # "none",
               work'[h] = Taken(row, n)
        PROVE  work'[h].row = row
    BY <2>2, TakenOK
  <2>3. CASE work[h].pc \in Busy /\ work'[h].row = work[h].row
    BY <2>3 DEF Base, WorkOK, EnqueuedInv
  <2> QED BY <2>1, <2>2, <2>3, WorkerMoves DEF WorkMoves
<1> QED BY <1>1, NextKeepsBody, RowShape

(* The plane commits a call a worker made and was permitted, or one that   *)
(* was given up; and a call is given up by its worker.                     *)
Source(call) ==
  \/ \E h \in Holders : /\ CallPlane(h) /\ Permitted(h) /\ call = CallOf(h)
                        /\ upstream' = upstream
  \/ call \in upstream /\ Commit(call)

LEMMA PlaneMoves ==
  ASSUME Base, [Next]_vars
  PROVE  /\ \/ UNCHANGED <<ledger, log>>
            \/ \E call \in Calls : Commits(call) /\ Source(call)
         /\ \A call \in upstream' :
              \/ call \in upstream
              \/ \E h \in Holders : (CallPlane(h) \/ Crash(h)) /\ call \in Sent(h)
<1> USE DEF Base
<1>1. ASSUME NEW h \in Holders, CallPlane(h)
      PROVE  /\ UNCHANGED <<ledger, log>> \/ (Commits(CallOf(h)) /\ Permitted(h) /\ upstream' = upstream)
             /\ CallOf(h) \in Calls
             /\ upstream' \subseteq upstream \cup Sent(h)
  <2>1. CallOf(h) \in Calls
    BY <1>1, CallTyped DEF CallPlane, Busy
  <2>2. \/ Serve(CallOf(h)) /\ Permitted(h) /\ UNCHANGED upstream
        \/ UNCHANGED <<ledger, log>> /\ upstream' \subseteq upstream \cup Sent(h)
    BY <1>1 DEF CallPlane
  <2>3. Serve(CallOf(h)) => Commits(CallOf(h)) \/ UNCHANGED <<ledger, log>>
    BY ServeMoves
  <2> QED BY <2>1, <2>2, <2>3
<1>2. ASSUME NEW call \in upstream, Commit(call)
      PROVE  /\ UNCHANGED <<ledger, log>> \/ Commits(call)
             /\ call \in Calls
             /\ upstream' \subseteq upstream
  BY <1>2, ServeMoves DEF Commit, TypeOK
<1>3. ASSUME NEW h \in Holders, Crash(h)
      PROVE  UNCHANGED <<ledger, log>> /\ upstream' = upstream \cup Sent(h)
  BY <1>3 DEF Crash
<1>4. CASE UNCHANGED <<ledger, log, upstream>>
  BY <1>4
<1>5. CASE ~UNCHANGED <<ledger, log, upstream>>
  <2>1. \/ \E h \in Holders : CallPlane(h) \/ Crash(h)
        \/ \E call \in upstream : Commit(call)
    BY <1>5 DEF Next, vars, Request, Clock, Work, Enqueue, Cancel, Approve, Reject, Emit,
       SetAgent, LeaseLapses, ResumeDue, RunOverdue, Start, ClaimStep, ClaimNothing,
       WithdrawEnded, ReadGate, CloseGate, Mint, LeaseLost, FinishAbandoned, FinishUndo,
       FinishForward, Park, AwaitEvent, RequestApproval
  <2> QED BY <1>1, <1>2, <1>3, <2>1 DEF Source
<1> QED BY <1>4, <1>5

(* The log is of calls.                                                    *)
LEMMA LogRows ==
  ASSUME TypeOK
  PROVE  \A i \in 1..Len(log) : log[i] \in Calls /\ log[i].row \in Rows
<1>1. \A i \in 1..Len(log) : log[i] \in Calls
  BY DEF TypeOK
<1> QED BY <1>1 DEF Calls

(* The log grows at its end.                                               *)
LEMMA LogAppends ==
  ASSUME TypeOK, NEW call \in Calls, log' = Append(log, call)
  PROVE  /\ Len(log) \in Nat /\ Len(log') = Len(log) + 1
         /\ log'[Len(log) + 1] = call
         /\ \A i \in 1..Len(log) : log'[i] = log[i] /\ log[i] \in Calls
BY DEF TypeOK

LEMMA NextKeepsEnqueued ==
  ASSUME Base, EnqueuedInv, [Next]_vars
  PROVE  EnqueuedInv'
<1> USE DEF Base
<1>1. ASSUME NEW call \in Calls, run[call.row.run].status # "none"
      PROVE  run'[call.row.run].status # "none"
  BY <1>1, NextKeepsBody, RowShape DEF Calls
<1>2. ASSUME NEW h \in Holders, work[h].pc = "call"
      PROVE  run[CallOf(h).row.run].status # "none"
  BY <1>2 DEF CallOf, EnqueuedInv, Busy
<1>3. ASSUME NEW call \in upstream'
      PROVE  run'[call.row.run].status # "none"
  <2>1. call \in Calls /\ run[call.row.run].status # "none"
    <3>1. CASE call \in upstream
      BY <3>1 DEF EnqueuedInv, TypeOK
    <3>2. ASSUME NEW h \in Holders, call \in Sent(h)
          PROVE  call \in Calls /\ run[call.row.run].status # "none"
      BY <1>2, <3>2, CallTyped DEF Sent
    <3> QED BY <3>1, <3>2, PlaneMoves
  <2> QED BY <1>1, <2>1
<1>4. ASSUME NEW i \in 1..Len(log')
      PROVE  run'[log'[i].row.run].status # "none"
  <2>1. \A k \in 1..Len(log) : log[k] \in Calls /\ run'[log[k].row.run].status # "none"
    BY <1>1 DEF EnqueuedInv, TypeOK
  <2>2. CASE log' = log
    BY <2>1, <2>2
  <2>3. ASSUME NEW call \in Calls, Commits(call), Source(call)
        PROVE  run'[log'[i].row.run].status # "none"
    <3>1. run[call.row.run].status # "none"
      BY <1>2, <2>3 DEF Source, CallPlane, EnqueuedInv
    <3> QED BY <1>1, <2>1, <2>3, <3>1, LogAppends DEF Commits
  <2> QED BY <2>2, <2>3, PlaneMoves
<1> QED BY <1>3, <1>4, NextKeepsWorkers DEF EnqueuedInv

(* What a row asks for does not change once its run is requested.          *)
LEMMA RowStays ==
  ASSUME Base, [Next]_vars, NEW row \in Rows, run[row.run].status # "none"
  PROVE  /\ run'[row.run].status # "none" /\ run'[row.run].dry = run[row.run].dry
         /\ ElementOf(row)' = ElementOf(row)
         /\ KindOf(row)' = KindOf(row)
         /\ IsGated(row)' = IsGated(row)
         /\ Keyed(row)' = Keyed(row)
<1>1. run'[row.run].status # "none" /\ SameRequest(run'[row.run], run[row.run])
  BY RowShape, NextKeepsBody
<1> QED BY <1>1 DEF KindOf, ElementOf, IsGated, Keyed, SameRequest

LEMMA EnqueuedInvariance == Spec => []EnqueuedInv
<1>1. Init => EnqueuedInv
  BY DEF Init, EnqueuedInv, Idle, Busy
<1>2. IInv /\ EnqueuedInv /\ [Next]_vars => EnqueuedInv'
  BY NextKeepsEnqueued DEF IInv
<1> QED BY <1>1, <1>2, Invariance, PTL DEF Spec

-----------------------------------------------------------------------------
(* One effect per key.                                                     *)

(* Whether the row's effect was committed.                                 *)
Logged(row) == \E i \in 1..Len(log) : log[i].row = row

(* The ledger holds the key of every effect of a write that claims one, so *)
(* a second call of its row is a replay.                                   *)
KeyedInv ==
  \A row \in Rows : Keyed(row) =>
    /\ Logged(row) => <<row>> \in ledger
    /\ \A i, j \in 1..Len(log) : log[i].row = row /\ log[j].row = row => i = j

LEMMA NextKeepsKeyed ==
  ASSUME Base, EnqueuedInv, KeyedInv, [Next]_vars
  PROVE  KeyedInv'
<1> USE DEF Base
<1> SUFFICES ASSUME NEW row \in Rows, Keyed(row)'
             PROVE  /\ Logged(row)' => <<row>> \in ledger'
                    /\ \A i, j \in 1..Len(log') :
                         log'[i].row = row /\ log'[j].row = row => i = j
  BY DEF KeyedInv
<1>1. Logged(row) => Keyed(row)
  BY RowStays DEF Logged, EnqueuedInv
<1>2. CASE UNCHANGED <<ledger, log>>
  BY <1>1, <1>2 DEF KeyedInv, Logged
<1>3. ASSUME NEW call \in Calls, Commits(call), Source(call)
      PROVE  /\ Logged(row)' => <<row>> \in ledger'
             /\ \A i, j \in 1..Len(log') :
                  log'[i].row = row /\ log'[j].row = row => i = j
  <2>1. /\ Len(log) \in Nat /\ Len(log') = Len(log) + 1
        /\ log'[Len(log) + 1] = call
        /\ \A i \in 1..Len(log) : log'[i] = log[i]
    BY <1>3, LogAppends DEF Commits
  <2>2. ledger \subseteq ledger'
    BY <1>3 DEF Commits
  <2>3. CASE call.row # row
    BY <1>1, <2>1, <2>2, <2>3 DEF KeyedInv, Logged
  <2>4. CASE call.row = row
    <3>1. run[row.run].status # "none"
      <4>1. ASSUME NEW h \in Holders, CallPlane(h), call = CallOf(h)
            PROVE  run[call.row.run].status # "none"
        BY <4>1 DEF CallPlane, CallOf, EnqueuedInv, Busy
      <4> QED BY <1>3, <2>4, <4>1 DEF Source, EnqueuedInv
    <3>2. Keyed(row)
      BY <3>1, RowStays
    <3>3. <<row>> \notin ledger /\ <<row>> \in ledger'
      BY <1>3, <2>4, <3>2 DEF Commits, KeyOf
    <3>4. \A i \in 1..Len(log) : log[i].row # row
      BY <3>2, <3>3 DEF KeyedInv, Logged
    <3> QED BY <2>1, <3>3, <3>4
  <2> QED BY <2>3, <2>4
<1> QED BY <1>2, <1>3, PlaneMoves

(* However often a step is called, the effect of a write that claims its   *)
(* key (the release's own functions do) is committed once.                 *)
THEOREM EffectOnce == Spec => []OneEffectPerKey
<1>1. Init => KeyedInv
  BY DEF Init, KeyedInv, Logged
<1>2. IInv /\ EnqueuedInv /\ KeyedInv /\ [Next]_vars => KeyedInv'
  BY NextKeepsKeyed DEF IInv
<1>3. TypeOK /\ KeyedInv => OneEffectPerKey
  BY LogRows DEF KeyedInv, OneEffectPerKey
<1> QED BY <1>1, <1>2, <1>3, Invariance, EnqueuedInvariance, TypeCorrect, PTL DEF Spec

-----------------------------------------------------------------------------
(* Decisions, and the effects that need them.                              *)

(* No action rewrites a decision: every writer of an approval but the      *)
(* request asks that it be pending, and the request that there be none.    *)
LEMMA NextKeepsDecision ==
  ASSUME TypeOK, WorkOK, [Next]_vars,
         NEW row \in Rows, approval[row].status \in Decided
  PROVE  approval'[row].status = approval[row].status
<1> USE DEF Decided
<1>1. approval \in [Rows -> ApprovalRecord]
  BY DEF TypeOK
<1>2. CASE approval' = approval
  BY <1>2
<1>3. ASSUME NEW other \in Rows, Approve(other) \/ Reject(other)
      PROVE  approval'[row].status = approval[row].status
  BY <1>1, <1>3 DEF Approve, Reject, Decidable
<1>4. ASSUME NEW other \in Rows, ResumeDue(other)
      PROVE  approval'[row].status = approval[row].status
  BY <1>1, <1>4 DEF ResumeDue, ApprovalRecord
<1>5. ASSUME NEW h \in Holders, WithdrawEnded(h)
      PROVE  approval'[row].status = approval[row].status
  BY <1>1, <1>5 DEF WithdrawEnded, Withdrawable
<1>6. ASSUME NEW h \in Holders, CloseGate(h)
      PROVE  approval'[row].status = approval[row].status
  BY <1>1, <1>6 DEF CloseGate, Expirable
<1>7. ASSUME NEW h \in Holders, RequestApproval(h)
      PROVE  approval'[row].status = approval[row].status
  BY <1>1, <1>7 DEF RequestApproval
<1>8. CASE approval' # approval
  <2>1. \/ \E other \in Rows : Approve(other) \/ Reject(other) \/ ResumeDue(other)
        \/ \E h \in Holders : WithdrawEnded(h) \/ CloseGate(h) \/ RequestApproval(h)
    BY <1>8 DEF Next, vars, Request, Clock, Work, Enqueue, Cancel, Emit, SetAgent,
       LeaseLapses, RunOverdue, Start, Crash, ClaimStep, ClaimNothing, ReadGate, Mint,
       CallPlane, Commit, LeaseLost, FinishAbandoned, FinishUndo, FinishForward, Park,
       AwaitEvent
  <2> QED BY <1>3, <1>4, <1>5, <1>6, <1>7, <2>1
<1> QED BY <1>2, <1>8

(* A human's decision is never rewritten by an expiry, a withdrawal or a   *)
(* second decision.                                                        *)
THEOREM DecisionStays == Spec => DecisionIsFinal
<1>1. IInv /\ [Next]_vars =>
        [\A row \in Rows : approval[row].status \in Decided =>
                             approval'[row].status = approval[row].status]_vars
  BY NextKeepsDecision DEF IInv, Base
<1> QED BY <1>1, Invariance, PTL DEF Spec, DecisionIsFinal

(* Something rests on the approval of the row: an effect, a statement on   *)
(* its way, or a worker with the claim of an approval.                     *)
Trusted(row) ==
  \/ Logged(row)
  \/ \E call \in upstream : call.row = row
  \/ \E h \in Holders : /\ work[h].pc \in Busy /\ work[h].row = row
                        /\ work[h].token

GatedInv ==
  \A row \in Rows : IsGated(row) /\ Trusted(row) => approval[row].status = "approved"

(* A worker is given the claim of an approval at the gate, once approved.  *)
LEMMA TokenMoves ==
  ASSUME Base, [Next]_vars, NEW h \in Holders, work'[h].pc \in Busy, work'[h].token,
         NEW row \in Rows, work'[h].row = row
  PROVE  \/ work[h].pc \in Busy /\ work[h].row = row /\ work[h].token
         \/ approval[row].status = "approved"
<1>0. work \in [Holders -> WorkRecord] /\ work[h] \in WorkRecord
  BY DEF Base, TypeOK
<1>1. CASE work'[h] = work[h]
  BY <1>1
<1>2. ASSUME NEW other \in Rows, NEW n \in Nat, work'[h] = Taken(other, n)
      PROVE  FALSE
  BY <1>2 DEF Taken
<1>3. ASSUME work[h].pc \in Busy, work'[h].row = work[h].row,
             ReadGate(h) \/ CloseGate(h) \/ Mint(h) \/ CallPlane(h)
      PROVE  work[h].token \/ approval[row].status = "approved"
  <2>1. ASSUME NEW verdict, Record(h, verdict)
        PROVE  work[h].token
    BY <1>0, <2>1 DEF Record, WorkRecord
  <2>2. CASE work' = [work EXCEPT ![h].pc = "call"]
    BY <1>0, <2>2 DEF WorkRecord
  <2>3. CASE work' = [work EXCEPT ![h] = Idle]
    BY <1>0, <2>3 DEF Idle
  <2>4. ASSUME NEW pc, work' = [work EXCEPT ![h].pc = pc,
                                     ![h].token = GateStatus(row) = "approved"]
        PROVE  approval[row].status = "approved"
    <3>1. work'[h].token = (GateStatus(row) = "approved")
      BY <1>0, <2>4 DEF WorkRecord
    <3> QED BY <3>1 DEF GateStatus
  <2> QED BY <1>3, <2>1, <2>2, <2>3, <2>4 DEF ReadGate, CloseGate, Mint, CallPlane
<1> QED BY <1>1, <1>2, <1>3, WorkerMoves DEF WorkMoves

LEMMA NextKeepsGated ==
  ASSUME Base, EnqueuedInv, GatedInv, [Next]_vars
  PROVE  GatedInv'
<1> USE DEF Base
<1> SUFFICES ASSUME NEW row \in Rows, IsGated(row)', Trusted(row)'
             PROVE  approval'[row].status = "approved"
  BY DEF GatedInv
<1>1. approval[row].status = "approved" => approval'[row].status = "approved"
  BY NextKeepsDecision DEF Decided
<1>2. Trusted(row) => approval[row].status = "approved"
  <2>1. Trusted(row) => run[row.run].status # "none"
    BY DEF Trusted, Logged, EnqueuedInv
  <2> QED BY <2>1, RowStays DEF GatedInv
<1>3. ASSUME NEW h \in Holders, work[h].pc = "call", work[h].row = row,
             IsGated(row) => work[h].token
      PROVE  Trusted(row)
  <2>1. run[row.run].status # "none"
    BY <1>3 DEF EnqueuedInv, Busy
  <2>2. IsGated(row)
    BY <2>1, RowStays
  <2> QED BY <1>3, <2>2 DEF Trusted, Busy
<1>4. ASSUME Logged(row)'
      PROVE  Trusted(row)
  <2>1. CASE log' = log
    BY <1>4, <2>1 DEF Logged, Trusted
  <2>2. ASSUME NEW call \in Calls, Commits(call), Source(call)
        PROVE  Trusted(row)
    <3>1. Logged(row) \/ call.row = row
      BY <1>4, <2>2, LogAppends DEF Commits, Logged
    <3>2. CASE call.row = row
      <4>1. ASSUME NEW h \in Holders, CallPlane(h), Permitted(h), call = CallOf(h)
            PROVE  Trusted(row)
        BY <1>3, <3>2, <4>1 DEF CallPlane, CallOf, Permitted
      <4> QED BY <2>2, <3>2, <4>1 DEF Source, Trusted
    <3> QED BY <3>1, <3>2 DEF Trusted
  <2> QED BY <2>1, <2>2, PlaneMoves
<1>5. ASSUME NEW call \in upstream', call.row = row
      PROVE  Trusted(row)
  <2>1. CASE call \in upstream
    BY <1>5, <2>1 DEF Trusted
  <2>2. ASSUME NEW h \in Holders, call \in Sent(h)
        PROVE  Trusted(row)
    BY <1>3, <1>5, <2>2 DEF Sent, CallOf
  <2> QED BY <2>1, <2>2, PlaneMoves
<1>6. ASSUME NEW h \in Holders, work'[h].pc \in Busy, work'[h].row = row, work'[h].token
      PROVE  approval[row].status = "approved"
  BY <1>2, <1>6, TokenMoves DEF Trusted
<1> QED BY <1>1, <1>2, <1>4, <1>5, <1>6 DEF Trusted

LEMMA GatedMeansApproved ==
  ASSUME TypeOK, GatedInv
  PROVE  EffectNeedsApproval
BY LogRows DEF GatedInv, Trusted, Logged, EffectNeedsApproval

(* A gated step takes effect only after a human approved it, and stays     *)
(* approved: the token carries the approval read at the gate, and a        *)
(* statement given up was sent with it.                                    *)
THEOREM ApprovalFirst == Spec => []EffectNeedsApproval
<1>1. Init => GatedInv
  BY DEF Init, GatedInv, Trusted, Logged, Idle, Busy
<1>2. IInv /\ EnqueuedInv /\ GatedInv /\ [Next]_vars => GatedInv'
  BY NextKeepsGated DEF IInv
<1>3. TypeOK /\ GatedInv => EffectNeedsApproval
  BY GatedMeansApproved
<1> QED BY <1>1, <1>2, <1>3, Invariance, EnqueuedInvariance, TypeCorrect, PTL DEF Spec

=============================================================================
