------------------------------ MODULE Workflow ------------------------------
(***************************************************************************)
(* The workflow plane: durable runs of a reviewed definition, advanced one *)
(* step at a time by a worker loop inside the auth process.                *)
(*                                                                         *)
(* The durable state is migrations 0034-0039 (runs, steps, approvals); one *)
(* SQL function is one atomic action here.  The worker is                  *)
(* services/auth-api/app/workflow_worker.py: each of its database calls    *)
(* and its one HTTP call to the agent plane is an action of its own, so a  *)
(* cancel, a decision, a revocation, a crash or the lapse of its lease may *)
(* fall between any two of them.                                           *)
(*                                                                         *)
(* Time is not a number.  Every deadline of the code (lease_until,         *)
(* resume_after, expires_at, started_at + timeout) is a Boolean that some  *)
(* later action turns, so the deadlines may pass in any order.             *)
(***************************************************************************)
EXTENDS Naturals, Sequences, FiniteSets

CONSTANTS
  Runs,         \* the runs that may be enqueued
  Holders,      \* worker identities: one per incarnation of the loop
  Definitions,  \* the installed definitions, each a sequence of elements
  MaxSteps,     \* the most steps a definition has
  MaxLive,      \* bound: incarnations alive at once (1 as deployed)
  MaxAttempts,  \* bound: claims after which a live worker's lease holds
  MaxUpstream,  \* bound: calls given up whose statements are on their way
  None          \* no holder, no row

Kinds == {"read", "write", "wait", "event"}

(* One compiled element of a definition: what the step does, whether it    *)
(* declares an approval, whether its tool is one of the release's own two  *)
(* writes, which claim the call's key (a project's function claims none),  *)
(* its retry budget, whether it declares a compensation, and the same of   *)
(* that compensation's tool and retries.                                   *)
Element == [kind: Kinds, gated: BOOLEAN, keyed: BOOLEAN, retry: Nat,
            undo: BOOLEAN, undoKeyed: BOOLEAN, undoRetry: Nat]

ASSUME RunsAssumption == IsFiniteSet(Runs)
ASSUME StepsAssumption == MaxSteps \in Nat \ {0}
ASSUME NoneAssumption == None \notin Holders

(* The compiler refuses an empty definition, a compensation of a step that *)
(* is not a write, and an approval on one.                                 *)
ASSUME DefinitionsAssumption ==
  \A d \in Definitions :
    /\ d \in Seq(Element)
    /\ Len(d) \in 1..MaxSteps
    /\ \A i \in 1..Len(d) : d[i].gated \/ d[i].undo => d[i].kind = "write"

Positions == 1..MaxSteps
Phases == {"forward", "undo"}

(* A step row.  The undo row of position i is the one the code names       *)
(* undo-<i>; its position 1000+n runs against the forward order.           *)
Rows == [run: Runs, phase: Phases, pos: Positions]

(* The one tools/call a claim of a row may make.                           *)
Calls == [row: Rows, attempt: Nat]
Forward(r, i) == [run |-> r, phase |-> "forward", pos |-> i]
Undo(r, i) == [run |-> r, phase |-> "undo", pos |-> i]

Ended == {"succeeded", "failed", "cancelled", "stopped"}
RunStatus == {"none", "queued", "running", "compensating"} \cup Ended
StepStatus == {"absent", "queued", "claimed", "parked", "succeeded", "failed"}
Decided == {"approved", "rejected"}
ApprovalStatus == {"none", "pending", "expired", "withdrawn"} \cup Decided

Good == {"succeeded", "dry_run"}
Outcomes == Good \cup {"failed", "refused", "token_refused", "abandoned"}
Deferrals == {"park", "wait", "await", "request"}

VARIABLES
  run,       \* workflow_run
  step,      \* workflow_step, with the last attempt row of each
  approval,  \* workflow_approval, one per step
  work,      \* the loop of each holder: where process() is, and what it holds
  active,    \* whether the agent of the runs may act
  upstream,  \* the calls given up whose statement may still run
  ledger,    \* agent_idempotency: the keys the release's writes claimed
  log        \* history: the calls whose effect was committed, in order

vars == <<run, step, approval, work, active, upstream, ledger, log>>

RunRecord == [status: RunStatus, body: Definitions \cup {<<>>}, dry: BOOLEAN,
              created: Nat, cancel: BOOLEAN, late: BOOLEAN,
              cause: {"none", "failed", "cancelled"},
              outcome: {"none", "complete", "incomplete"}]

StepRecord == [status: StepStatus, holder: Holders \cup {None}, live: BOOLEAN,
               due: BOOLEAN, attempt: Nat, logged: Nat, waited: BOOLEAN,
               await: {"no", "waiting", "served"}]

ApprovalRecord == [status: ApprovalStatus, open: BOOLEAN]

WorkRecord == [pc: {"unborn", "idle", "withdraw", "gate", "mint", "call",
                    "close", "record", "dead"},
               row: Rows \cup {None}, attempt: Nat, token: BOOLEAN,
               verdict: Outcomes \cup Deferrals \cup {"none"}]

TypeOK ==
  /\ run \in [Runs -> RunRecord]
  /\ step \in [Rows -> StepRecord]
  /\ approval \in [Rows -> ApprovalRecord]
  /\ work \in [Holders -> WorkRecord]
  /\ active \in BOOLEAN
  /\ upstream \subseteq Calls
  /\ ledger \subseteq {<<row>> : row \in Rows}
  /\ log \in Seq(Calls)

Absent == [status |-> "absent", holder |-> None, live |-> FALSE, due |-> FALSE,
           attempt |-> 0, logged |-> 0, waited |-> FALSE, await |-> "no"]
NewStep == [Absent EXCEPT !.status = "queued"]
Idle == [pc |-> "idle", row |-> None, attempt |-> 0, token |-> FALSE,
         verdict |-> "none"]

Init ==
  /\ run = [r \in Runs |->
              [status |-> "none", body |-> <<>>, dry |-> FALSE, created |-> 0,
               cancel |-> FALSE, late |-> FALSE, cause |-> "none",
               outcome |-> "none"]]
  /\ step = [row \in Rows |-> Absent]
  /\ approval = [row \in Rows |-> [status |-> "none", open |-> FALSE]]
  /\ work = [h \in Holders |-> [Idle EXCEPT !.pc = "unborn"]]
  /\ active = TRUE
  /\ upstream = {}
  /\ ledger = {}
  /\ log = <<>>

-----------------------------------------------------------------------------
(* What a row asks for.                                                    *)

ElementOf(row) == run[row.run].body[row.pos]
KindOf(row) == IF row.phase = "undo" THEN "write" ELSE ElementOf(row).kind
IsGated(row) == row.phase = "forward" /\ ElementOf(row).gated
RetryMax(row) == IF row.phase = "undo" THEN ElementOf(row).undoRetry
                                       ELSE ElementOf(row).retry
Keyed(row) == IF row.phase = "undo" THEN ElementOf(row).undoKeyed
                                    ELSE ElementOf(row).keyed

KeyPerAttempt(call) == <<call.row, call.attempt>>

(* One idempotency key per (run, step) or (run, undo), never per attempt.  *)
KeyOf(call) == <<call.row>>

Unfinished == {"queued", "claimed", "parked"}

NothingInFlight(r) == FALSE

(* A claimed step under an unexpired lease: a call may be upstream.        *)
InFlight(r) == \E row \in Rows : /\ row.run = r
                                 /\ step[row].status = "claimed"
                                 /\ step[row].live

-----------------------------------------------------------------------------
(* The agent, the approver and the project's own functions.                *)

(* workflow_enqueue: one queued row per element, while the agent may act.  *)
Enqueue(r, d, dry) ==
  /\ active
  /\ run[r].status = "none"
  /\ run' = [run EXCEPT ![r].status = "queued", ![r].body = d, ![r].dry = dry,
                        ![r].created = Cardinality({q \in Runs : run[q].status # "none"})]
  /\ step' = [row \in Rows |->
                IF row.run = r /\ row.phase = "forward" /\ row.pos <= Len(d)
                THEN NewStep ELSE step[row]]
  /\ UNCHANGED <<approval, work, active, upstream, ledger, log>>

(* workflow_cancel: a queued run at once, a running one as an intent the   *)
(* next claim honours, anything else unchanged.                            *)
Cancel(r) ==
  /\ \/ /\ run[r].status = "queued"
        /\ run' = [run EXCEPT ![r].status = "cancelled", ![r].cancel = TRUE]
     \/ /\ run[r].status = "running"
        /\ run' = [run EXCEPT ![r].cancel = TRUE]
  /\ UNCHANGED <<step, approval, work, active, upstream, ledger, log>>

Decidable(row) == /\ approval[row].status = "pending"
                  /\ approval[row].open
                  /\ run[row.run].status = "running"

(* workflow_decide_approval: approving makes a parked step claimable at    *)
(* once; rejecting requests the run's cancel.                              *)
Approve(row) ==
  /\ Decidable(row)
  /\ approval' = [approval EXCEPT ![row].status = "approved"]
  /\ step' = [step EXCEPT ![row].due = @ \/ step[row].status = "parked"]
  /\ UNCHANGED <<run, work, active, upstream, ledger, log>>

Reject(row) ==
  /\ Decidable(row)
  /\ approval' = [approval EXCEPT ![row].status = "rejected"]
  /\ run' = [run EXCEPT ![row.run].cancel = TRUE]
  /\ UNCHANGED <<step, work, active, upstream, ledger, log>>

ServableUnparked(row) == /\ step[row].await = "waiting"
                         /\ run[row.run].status = "running"

(* emit_event: serves the parked waits its payload matches, and makes them *)
(* claimable now.  Which of them it matches is the payload's business.     *)
Servable(row) == /\ step[row].status = "parked"
                 /\ step[row].await = "waiting"
                 /\ run[row.run].status = "running"

Emit(matched) ==
  /\ matched # {}
  /\ \A row \in matched : Servable(row)
  /\ step' = [row \in Rows |->
                IF row \in matched
                THEN [step[row] EXCEPT !.await = "served", !.due = TRUE]
                ELSE step[row]]
  /\ UNCHANGED <<run, approval, work, active, upstream, ledger, log>>

(* The agent is revoked, or made active again.                             *)
SetAgent ==
  /\ active' = ~active
  /\ UNCHANGED <<run, step, approval, work, upstream, ledger, log>>

-----------------------------------------------------------------------------
(* Beginning compensation: called inside a claim and inside a finish.      *)

ToUndoUndone(r, steps) == {i \in 1..Len(run[r].body) : run[r].body[i].undo}

(* The forward steps that succeeded and declare a compensation.            *)
ToUndo(r, steps) ==
  {i \in 1..Len(run[r].body) : /\ steps[Forward(r, i)].status = "succeeded"
                               /\ run[r].body[i].undo}

(* With nothing to undo the run takes its cause directly.                  *)
BegunRun(r, cause, steps) ==
  IF ToUndo(r, steps) = {}
  THEN [run[r] EXCEPT !.status = cause]
  ELSE [run[r] EXCEPT !.status = "compensating", !.cause = cause]

(* One undo row per step to undo, in every run of the set.                 *)
BegunSteps(ending, steps) ==
  [row \in Rows |->
     IF /\ row.run \in ending
        /\ row.phase = "undo"
        /\ row.pos \in ToUndo(row.run, steps)
     THEN NewStep ELSE steps[row]]

-----------------------------------------------------------------------------
(* Claiming a step: the cancels, the timeouts, then at most one row.       *)

Cancelling == {r \in Runs : /\ run[r].cancel
                            /\ run[r].status \in {"queued", "running"}
                            /\ ~InFlight(r)}
TimedOut == {r \in Runs \ Cancelling : /\ run[r].status = "running"
                                       /\ run[r].late
                                       /\ ~InFlight(r)}

(* The runs and the rows once the two passes are done.                     *)
SweptRuns ==
  [r \in Runs |->
     IF r \in Cancelling THEN BegunRun(r, "cancelled", step)
     ELSE IF r \in TimedOut THEN BegunRun(r, "failed", step)
     ELSE run[r]]
SweptSteps == BegunSteps(Cancelling \cup TimedOut, step)

AvailableUnlessHeld(s) == \/ s.status = "queued"
                          \/ s.status = "parked" /\ s.due

Available(s) == \/ s.status = "queued"
                \/ s.status = "parked" /\ s.due
                \/ s.status = "claimed" /\ ~s.live

ForwardTurnSkipping(row, runs, steps) ==
  /\ row.phase = "forward"
  /\ runs[row.run].status \in {"queued", "running"}
  /\ ~runs[row.run].cancel
  /\ \A i \in 1..row.pos - 2 : steps[Forward(row.run, i)].status = "succeeded"

ForwardTurn(row, runs, steps) ==
  /\ row.phase = "forward"
  /\ runs[row.run].status \in {"queued", "running"}
  /\ ~runs[row.run].cancel
  /\ \A i \in 1..row.pos - 1 : steps[Forward(row.run, i)].status = "succeeded"

UndoTurnAscending(row, runs, steps) ==
  /\ row.phase = "undo"
  /\ runs[row.run].status = "compensating"
  /\ \A i \in 1..row.pos - 1 : steps[Undo(row.run, i)].status \notin Unfinished

UndoTurn(row, runs, steps) ==
  /\ row.phase = "undo"
  /\ runs[row.run].status = "compensating"
  /\ \A i \in row.pos + 1..MaxSteps :
        steps[Undo(row.run, i)].status \notin Unfinished

Claimable(runs, steps) ==
  {row \in Rows : /\ Available(steps[row])
                  /\ \/ ForwardTurn(row, runs, steps)
                     \/ UndoTurn(row, runs, steps)}

(* ORDER BY created_at LIMIT 1; within a run at most one row has its turn. *)
Oldest(row, rows, runs) ==
  \A other \in rows : runs[row.run].created <= runs[other.run].created

ClaimedStepUncounted(s, h) ==
  [s EXCEPT !.status = "claimed", !.holder = h, !.live = TRUE, !.due = FALSE,
            !.attempt = IF s.status = "claimed" THEN @ ELSE @ + 1]

ClaimedStep(s, h) ==
  [s EXCEPT !.status = "claimed", !.holder = h, !.live = TRUE, !.due = FALSE,
            !.attempt = @ + 1]

(* Where process() goes with the row it was handed: a rehearsal asks no    *)
(* human and waits for no event.                                           *)
Taken(row, attempt) ==
  LET at(pc, verdict) == [pc |-> pc, row |-> row, attempt |-> attempt,
                          token |-> FALSE, verdict |-> verdict]
  IN CASE run[row.run].dry /\ (IsGated(row) \/ KindOf(row) = "event")
            -> at("record", "dry_run")
       [] ~run[row.run].dry /\ (IsGated(row) \/ KindOf(row) = "event")
            -> at("gate", "none")
       [] KindOf(row) = "wait" -> at("gate", "none")
       [] OTHER -> at("mint", "none")

ClaimStep(h) ==
  /\ work[h].pc = "idle"
  /\ \E row \in Claimable(SweptRuns, SweptSteps) :
       /\ Oldest(row, Claimable(SweptRuns, SweptSteps), SweptRuns)
       /\ step' = [SweptSteps EXCEPT ![row] = ClaimedStep(@, h)]
       /\ run' = [SweptRuns EXCEPT
                    ![row.run].status = IF @ = "queued" THEN "running" ELSE @]
       /\ work' = [work EXCEPT ![h] = Taken(row, SweptSteps[row].attempt + 1)]
  /\ UNCHANGED <<approval, active, upstream, ledger, log>>

(* An iteration whose second pass found a delivery is not an idle one.     *)
ClaimNothing(h) ==
  /\ work[h].pc = "idle"
  /\ Claimable(SweptRuns, SweptSteps) = {}
  /\ run' = SweptRuns
  /\ step' = SweptSteps
  /\ work' \in {work, [work EXCEPT ![h].pc = "withdraw"]}
  /\ UNCHANGED <<approval, active, upstream, ledger, log>>

WithdrawableUncancelled(row) == /\ approval[row].status = "pending"
                                /\ run[row.run].status \in Ended \ {"cancelled"}

Withdrawable(row) == /\ approval[row].status = "pending"
                     /\ run[row.run].status \in Ended

(* The idle iteration's housekeeping: ended runs' pending approvals.       *)
WithdrawEnded(h) ==
  /\ work[h].pc = "withdraw"
  /\ approval' = [row \in Rows |->
                    IF Withdrawable(row)
                    THEN [approval[row] EXCEPT !.status = "withdrawn"]
                    ELSE approval[row]]
  /\ work' = [work EXCEPT ![h] = Idle]
  /\ UNCHANGED <<run, step, active, upstream, ledger, log>>

-----------------------------------------------------------------------------
(* process(): the gate, the token, the call.                               *)

Holds(h, row) == step[row].status = "claimed" /\ step[row].holder = h
InLease(h) == Holds(h, work[h].row) /\ step[work[h].row].live

Record(h, verdict) ==
  work' = [work EXCEPT ![h].pc = "record", ![h].verdict = verdict]

(* A pending approval past its expiry reads expired.                       *)
GateStatus(row) ==
  IF approval[row].status = "pending" /\ ~approval[row].open
  THEN "expired" ELSE approval[row].status

(* Whether the wait was served is an attempt row, not the worker's memory. *)
WaitVerdict(row) == IF step[row].waited THEN "succeeded" ELSE "wait"

(* workflow_gate_state, and what process() does with the answer.           *)
ReadGate(h) ==
  LET row == work[h].row IN
  /\ work[h].pc = "gate"
  /\ \/ /\ ~Holds(h, row)                 \* PT404 restarts the loop
        /\ work' = [work EXCEPT ![h] = Idle]
     \/ /\ Holds(h, row) /\ KindOf(row) = "wait"
        /\ Record(h, WaitVerdict(row))
     \/ /\ Holds(h, row) /\ KindOf(row) = "event"
        /\ \/ /\ step[row].await = "no"
              /\ \E verdict \in {"await", "failed"} : Record(h, verdict)
           \/ /\ step[row].await # "no"
              /\ Record(h, IF step[row].await = "served" THEN "succeeded"
                                                         ELSE "failed")
     \/ /\ Holds(h, row) /\ KindOf(row) = "write"
        /\ work' = [work EXCEPT
             ![h].pc = IF GateStatus(row) \in {"none", "approved"}
                       THEN "mint" ELSE "close",
             ![h].token = GateStatus(row) = "approved"]
  /\ UNCHANGED <<run, step, approval, active, upstream, ledger, log>>

Expirable(row) == approval[row].status = "pending" /\ ~approval[row].open

(* workflow_expire_approval: only a pending row past its expiry moves; the *)
(* step is failed whatever it answered.                                    *)
CloseGate(h) ==
  LET row == work[h].row IN
  /\ work[h].pc = "close"
  /\ approval' =
       IF Holds(h, row) /\ Expirable(row)
       THEN [approval EXCEPT ![row].status = "expired"] ELSE approval
  /\ Record(h, "failed")
  /\ UNCHANGED <<run, step, active, upstream, ledger, log>>

(* workflow_approval_for_token: the decision window is not read again.     *)
Approved(row) == /\ approval[row].status = "approved"
                 /\ run[row.run].status = "running"

(* step_token; then an argument that does not resolve, or a deadline that  *)
(* passed, ends the attempt before the call.  The deadline is the lease    *)
(* less its margin, so it has passed once the lease has.                   *)
Mint(h) ==
  LET row == work[h].row
      issued == active /\ (work[h].token => Approved(row))
  IN
  /\ work[h].pc = "mint"
  /\ \/ ~issued /\ Record(h, "token_refused")
     \/ issued /\ InLease(h) /\ work' = [work EXCEPT ![h].pc = "call"]
     \/ issued /\ Record(h, "failed")
     \/ /\ issued
        /\ work[h].attempt < MaxAttempts \/ ~InLease(h)
        /\ Record(h, "abandoned")
  /\ UNCHANGED <<run, step, approval, active, upstream, ledger, log>>

RetryUnparked(row, attempt) == "retry"

(* A retryable verdict parks while the budget lasts.                       *)
RetryVerdict(row, attempt) ==
  IF attempt <= RetryMax(row) THEN "park" ELSE "failed"

OkVerdict(row) ==
  IF run[row.run].dry /\ KindOf(row) = "write" THEN "dry_run" ELSE "succeeded"

RefusalsScoredOk(row, attempt) ==
  {"refused", RetryVerdict(row, attempt), OkVerdict(row)}

(* What a refusal, a reply nobody can read or a transport failure is taken *)
(* for.                                                                    *)
Refusals(row, attempt) == {"refused", RetryVerdict(row, attempt)}

CallOf(h) == [row |-> work[h].row, attempt |-> work[h].attempt]

(* The write's own transaction.  The release's functions claim the key and *)
(* commit the effect, answer a key already claimed with what it committed, *)
(* and roll a rehearsal back.  A project's function commits its effect each *)
(* time it is called; a rehearsal rolls it back if it reads the header.    *)
Serve(call) ==
  \/ /\ \/ KindOf(call.row) # "write"
        \/ run[call.row.run].dry
        \/ Keyed(call.row) /\ KeyOf(call) \in ledger
     /\ UNCHANGED <<ledger, log>>
  \/ /\ KindOf(call.row) = "write"
     /\ Keyed(call.row) => ~run[call.row.run].dry /\ KeyOf(call) \notin ledger
     /\ ledger' = IF Keyed(call.row) THEN ledger \cup {KeyOf(call)} ELSE ledger
     /\ log' = Append(log, call)

(* require_approval, which a project's gated function calls first: a       *)
(* decision that stands on a run still running.  A profile's approval on a *)
(* release tool is the plane's check of the claim alone.                   *)
Allows(row) == IsGated(row) /\ ~Keyed(row) => Approved(row)

PermittedUnguarded(h) == TRUE

(* The plane refuses a gated call whose token carries no approval.         *)
Permitted(h) ==
  /\ IsGated(work[h].row) => work[h].token
  /\ Allows(work[h].row)

(* The call a worker waits for, once the plane may have passed it on.      *)
Sent(h) ==
  IF /\ work[h].pc = "call"
     /\ KindOf(work[h].row) = "write"
     /\ IsGated(work[h].row) => work[h].token
     /\ Cardinality(upstream) < MaxUpstream
  THEN {CallOf(h)} ELSE {}

(* One tools/call, as the worker learns of it: served, refused for want of *)
(* an approval or of an active agent, or given up.  What was given up may  *)
(* never run, or run later.                                                *)
CallPlane(h) ==
  LET row == work[h].row IN
  /\ work[h].pc = "call"
  /\ \/ /\ active /\ Permitted(h)
        /\ Serve(CallOf(h))
        /\ Record(h, OkVerdict(row))
        /\ UNCHANGED upstream
     \/ /\ active /\ ~Permitted(h)
        /\ Record(h, IF work[h].token THEN "refused" ELSE "request")
        /\ UNCHANGED <<upstream, ledger, log>>
     \/ /\ ~active
        /\ Record(h, "token_refused")
        /\ UNCHANGED <<upstream, ledger, log>>
     \/ /\ \E verdict \in Refusals(row, work[h].attempt) : Record(h, verdict)
        /\ upstream' = upstream \cup Sent(h)
        /\ UNCHANGED <<ledger, log>>
  /\ UNCHANGED <<run, step, approval, active>>

(* The statement of a call given up runs after all, whoever holds the row  *)
(* by now: its transaction checks the agent and the approval again.        *)
Commit(call) ==
  /\ call \in upstream
  /\ active /\ Allows(call.row)
  /\ Serve(call)
  /\ upstream' = upstream \ {call}
  /\ UNCHANGED <<run, step, approval, work, active>>

-----------------------------------------------------------------------------
(* Recording what happened.  Every one of these names its holder, and a    *)
(* holder that lost the row writes nothing (lease_lost).                   *)

Released(s, status) ==
  [s EXCEPT !.status = status, !.holder = None, !.live = FALSE,
            !.logged = s.attempt]

Recording(h, verdicts) == work[h].pc = "record" /\ work[h].verdict \in verdicts

GoIdle(h) == work' = [work EXCEPT ![h] = Idle]

LeaseLost(h) ==
  /\ Recording(h, Outcomes \cup Deferrals)
  /\ ~Holds(h, work[h].row)
  /\ GoIdle(h)
  /\ UNCHANGED <<run, step, approval, active, upstream, ledger, log>>

(* abandoned: nothing was done, so the row is queued again.                *)
FinishAbandoned(h) ==
  LET row == work[h].row IN
  /\ Recording(h, {"abandoned"}) /\ Holds(h, row)
  /\ step' = [step EXCEPT ![row] = Released(@, "queued")]
  /\ GoIdle(h)
  /\ UNCHANGED <<run, approval, active, upstream, ledger, log>>

FinishedStatus(verdict) == IF verdict \in Good THEN "succeeded" ELSE "failed"

AfterUndoFailing(r, verdict, steps) ==
  LET undone == {i \in Positions : steps[Undo(r, i)].status # "absent"}
      unfinished == \E i \in undone : steps[Undo(r, i)].status \in Unfinished
  IN IF verdict = "token_refused"
     THEN [run[r] EXCEPT !.status = "stopped", !.outcome = "incomplete"]
     ELSE IF ~unfinished /\ run[r].status = "compensating"
     THEN [run[r] EXCEPT !.status = run[r].cause, !.outcome = "complete"]
     ELSE run[r]

(* The run's row once an undo is finished.                                 *)
AfterUndo(r, verdict, steps) ==
  LET undone == {i \in Positions : steps[Undo(r, i)].status # "absent"}
      unfinished == \E i \in undone : steps[Undo(r, i)].status \in Unfinished
      complete == \A i \in undone : steps[Undo(r, i)].status = "succeeded"
  IN IF verdict = "token_refused"
     THEN [run[r] EXCEPT !.status = "stopped", !.outcome = "incomplete"]
     ELSE IF ~unfinished /\ run[r].status = "compensating"
     THEN [run[r] EXCEPT !.status = run[r].cause,
                         !.outcome = IF complete THEN "complete" ELSE "incomplete"]
     ELSE run[r]

FinishUndo(h) ==
  LET row == work[h].row
      verdict == work[h].verdict
      steps == [step EXCEPT ![row] = Released(@, FinishedStatus(verdict))]
  IN
  /\ Recording(h, Outcomes \ {"abandoned"}) /\ Holds(h, row)
  /\ row.phase = "undo"
  /\ step' = steps
  /\ run' = [run EXCEPT ![row.run] = AfterUndo(row.run, verdict, steps)]
  /\ GoIdle(h)
  /\ UNCHANGED <<approval, active, upstream, ledger, log>>

GoingAlways(r) == TRUE

(* A run that turned or ended while the call was upstream is left alone.   *)
Going(r) == run[r].status \in {"queued", "running"}

FinishForward(h) ==
  LET row == work[h].row
      r == row.run
      verdict == work[h].verdict
      steps == [step EXCEPT ![row] = Released(@, FinishedStatus(verdict))]
      all == \A i \in 1..Len(run[r].body) : steps[Forward(r, i)].status = "succeeded"
      failing == Going(r) /\ verdict \in {"failed", "refused"}
  IN
  /\ Recording(h, Outcomes \ {"abandoned"}) /\ Holds(h, row)
  /\ row.phase = "forward"
  /\ step' = IF failing THEN BegunSteps({r}, steps) ELSE steps
  /\ run' = [run EXCEPT ![r] =
               IF failing THEN BegunRun(r, "failed", steps)
               ELSE IF Going(r) /\ verdict = "token_refused"
               THEN [run[r] EXCEPT !.status = "stopped"]
               ELSE IF Going(r) /\ verdict \in Good /\ all
               THEN [run[r] EXCEPT !.status = "succeeded"]
               ELSE run[r]]
  /\ GoIdle(h)
  /\ UNCHANGED <<approval, active, upstream, ledger, log>>

(* workflow_park, for a backoff or for a time wait.                        *)
Park(h) ==
  LET row == work[h].row IN
  /\ Recording(h, {"park", "wait"}) /\ Holds(h, row)
  /\ step' = [step EXCEPT ![row] =
                [Released(step[row], "parked") EXCEPT
                   !.waited = @ \/ work[h].verdict = "wait"]]
  /\ GoIdle(h)
  /\ UNCHANGED <<run, approval, active, upstream, ledger, log>>

(* workflow_await_event: the wait starts unserved, then the same park.     *)
AwaitEvent(h) ==
  LET row == work[h].row IN
  /\ Recording(h, {"await"}) /\ Holds(h, row)
  /\ step' = [step EXCEPT ![row] = [Released(step[row], "parked") EXCEPT !.await = "waiting"]]
  /\ GoIdle(h)
  /\ UNCHANGED <<run, approval, active, upstream, ledger, log>>

(* workflow_request_approval: one per step; its expiry is the park's time. *)
RequestApproval(h) ==
  LET row == work[h].row IN
  /\ Recording(h, {"request"}) /\ Holds(h, row)
  /\ approval[row].status = "none"
  /\ approval' = [approval EXCEPT ![row] = [status |-> "pending", open |-> TRUE]]
  /\ step' = [step EXCEPT ![row] = Released(@, "parked")]
  /\ GoIdle(h)
  /\ UNCHANGED <<run, active, upstream, ledger, log>>

-----------------------------------------------------------------------------
(* Deadlines, and the life of the loop.                                    *)

(* lease_until passes: at any time for a dead worker, and for a stalled    *)
(* live one while the row's claims are below the bound MaxAttempts.        *)
LeaseLapses(row) ==
  /\ step[row].status = "claimed" /\ step[row].live
  /\ \/ work[step[row].holder].pc = "dead"
     \/ step[row].attempt < MaxAttempts
  /\ step' = [step EXCEPT ![row].live = FALSE]
  /\ UNCHANGED <<run, approval, work, active, upstream, ledger, log>>

(* resume_after passes; of a pending approval it is the expiry as well.    *)
ResumeDue(row) ==
  /\ step[row].status = "parked" /\ ~step[row].due
  /\ step' = [step EXCEPT ![row].due = TRUE]
  /\ approval' = [approval EXCEPT ![row].open = FALSE]
  /\ UNCHANGED <<run, work, active, upstream, ledger, log>>

(* started_at + timeout_seconds passes.                                    *)
RunOverdue(r) ==
  /\ run[r].status = "running" /\ ~run[r].late
  /\ run' = [run EXCEPT ![r].late = TRUE]
  /\ UNCHANGED <<step, approval, work, active, upstream, ledger, log>>

Alive == {h \in Holders : work[h].pc \notin {"unborn", "dead"}}

(* The process starts, or is restarted under a fresh identity.             *)
Start(h) ==
  /\ work[h].pc = "unborn"
  /\ Cardinality(Alive) < MaxLive
  /\ work' = [work EXCEPT ![h] = Idle]
  /\ UNCHANGED <<run, step, approval, active, upstream, ledger, log>>

(* The process dies anywhere, and what it had sent is on its way; the last *)
(* identity of the model does not die.                                     *)
Crash(h) ==
  /\ h \in Alive
  /\ \E other \in Holders \ {h} : work[other].pc # "dead"
  /\ work' = [work EXCEPT ![h] = [Idle EXCEPT !.pc = "dead"]]
  /\ upstream' = upstream \cup Sent(h)
  /\ UNCHANGED <<run, step, approval, active, ledger, log>>

-----------------------------------------------------------------------------

Work(h) ==
  \/ ClaimStep(h) \/ ClaimNothing(h) \/ WithdrawEnded(h)
  \/ ReadGate(h) \/ CloseGate(h) \/ Mint(h) \/ CallPlane(h)
  \/ LeaseLost(h) \/ FinishAbandoned(h) \/ FinishUndo(h) \/ FinishForward(h)
  \/ Park(h) \/ AwaitEvent(h) \/ RequestApproval(h)

Request ==
  \/ \E r \in Runs, d \in Definitions, dry \in BOOLEAN : Enqueue(r, d, dry)
  \/ \E r \in Runs : Cancel(r)
  \/ \E row \in Rows : Approve(row) \/ Reject(row)
  \/ \E matched \in SUBSET {row \in Rows : Servable(row)} : Emit(matched)
  \/ SetAgent

Clock ==
  \/ \E row \in Rows : LeaseLapses(row) \/ ResumeDue(row)
  \/ \E r \in Runs : RunOverdue(r)

Next ==
  \/ Request
  \/ Clock
  \/ \E call \in upstream : Commit(call)
  \/ \E h \in Holders : Start(h) \/ Crash(h) \/ Work(h)

(* supervise re-enters the loop after every exception, compose restarts    *)
(* the process, and time passes; nobody has to cancel, decide or emit.  An *)
(* iteration that changes nothing is no step, so of Work this also asks    *)
(* that the outbox is not due at every poll.                               *)
Fairness ==
  /\ \A h \in Holders : WF_vars(Start(h)) /\ WF_vars(Work(h))
  /\ \A row \in Rows : WF_vars(ResumeDue(row))
  /\ \A row \in Rows : WF_vars(LeaseLapses(row) /\ work[step[row].holder].pc = "dead")

Spec == Init /\ [][Next]_vars
FairSpec == Spec /\ Fairness

-----------------------------------------------------------------------------
(* Properties.                                                             *)

(* A worker inside its lease is working for a run that is still going the  *)
(* way of its step: no run ends, turns to compensation, is cancelled or    *)
(* timed out while a call may be upstream under an unexpired lease (0034's *)
(* rule for the passes of a claim, and what finish must not break).        *)
LeaseGuardsRun ==
  \A row \in Rows :
    step[row].status = "claimed" /\ step[row].live =>
      run[row.run].status = IF row.phase = "forward" THEN "running"
                                                     ELSE "compensating"

(* A run is sequential: a forward step that was ever claimed has every     *)
(* earlier one succeeded, whatever crashed, parked or was reclaimed.       *)
SequentialForward ==
  \A row \in Rows :
    row.phase = "forward" /\ step[row].attempt > 0 =>
      \A i \in 1..row.pos - 1 : step[Forward(row.run, i)].status = "succeeded"

(* The effect of a row was committed before position n of the log.         *)
DoneBefore(row, n) == \E i \in 1..n - 1 : log[i].row = row

(* However often a step is called -- retries, reclaims, two workers after  *)
(* a lapse, a statement given up that runs beside its repetition -- a      *)
(* write that claims its key takes effect once.                            *)
OneEffectPerKey ==
  \A i, j \in 1..Len(log) :
    log[i].row = log[j].row /\ Keyed(log[i].row) => i = j

(* A write that claims no key may take effect again, but never more often  *)
(* than its step was claimed: each claim's call is committed at most once, *)
(* now or late, whoever was handed the row since.                          *)
OneEffectPerClaim ==
  \A i, j \in 1..Len(log) :
    /\ log[i].attempt \in 1..step[log[i].row].attempt
    /\ log[i] = log[j] => i = j

(* A forward write takes effect only after every write before it in the    *)
(* definition did, whether its call was answered, repeated or given up.    *)
EffectsInOrder ==
  \A j \in 1..Len(log) :
    LET row == log[j].row IN
    row.phase = "forward" /\ ~run[row.run].dry =>
      \A p \in 1..row.pos - 1 :
        run[row.run].body[p].kind = "write" => DoneBefore(Forward(row.run, p), j)

(* A compensation takes effect after the effect it undoes, and after each  *)
(* compensation of a later step that is ever recorded as succeeded: one    *)
(* that failed may still run late, and its run is not reported complete.   *)
UndoInReverse ==
  \A j \in 1..Len(log) :
    LET row == log[j].row IN
    row.phase = "undo" /\ ~run[row.run].dry =>
      /\ DoneBefore(Forward(row.run, row.pos), j)
      /\ \A p \in row.pos + 1..MaxSteps :
           step[Undo(row.run, p)].status = "succeeded"
             => DoneBefore(Undo(row.run, p), j)

(* A write recorded as succeeded has taken effect, unless it was rehearsed:*)
(* a refusal served as a 200 is never scored as a success.                 *)
SucceededMeansDone ==
  \A row \in Rows :
    /\ step[row].status = "succeeded"
    /\ KindOf(row) = "write"
    /\ ~run[row.run].dry
    => DoneBefore(row, Len(log) + 1)

(* compensation_outcome complete: every effect recorded before the run     *)
(* turned is undone; and a run that turned without undo rows says nothing. *)
CompleteMeansUndone ==
  \A r \in Runs : run[r].outcome = "complete" =>
    \A i \in Positions : step[Undo(r, i)].status # "absent" =>
      /\ step[Undo(r, i)].status = "succeeded"
      /\ ~run[r].dry => DoneBefore(Undo(r, i), Len(log) + 1)

(* A gated step takes effect only after a human approved it.               *)
EffectNeedsApproval ==
  \A i \in 1..Len(log) :
    IsGated(log[i].row) => approval[log[i].row].status = "approved"

(* An event wait that was served succeeds or is still going: it is never   *)
(* failed as a timeout.                                                    *)
ServedWaitSucceeds ==
  \A row \in Rows : step[row].await = "served" => step[row].status # "failed"

(* A run that ended stays as it ended.                                     *)
EndedRunStays ==
  [][\A r \in Runs : run[r].status \in Ended => run'[r].status = run[r].status]_vars

(* A human's decision is never rewritten by an expiry or a withdrawal.     *)
DecisionIsFinal ==
  [][\A row \in Rows :
       approval[row].status \in Decided =>
         approval'[row].status = approval[row].status]_vars

(* A run that turns to failed or cancelled takes with it an undo row for   *)
(* each step recorded succeeded that declares one, and for no other.       *)
TurnsWithItsUndo ==
  [][\A r \in Runs :
       /\ run[r].status \in {"queued", "running"}
       /\ run'[r].status \in {"compensating", "failed", "cancelled"}
       => \A i \in 1..Len(run[r].body) :
            (step'[Undo(r, i)].status # "absent") <=>
              (run[r].body[i].undo /\ step'[Forward(r, i)].status = "succeeded")]_vars

(* Every run that is enqueued ends.                                        *)
EveryRunEnds ==
  \A r \in Runs : (run[r].status = "queued") ~> (run[r].status \in Ended)

(* A pending approval of a run that ended is withdrawn or expired.         *)
NoApprovalLeftPending ==
  \A row \in Rows :
    (approval[row].status = "pending" /\ run[row.run].status \in Ended)
      ~> (approval[row].status # "pending")
=============================================================================
