----------------------------- MODULE AgentCalls -----------------------------
(***************************************************************************)
(* One agent's tool calls through the agent plane: the audit record opened *)
(* and the call counted against the window (migration 0028), the per-tool  *)
(* and the process-wide slot (mcp_tools.py, mcp_budgets.py), the write     *)
(* that claims its idempotency key (0029, 0030), and the record closed.    *)
(*                                                                         *)
(* A request to the database has a life of its own: the runtime may stop   *)
(* waiting for it, be cancelled or die, and the statement runs later, or   *)
(* never does, which is how a lost request reads.  The client may repeat a *)
(* call with the key of an earlier one at any time.  A write's transaction *)
(* is one step: two of one key meet on its unique index and two of one     *)
(* task on its row lock.                                                   *)
(***************************************************************************)
EXTENDS Integers, FiniteSets

CONSTANTS
  Calls,       \* the calls made; a note created has its call's name
  Keys,        \* idempotency keys
  Asks,        \* what a call may ask: its tool, and a transition's ends
  Statuses,    \* a task's statuses
  Quota,       \* quota_calls
  MaxWindow,   \* bound: the last window
  Slots,       \* DEFAULT_MAX_CONCURRENT_READS
  ToolSlots,   \* max_concurrent_calls of each tool
  None

Tools == {"query", "create_note", "update_task_status"}
Writes == {"create_note", "update_task_status"}

ASSUME CallsAssumption == IsFiniteSet(Calls)
ASSUME AsksAssumption ==
  /\ Asks \subseteq [tool : Tools, from : Statuses \cup {None}, to : Statuses \cup {None}]
  /\ \A a \in Asks : a.tool = "update_task_status" => {a.from, a.to} \subseteq Statuses
ASSUME BoundsAssumption ==
  /\ Quota \in Nat \ {0} /\ MaxWindow \in Nat
  /\ Slots \in Nat \ {0} /\ ToolSlots \in Nat \ {0} /\ ToolSlots <= Slots
ASSUME NoneAssumption == None \notin Calls /\ "task" \notin Calls /\ None # "task"
ASSUME NoneElsewhere == None \notin Keys /\ None \notin Asks /\ None \notin Statuses

VARIABLES
  call,    \* each call, as the runtime has it
  begin,   \* each call's agent_audit_begin, as the database has it
  write,   \* each call's request to the reviewed operation, and its answer
  audit,   \* each call's agent_plane record
  data,    \* each call's database record, written with its write
  quota,   \* agent_quota: the agent's one row
  now,     \* the current window
  claim,   \* agent_idempotency
  notes,   \* app.notes: the rows the agent's calls created
  task,    \* the status of one task of app.tasks
  free     \* slots not held, process-wide and of each tool

vars == <<call, begin, write, audit, data, quota, now, claim, notes, task, free>>

Rows == Calls \cup {"task", None}

CallRecord ==
  [at: {"idle", "begin", "queued", "tool", "work", "close", "done"}, ask: Asks \cup {None},
   key: Keys \cup {None}, dry: BOOLEAN, recorded: BOOLEAN,
   outcome: {"none", "served", "refused", "failed", "cancelled"}]

BeginRecord == [at: {"no", "sent", "counting", "opened", "over"}, seen: 0..MaxWindow]

WriteRecord ==
  [at: {"no", "sent", "row", "replayed", "rehearsed", "conflict", "bound"}, row: Rows]

NoClaim == [ask |-> None, row |-> None]

TypeOK ==
  /\ call \in [Calls -> CallRecord]
  /\ begin \in [Calls -> BeginRecord]
  /\ write \in [Calls -> WriteRecord]
  /\ audit \in [Calls -> {"none", "started", "served", "refused", "failed"}]
  /\ data \in [Calls -> {"none", "committed", "replayed", "dry_run"}]
  /\ quota \in [window : 0..MaxWindow, calls : Nat]
  /\ now \in 0..MaxWindow
  /\ claim \in [Keys -> [ask : Asks \cup {None}, row : Rows]]
  /\ notes \subseteq Calls
  /\ task \in Statuses
  /\ free \in [all : 0..Slots, tool : [Tools -> 0..ToolSlots]]

Init ==
  /\ call = [c \in Calls |-> [at |-> "idle", ask |-> None, key |-> None, dry |-> FALSE,
                              recorded |-> FALSE, outcome |-> "none"]]
  /\ begin = [c \in Calls |-> [at |-> "no", seen |-> 0]]
  /\ write = [c \in Calls |-> [at |-> "no", row |-> None]]
  /\ audit = [c \in Calls |-> "none"]
  /\ data = [c \in Calls |-> "none"]
  /\ quota = [window |-> 0, calls |-> 0]
  /\ now = 0
  /\ claim = [k \in Keys |-> NoClaim]
  /\ notes = {}
  /\ task \in Statuses
  /\ free = [all |-> Slots, tool |-> [t \in Tools |-> ToolSlots]]

IsWrite(c) == call[c].ask.tool \in Writes

Ends(c, outcome) == call' = [call EXCEPT ![c].at = "done", ![c].outcome = outcome]

-----------------------------------------------------------------------------
(* agent_audit_begin: a statement of its own, counted against the window   *)
(* its clock named.                                                        *)

(* A call arrives: bounded sends agent_audit_begin before anything else.   *)
Call(c) ==
  /\ call[c].at = "idle"
  /\ \E a \in Asks : \E k \in Keys : \E dry \in BOOLEAN :
       /\ a.tool \notin Writes => ~dry
       /\ call' = [call EXCEPT ![c].at = "begin", ![c].ask = a, ![c].key = k, ![c].dry = dry]
  /\ begin' = [begin EXCEPT ![c].at = "sent"]
  /\ UNCHANGED <<write, audit, data, quota, now, claim, notes, task, free>>

ReadWindow(c) ==
  /\ begin[c].at = "sent"
  /\ begin' = [begin EXCEPT ![c] = [at |-> "counting", seen |-> now]]
  /\ UNCHANGED <<call, write, audit, data, quota, now, claim, notes, task, free>>

(* The upsert: the same window counts one more, another starts again.      *)
Counted(window) ==
  [window |-> window, calls |-> IF quota.window = window THEN quota.calls + 1 ELSE 1]

Over(count) == count.calls > Quota

(* Over the bound the refusal is a complete record; otherwise it is open.  *)
Count(c) ==
  LET count == Counted(begin[c].seen) IN
  /\ begin[c].at = "counting"
  /\ quota' = count
  /\ begin' = [begin EXCEPT ![c].at = IF Over(count) THEN "over" ELSE "opened"]
  /\ audit' = [audit EXCEPT ![c] = IF Over(count) THEN "refused" ELSE "started"]
  /\ UNCHANGED <<call, write, data, now, claim, notes, task, free>>

Opened(c) ==
  /\ call[c].at = "begin" /\ begin[c].at = "opened"
  /\ call' = [call EXCEPT ![c].at = "queued", ![c].recorded = TRUE]
  /\ UNCHANGED <<begin, write, audit, data, quota, now, claim, notes, task, free>>

(* NULL: the refusal is recorded already, and nothing is to be closed.     *)
QuotaSpent(c) ==
  /\ call[c].at = "begin" /\ begin[c].at = "over"
  /\ Ends(c, "refused")
  /\ UNCHANGED <<begin, write, audit, data, quota, now, claim, notes, task, free>>

(* begin refused, timed out or its answer lost: a write does not happen,   *)
(* a read carries on (FAIL_CLOSED_KINDS).                                  *)
NotOpened(c) ==
  /\ call[c].at = "begin"
  /\ IF IsWrite(c) THEN Ends(c, "refused")
     ELSE call' = [call EXCEPT ![c].at = "queued"]
  /\ UNCHANGED <<begin, write, audit, data, quota, now, claim, notes, task, free>>

-----------------------------------------------------------------------------
(* The slots, the tool's own before the process-wide one, and the work.    *)

TakeToolSlot(c) ==
  LET t == call[c].ask.tool IN
  /\ call[c].at = "queued" /\ free.tool[t] > 0
  /\ call' = [call EXCEPT ![c].at = "tool"]
  /\ free' = [free EXCEPT !.tool[t] = @ - 1]
  /\ UNCHANGED <<begin, write, audit, data, quota, now, claim, notes, task>>

(* The thread is started with both slots held: the request is sent.        *)
TakeSlot(c) ==
  /\ call[c].at = "tool" /\ free.all > 0
  /\ call' = [call EXCEPT ![c].at = "work"]
  /\ free' = [free EXCEPT !.all = @ - 1]
  /\ write' = [write EXCEPT ![c].at = "sent"]
  /\ UNCHANGED <<begin, audit, data, quota, now, claim, notes, task>>

ReleasedAfterWork(c) ==
  LET t == call[c].ask.tool IN
  IF call[c].at = "work" /\ write[c].at \notin {"conflict", "bound"}
  THEN [all |-> free.all + 1, tool |-> [free.tool EXCEPT ![t] = @ + 1]] ELSE free

ReleasedFromQueue(c) ==
  LET t == call[c].ask.tool IN
  CASE call[c].at = "work" -> [all |-> free.all + 1, tool |-> [free.tool EXCEPT ![t] = @ + 1]]
    [] call[c].at \in {"queued", "tool"} -> [free EXCEPT !.tool[t] = @ + 1]
    [] OTHER -> free

(* What `async with` gives back when a call leaves it, however it leaves.  *)
Released(c) ==
  LET t == call[c].ask.tool IN
  CASE call[c].at = "work" -> [all |-> free.all + 1, tool |-> [free.tool EXCEPT ![t] = @ + 1]]
    [] call[c].at = "tool" -> [free EXCEPT !.tool[t] = @ + 1]
    [] OTHER -> free

Leaves(c, outcomes) ==
  /\ call[c].at = "work"
  /\ \E o \in outcomes : call' = [call EXCEPT ![c].at = "close", ![c].outcome = o]
  /\ free' = Released(c)
  /\ UNCHANGED <<begin, write, audit, data, quota, now, claim, notes, task>>

(* One row came back; it may still break the lock's bounds, and is refused.*)
Served(c) == write[c].at \in {"row", "replayed", "rehearsed"} /\ Leaves(c, {"served", "refused"})

(* A translated PT409 or PT412.                                            *)
Refused(c) == write[c].at \in {"conflict", "bound"} /\ Leaves(c, {"refused"})

(* No answer within the timeout, or one nobody can read: UPSTREAM_REFUSED, *)
(* or an exception nobody classified.  What was sent may still run.        *)
Unanswered(c) == Leaves(c, {"refused", "failed"})

(* _close: agent_audit_complete closes a started record; its failure is    *)
(* swallowed, and the call ends as it was going to.                        *)
Closes(c) == call[c].recorded /\ audit[c] = "started"

Close(c) ==
  /\ call[c].at = "close"
  /\ call' = [call EXCEPT ![c].at = "done"]
  /\ \E landed \in BOOLEAN :
       audit' = IF landed /\ Closes(c) THEN [audit EXCEPT ![c] = call[c].outcome] ELSE audit
  /\ UNCHANGED <<begin, write, data, quota, now, claim, notes, task, free>>

(* The tool's own timeout, the client leaving, or the process dying: the   *)
(* slots are given back, the record is left, the thread's request goes on. *)
Cancelled(c) ==
  /\ call[c].at \in {"begin", "queued", "tool", "work", "close"}
  /\ Ends(c, "cancelled")
  /\ free' = Released(c)
  /\ UNCHANGED <<begin, write, audit, data, quota, now, claim, notes, task>>

-----------------------------------------------------------------------------
(* The reviewed operations, in the database.                               *)

Sent(c, tools) == write[c].at = "sent" /\ call[c].ask.tool \in tools

Answers(c, at, r) == write' = [write EXCEPT ![c] = [at |-> at, row |-> r]]

Query(c) ==
  /\ Sent(c, {"query"})
  /\ Answers(c, "row", None)
  /\ UNCHANGED <<call, begin, audit, data, quota, now, claim, notes, task, free>>

(* The compare-and-swap of a transition; a note is always accepted.        *)
Fits(c) == call[c].ask.tool = "update_task_status" => task = call[c].ask.from

RowOf(c) == IF call[c].ask.tool = "create_note" THEN c ELSE "task"

ClaimsNothing(c) == claim
Claims(c) == [claim EXCEPT ![call[c].key] = [ask |-> call[c].ask, row |-> RowOf(c)]]

RehearseClaiming(c) ==
  /\ Sent(c, Writes) /\ call[c].dry /\ Fits(c)
  /\ Answers(c, "rehearsed", None)
  /\ claim' = Claims(c)
  /\ data' = [data EXCEPT ![c] = "dry_run"]
  /\ UNCHANGED <<call, begin, audit, quota, now, notes, task, free>>

(* A rehearsal runs the write inside a block it rolls back: it claims no   *)
(* key, and a created row's id is nulled.                                  *)
Rehearse(c) ==
  /\ Sent(c, Writes) /\ call[c].dry /\ Fits(c)
  /\ Answers(c, "rehearsed", IF call[c].ask.tool = "create_note" THEN None ELSE "task")
  /\ data' = [data EXCEPT ![c] = "dry_run"]
  /\ UNCHANGED <<call, begin, audit, quota, now, claim, notes, task, free>>

(* The key decides before the compare-and-swap does.                       *)
SpentIfItFits(c) == ~call[c].dry /\ claim[call[c].key] # NoClaim /\ Fits(c)
Spent(c) == ~call[c].dry /\ claim[call[c].key] # NoClaim

SameCall(c) == claim[call[c].key].ask = call[c].ask

Replay(c) ==
  /\ Sent(c, Writes) /\ Spent(c) /\ SameCall(c)
  /\ Answers(c, "replayed", claim[call[c].key].row)
  /\ data' = [data EXCEPT ![c] = "replayed"]
  /\ UNCHANGED <<call, begin, audit, quota, now, claim, notes, task, free>>

(* AP412: the key was used for a different call.                           *)
BoundElsewhere(c) ==
  /\ Sent(c, Writes) /\ Spent(c) /\ ~SameCall(c)
  /\ Answers(c, "bound", None)
  /\ UNCHANGED <<call, begin, audit, data, quota, now, claim, notes, task, free>>

(* AP409 raises: the claim made above it is rolled back with it.           *)
Conflict(c) ==
  /\ Sent(c, Writes) /\ ~Spent(c) /\ ~Fits(c)
  /\ Answers(c, "conflict", None)
  /\ UNCHANGED <<call, begin, audit, data, quota, now, claim, notes, task, free>>

Commit(c) ==
  /\ Sent(c, Writes) /\ ~call[c].dry /\ ~Spent(c) /\ Fits(c)
  /\ Answers(c, "row", RowOf(c))
  /\ claim' = Claims(c)
  /\ notes' = IF call[c].ask.tool = "create_note" THEN notes \cup {c} ELSE notes
  /\ task' = IF call[c].ask.tool = "create_note" THEN task ELSE call[c].ask.to
  /\ data' = [data EXCEPT ![c] = "committed"]
  /\ UNCHANGED <<call, begin, audit, quota, now, free>>

(* The same reviewed operations called by a person: no key, no record.     *)
Person ==
  /\ \E s \in Statuses \ {task} : task' = s
  /\ UNCHANGED <<call, begin, write, audit, data, quota, now, claim, notes, free>>

NextWindow ==
  /\ now < MaxWindow
  /\ now' = now + 1
  /\ UNCHANGED <<call, begin, write, audit, data, quota, claim, notes, task, free>>

Runtime(c) ==
  \/ Call(c) \/ Opened(c) \/ QuotaSpent(c) \/ NotOpened(c) \/ TakeToolSlot(c) \/ TakeSlot(c)
  \/ Served(c) \/ Refused(c) \/ Unanswered(c) \/ Close(c) \/ Cancelled(c)

Database(c) ==
  \/ ReadWindow(c) \/ Count(c) \/ Query(c)
  \/ Rehearse(c) \/ Replay(c) \/ BoundElsewhere(c) \/ Conflict(c) \/ Commit(c)

Next == (\E c \in Calls : Runtime(c) \/ Database(c)) \/ Person \/ NextWindow

Spec == Init /\ [][Next]_vars

(* Every wait of the runtime has a timeout: a request is answered or given *)
(* up.  An asyncio semaphore wakes its waiters in order, so a call whose   *)
(* slot is free again and again is given it.  Nobody is cancelled by rule. *)
Fairness == \A c \in Calls :
  /\ WF_vars(Opened(c) \/ QuotaSpent(c) \/ NotOpened(c))
  /\ SF_vars(TakeToolSlot(c)) /\ SF_vars(TakeSlot(c))
  /\ WF_vars(Served(c) \/ Refused(c) \/ Unanswered(c))
  /\ WF_vars(Close(c))

FairSpec == Spec /\ Fairness

-----------------------------------------------------------------------------
Committed(c) == data[c] = "committed"
SameIntent(c, d) == call[c].key = call[d].key /\ call[c].ask = call[d].ask

(* However often a call is repeated with its key, and whatever was lost or *)
(* ran late, one call of the key writes (0029's claim).                    *)
WriteOnce ==
  \A c, d \in Calls : Committed(c) /\ Committed(d) /\ call[c].key = call[d].key => c = d

(* A record closed as served is true: the write it describes is committed, *)
(* by this call or by the one it repeats, and a rehearsal changed nothing. *)
ServedIsTrue ==
  \A c \in Calls : audit[c] = "served" /\ IsWrite(c) =>
    IF call[c].dry THEN ~Committed(c) /\ c \notin notes
    ELSE \E d \in Calls : Committed(d) /\ SameIntent(c, d) /\ ~call[d].dry

(* The calls let through in one window are at most quota_calls (0028:72).  *)
QuotaHeld ==
  \A w \in 0..MaxWindow :
    Cardinality({c \in Calls : begin[c].at = "opened" /\ begin[c].seen = w}) <= Quota

(* A call repeated after its write has committed is told of that row, and  *)
(* never that the write conflicts with itself (0030's claim before CAS).   *)
RepeatIsReplayed ==
  [][\A c \in Calls :
       /\ Sent(c, Writes) /\ ~call[c].dry /\ claim[call[c].key].ask = call[c].ask
       /\ write'[c].at # "sent"
       => write'[c].at = "replayed" /\ write'[c].row = claim[call[c].key].row]_vars

(* Every call ends: nobody waits for ever for a slot (mcp_tools.py:865-878)*)
EveryCallEnds == \A c \in Calls : call[c].at = "begin" ~> call[c].at = "done"
=============================================================================
