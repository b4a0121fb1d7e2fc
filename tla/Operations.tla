----------------------------- MODULE Operations -----------------------------
(***************************************************************************)
(* The control plane's operations: members ask for one over /v1 (a row,    *)
(* migrations 0004 and 0011 of the control project), the reconciler on the *)
(* host claims the oldest, runs the commands its type names against one    *)
(* slot, and finishes the row (bin/reconciler.py).  It never resumes: what *)
(* is still running when a reconciler starts is finished as interrupted,   *)
(* and the slot of an interrupted creation is put out of use.              *)
(*                                                                         *)
(* Two reconcilers exist: the unit, restarted by systemd, and a `once` an  *)
(* operator starts.  Either may die between any two of its calls, and a    *)
(* command it was running may then have had its effect or not.  A control  *)
(* database that stops answering ends the process as well, so it is the    *)
(* same event.                                                             *)
(***************************************************************************)
EXTENDS Naturals, Sequences, FiniteSets

CONSTANTS
  Orgs,     \* organisations
  Slots,    \* the declared slots; a project's key is its slot's
  Founded,  \* the slots that already hold a project, each with its organisation
  Limit,    \* the plan's projects_active of each organisation
  MaxOps,   \* bound: operations asked for
  MaxDeaths,\* bound: deaths of a reconciler
  MaxOnce,  \* bound: times an operator starts a `once`
  Beside,   \* a reconciler may start while another works
  None      \* no slot, no organisation, no code

ASSUME BoundAssumption == MaxOps \in Nat /\ MaxDeaths \in Nat /\ MaxOnce \in Nat
ASSUME FoundedAssumption == DOMAIN Founded \subseteq Slots /\ \A s \in DOMAIN Founded : Founded[s] \in Orgs
ASSUME LimitAssumption == Limit \in [Orgs -> Nat]
ASSUME SlotsAssumption == IsFiniteSet(Slots)
ASSUME NoneAssumption == None \notin Slots /\ None \notin Orgs
ASSUME BesideAssumption == Beside \in BOOLEAN

Ids == 1..MaxOps
Earlier == MaxOps + 1      \* a creation older than the model's history
Reconcilers == {"unit", "once"}

VARIABLES
  ops,     \* control_operations, in the order they were asked for
  reg,     \* control_projects: each slot's row, and whose it is
  disk,    \* each slot on the host: its files, its containers, its units
  offered, \* the recorded slot reading names a ready slot, and is not stale
  rec,     \* each reconciler: where it is in its program
  lock,    \* who holds reconciler.lock
  tenants, \* history: the creations that deployed on each slot
  deaths, onces

vars == <<ops, reg, disk, offered, rec, lock, tenants, deaths, onces>>

DeleteStepsRegistryFirst == <<"retire", "unregister", "tombstone">>

DeleteSteps == <<"retire", "tombstone", "unregister">>

(* reconciler_dispatch.STEPS, the allocation in its three writes.          *)
Steps == [
  create |-> <<"allocate", "profile", "key", "admit", "deploy-1", "admin", "ports", "deploy-2",
               "enable", "backup", "registry">>,
  sleep  |-> <<"unschedule", "disable", "stop">>,
  wake   |-> <<"start", "enable", "schedule">>,
  resize |-> <<"candidate", "redeploy", "registry">>,
  export |-> <<"dump", "upload">>,
  delete |-> DeleteSteps]

Types == DOMAIN Steps
StepNames == UNION {{Steps[t][n] : n \in 1..Len(Steps[t])} : t \in Types}
Codes == {"capacity_exhausted", "invalid_request", "operation_failed",
          "could_not_determine", "interrupted"}
ASSUME CodesAssumption == None \notin Codes /\ None \notin Reconcilers

Places == {"off", "recover", "quarantine", "idle", "begin", "act", "restore", "unmark",
           "finish", "record"}

Open(op) == op.status \in {"pending", "running"}
Ended(op) == op.status \in {"succeeded", "failed", "cancelled"}

OpRecord ==
  [type: Types \cup {"none"}, org: Orgs \cup {None}, key: Slots \cup {None},
   status: {"none", "pending", "running", "succeeded", "failed", "cancelled"},
   code: Codes \cup {None}, attempt: Nat, by: Reconcilers \cup {None}]

SlotRecord ==
  [marker: 0..Earlier, prepared: BOOLEAN, quarantined: BOOLEAN, consumed: BOOLEAN,
   retirement: BOOLEAN, deployed: BOOLEAN, up: BOOLEAN, unit: BOOLEAN, timers: BOOLEAN]

RecRecord ==
  [at: Places, op: 0..MaxOps, step: 0..Len(Steps.create), slot: Slots \cup {None},
   code: Codes \cup {None}, todo: SUBSET Ids]

(* The table's CHECK: a failed row has a code, and no other row does.      *)
FailedHasCode == \A o \in Ids : (ops[o].status = "failed") <=> (ops[o].code # None)

TypeOK ==
  /\ ops \in [Ids -> OpRecord]
  /\ reg \in [Slots -> [row: {"absent", "live", "deleted"}, org: Orgs \cup {None}]]
  /\ disk \in [Slots -> SlotRecord]
  /\ offered \in BOOLEAN
  /\ rec \in [Reconcilers -> RecRecord]
  /\ lock \in Reconcilers \cup {None}
  /\ tenants \in [Slots -> SUBSET (1..Earlier)]
  /\ deaths \in Nat /\ onces \in Nat
  /\ FailedHasCode

NoOp == [type |-> "none", org |-> None, key |-> None, status |-> "none", code |-> None,
         attempt |-> 0, by |-> None]

FreshSlot == [marker |-> 0, prepared |-> TRUE, quarantined |-> FALSE, consumed |-> FALSE,
              retirement |-> FALSE, deployed |-> FALSE, up |-> FALSE, unit |-> FALSE,
              timers |-> FALSE]

Occupied == [marker |-> Earlier, prepared |-> FALSE, quarantined |-> FALSE, consumed |-> FALSE,
             retirement |-> FALSE, deployed |-> TRUE, up |-> TRUE, unit |-> TRUE,
             timers |-> TRUE]

At(place) == [at |-> place, op |-> 0, step |-> 0, slot |-> None, code |-> None, todo |-> {}]

Init ==
  /\ ops = [o \in Ids |-> NoOp]
  /\ reg = [s \in Slots |-> IF s \in DOMAIN Founded
                            THEN [row |-> "live", org |-> Founded[s]]
                            ELSE [row |-> "absent", org |-> None]]
  /\ disk = [s \in Slots |-> IF s \in DOMAIN Founded THEN Occupied ELSE FreshSlot]
  /\ offered = FALSE
  /\ rec = [p \in Reconcilers |-> At("off")]
  /\ lock = None
  /\ tenants = [s \in Slots |-> IF s \in DOMAIN Founded THEN {Earlier} ELSE {}]
  /\ deaths = 0 /\ onces = 0

-----------------------------------------------------------------------------
(* A slot's state, and the members' requests.                              *)

SlotStateIgnoringMarker(d) ==
  IF d.consumed THEN "consumed" ELSE IF d.quarantined THEN "quarantined"
  ELSE IF d.deployed THEN "allocated" ELSE "ready"

(* slot.state() of a prepared slot; its DNS may keep it from being ready.  *)
SlotState(d) ==
  IF d.consumed THEN "consumed" ELSE IF d.quarantined THEN "quarantined"
  ELSE IF d.deployed \/ d.marker # 0 THEN "allocated" ELSE "ready"

Ready == {s \in Slots : SlotState(disk[s]) = "ready"}

LiveOf(g) == {s \in Slots : reg[s].row = "live" /\ reg[s].org = g}

(* control_states.project_state: the last operation on the key that decides *)
(* anything decides its state.                                             *)
NothingRanLoose == {"capacity_exhausted", "invalid_request", "operation_failed"}

NothingRan == {"capacity_exhausted", "invalid_request"}

Undecided(op) ==
  \/ op.status \in {"none", "pending", "cancelled"}
  \/ op.status = "running" /\ op.type = "export"
  \/ op.status = "failed" /\ op.code \in NothingRan

Running == [create |-> "creating", sleep |-> "suspending", wake |-> "starting",
            resize |-> "updating", delete |-> "deleting"]

Succeeded == [create |-> "ready", wake |-> "ready", resize |-> "ready", export |-> "ready",
              sleep |-> "sleeping", delete |-> "deleted"]

ProjectState(s) ==
  LET deciding == {o \in Ids : ops[o].key = s /\ ~Undecided(ops[o])}
      last == CHOOSE o \in deciding : \A other \in deciding : other <= o
  IN IF deciding = {} THEN "ready"
     ELSE IF ops[last].status = "running" THEN Running[ops[last].type]
     ELSE IF ops[last].status = "succeeded" THEN Succeeded[ops[last].type]
     ELSE "unknown"

HeldAwake(g) == Cardinality({s \in LiveOf(g) : ProjectState(s) # "sleeping"})

(* What counts against the plan: live projects, and open creations that    *)
(* are not in the registry yet.                                            *)
Held(g) ==
  Cardinality(LiveOf(g))
  + Cardinality({o \in Ids : /\ ops[o].type = "create" /\ ops[o].org = g /\ Open(ops[o])
                             /\ ops[o].key = None \/ reg[ops[o].key].row = "absent"})

Asked == {o \in Ids : ops[o].status # "none"}

Insert(t, g, s) ==
  /\ Cardinality(Asked) < MaxOps
  /\ ops' = [ops EXCEPT ![Cardinality(Asked) + 1] =
                          [NoOp EXCEPT !.type = t, !.org = g, !.key = s, !.status = "pending"]]
  /\ UNCHANGED <<reg, disk, offered, rec, lock, tenants, deaths, onces>>

(* create_project, then control_request_operation under the organisation's *)
(* row lock.  The slot reading is the recorded one, whatever it has become.*)
RequestCreation(g) ==
  /\ offered
  /\ Held(g) < Limit[g]
  /\ ~ \E o \in Ids : ops[o].type = "create" /\ ops[o].org = g /\ Open(ops[o])
  /\ Insert("create", g, None)

(* write_project: the organisation's own live project, with nothing open.  *)
RequestWrite(t, s) ==
  /\ reg[s].row = "live"
  /\ ~ \E o \in Ids : ops[o].key = s /\ Open(ops[o])
  /\ Insert(t, reg[s].org, s)

CancellableAnyOpen(o) == Open(ops[o])

Cancellable(o) == ops[o].status = "pending"

Cancel(o) ==
  /\ Cancellable(o)
  /\ ops' = [ops EXCEPT ![o].status = "cancelled"]
  /\ UNCHANGED <<reg, disk, offered, rec, lock, tenants, deaths, onces>>

-----------------------------------------------------------------------------
(* A reconciler starts, recovers, and dies.                                *)

Working(p) == rec[p].at \in {"begin", "act", "restore", "unmark", "finish"}

InterruptedNone == {}

Interrupted == {o \in Ids : ops[o].status = "running"}

(* start(): the rows still running are read, the lock is not taken.  With  *)
(* Beside false nobody starts a reconciler while another works.            *)
Start(p) ==
  /\ rec[p].at = "off"
  /\ Beside \/ \A q \in Reconcilers : rec[q].at \in {"off", "idle"}
  /\ p = "once" => onces < MaxOnce
  /\ onces' = IF p = "once" THEN onces + 1 ELSE onces
  /\ rec' = [rec EXCEPT ![p] = [At("recover") EXCEPT !.todo = Interrupted]]
  /\ UNCHANGED <<ops, reg, disk, offered, lock, tenants, deaths>>

RepairedPending(op) == [op EXCEPT !.status = "pending"]

RepairedUncoded(op) == [op EXCEPT !.status = "failed"]

Repaired(op) == [op EXCEPT !.status = "failed", !.code = "interrupted"]

First(o, set) == o \in set /\ \A other \in set : o <= other

(* recover(): the next row finished; one that is no longer running refuses *)
(* the finish, and the process ends.                                       *)
Recover(p) ==
  /\ rec[p].at = "recover"
  /\ \E o \in Ids : First(o, rec[p].todo) /\
       IF ops[o].status = "running"
       THEN /\ ops' = [ops EXCEPT ![o] = Repaired(@)]
            /\ rec' = [rec EXCEPT ![p].op = o, ![p].todo = @ \ {o},
                                  ![p].at = IF ops[o].type = "create" THEN "quarantine" ELSE @]
       ELSE /\ rec' = [rec EXCEPT ![p] = At("off")]
            /\ UNCHANGED ops
  /\ UNCHANGED <<reg, disk, offered, lock, tenants, deaths, onces>>

(* quarantine(): the slot whose marker names the creation, else its key's. *)
Quarantine(p) ==
  /\ rec[p].at = "quarantine"
  /\ LET o == rec[p].op
         marked == {s \in Slots : disk[s].marker = o}
         taken == IF marked # {} THEN marked ELSE {ops[o].key} \ {None}
     IN disk' = [s \in Slots |-> IF s \in taken THEN [disk[s] EXCEPT !.quarantined = TRUE]
                                                ELSE disk[s]]
  /\ rec' = [rec EXCEPT ![p].at = "recover"]
  /\ UNCHANGED <<ops, reg, offered, lock, tenants, deaths, onces>>

Recovered(p) ==
  /\ rec[p].at = "recover" /\ rec[p].todo = {}
  /\ rec' = [rec EXCEPT ![p] = At("record")]
  /\ UNCHANGED <<ops, reg, disk, offered, lock, tenants, deaths, onces>>

(* record_slots: what is ready now, less what its DNS hides; or the call   *)
(* fails and the reading stays, to grow stale.                             *)
Read == /\ offered' \in BOOLEAN
        /\ offered' => offered \/ Ready # {}

(* After a start, or at the end of a cycle, which releases the lock; a     *)
(* `once` is then done.                                                    *)
Record(p) ==
  /\ rec[p].at = "record"
  /\ Read
  /\ rec' = [rec EXCEPT ![p] = IF p = "once" /\ lock = p THEN At("off") ELSE At("idle")]
  /\ lock' = IF lock = p THEN None ELSE lock
  /\ UNCHANGED <<ops, reg, disk, tenants, deaths, onces>>

(* The unit's loop records again every two minutes.                        *)
RecordAgain ==
  /\ rec["unit"].at = "idle"
  /\ Read
  /\ UNCHANGED <<ops, reg, disk, rec, lock, tenants, deaths, onces>>

-----------------------------------------------------------------------------
(* One operation, under the lock.                                          *)

Pending == {o \in Ids : ops[o].status = "pending"}

(* The oldest pending row becomes running.  Before its first step it may   *)
(* be refused: the checkout moved, the type or its arguments are not this  *)
(* release's, its key is no slot's, or no deployed document can be read.   *)
Claim(p) ==
  /\ rec[p].at = "idle"
  /\ lock = None
  /\ \E o \in Ids :
       LET key == ops[o].key
           mine == [At("begin") EXCEPT !.op = o, !.step = 1, !.slot = key] IN
       /\ First(o, Pending)
       /\ ops' = [ops EXCEPT ![o].status = "running", ![o].attempt = @ + 1, ![o].by = p]
       /\ \/ /\ key # None => disk[key].deployed
             /\ rec' = [rec EXCEPT ![p] = mine]
          \/ \E code \in {"could_not_determine", "invalid_request"} :
               rec' = [rec EXCEPT ![p] = [mine EXCEPT !.at = "finish", !.code = code]]
  /\ lock' = p
  /\ UNCHANGED <<reg, disk, offered, tenants, deaths, onces>>

(* A `once` that finds the lock held, or nothing to do, is done.           *)
Leave ==
  /\ rec["once"].at = "idle"
  /\ lock # None \/ Pending = {}
  /\ rec' = [rec EXCEPT !["once"] = At("off")]
  /\ UNCHANGED <<ops, reg, disk, offered, lock, tenants, deaths, onces>>

StepOf(p) == Steps[ops[rec[p].op].type][rec[p].step]

Row(p) == ops[rec[p].op]

(* The process ends, exit 6: its lock is released.                         *)
Exit(p) ==
  /\ rec' = [rec EXCEPT ![p] = At("off")]
  /\ lock' = IF lock = p THEN None ELSE lock

(* Operation.step: a step first records itself; a row that is not running  *)
(* refuses that, and the finish that follows, which ends the process.      *)
Begin(p) ==
  /\ rec[p].at = "begin"
  /\ IF Row(p).status = "running"
     THEN rec' = [rec EXCEPT ![p].at = "act"] /\ UNCHANGED lock
     ELSE Exit(p)
  /\ UNCHANGED <<ops, reg, disk, offered, tenants, deaths, onces>>

Passed(r) ==
  LET steps == Steps[ops[r.op].type]
  IN IF r.step = Len(steps) THEN [r EXCEPT !.at = "finish"]
     ELSE [r EXCEPT !.step = @ + 1,
                    !.at = IF steps[r.step + 1] \in {"profile", "key"} THEN "act" ELSE "begin"]

Refused(r, code) == [r EXCEPT !.at = "finish", !.code = code]

(* allocate(): a slot observed ready is marked with the operation's id.    *)
Allocate(p) ==
  /\ rec[p].at = "act" /\ StepOf(p) = "allocate"
  /\ \/ \E s \in Ready :
          /\ disk' = [disk EXCEPT ![s].marker = rec[p].op]
          /\ rec' = [rec EXCEPT ![p] = [Passed(@) EXCEPT !.slot = s]]
     \/ /\ rec' = [rec EXCEPT ![p] = Refused(@, "capacity_exhausted")]
        /\ UNCHANGED disk
  /\ UNCHANGED <<ops, reg, offered, lock, tenants, deaths, onces>>

(* Its manifest is written again with the profile asked for; the loader    *)
(* may refuse it, and the slot is given back.                              *)
SetProfile(p) ==
  /\ rec[p].at = "act" /\ StepOf(p) = "profile"
  /\ disk' = [disk EXCEPT ![rec[p].slot].prepared = FALSE]
  /\ \/ rec' = [rec EXCEPT ![p] = Passed(@)]
     \/ rec' = [rec EXCEPT ![p].at = "restore", ![p].code = "could_not_determine"]
  /\ UNCHANGED <<ops, reg, offered, lock, tenants, deaths, onces>>

(* advance(project_key=key)                                                *)
NameProject(p) ==
  /\ rec[p].at = "act" /\ StepOf(p) = "key"
  /\ IF Row(p).status = "running"
     THEN /\ ops' = [ops EXCEPT ![rec[p].op].key = rec[p].slot]
          /\ rec' = [rec EXCEPT ![p] = Passed(@)]
          /\ UNCHANGED lock
     ELSE Exit(p) /\ UNCHANGED ops
  /\ UNCHANGED <<reg, disk, offered, tenants, deaths, onces>>

(* Admission refuses a creation: the slot is given back.  Admission that   *)
(* does not answer is a command that fails, and the slot stays taken.      *)
NotAdmitted(p) ==
  /\ rec[p].at = "act" /\ StepOf(p) = "admit"
  /\ \E code \in {"capacity_exhausted", "operation_failed"} :
       rec' = [rec EXCEPT ![p].at = "restore", ![p].code = code]
  /\ UNCHANGED <<ops, reg, disk, offered, lock, tenants, deaths, onces>>

Restored(d) == [d EXCEPT !.prepared = TRUE]

Unmarked(d) == [d EXCEPT !.marker = 0]

(* release(): the prepared manifest restored, then the marker removed.     *)
Restore(p) ==
  /\ rec[p].at = "restore"
  /\ disk' = [disk EXCEPT ![rec[p].slot] = Restored(@)]
  /\ rec' = [rec EXCEPT ![p].at = "unmark"]
  /\ UNCHANGED <<ops, reg, offered, lock, tenants, deaths, onces>>

Unmark(p) ==
  /\ rec[p].at = "unmark"
  /\ disk' = [disk EXCEPT ![rec[p].slot] = Unmarked(@)]
  /\ rec' = [rec EXCEPT ![p].at = "finish"]
  /\ UNCHANGED <<ops, reg, offered, lock, tenants, deaths, onces>>

Commands == StepNames \ {"allocate", "profile", "key", "registry", "unregister"}

(* project-retire.sh: its record first, never written over; then the       *)
(* containers down, the units off, the directories removed.                *)
RetirementStages(d) ==
  IF ~d.deployed \/ d.retirement THEN {d}
  ELSE LET recorded == [d EXCEPT !.retirement = TRUE]
           down == [recorded EXCEPT !.up = FALSE]
           off == [down EXCEPT !.unit = FALSE, !.timers = FALSE]
       IN {d, recorded, down, off, [off EXCEPT !.deployed = FALSE]}

(* What a command leaves when it is done.                                  *)
After(step, d) ==
  CASE step \in {"deploy-1", "deploy-2", "redeploy"} -> [d EXCEPT !.deployed = TRUE, !.up = TRUE]
    [] step = "enable"     -> [d EXCEPT !.unit = TRUE]
    [] step = "disable"    -> [d EXCEPT !.unit = FALSE]
    [] step \in {"backup", "schedule"} -> [d EXCEPT !.timers = TRUE]
    [] step = "unschedule" -> [d EXCEPT !.timers = FALSE]
    [] step = "start"      -> [d EXCEPT !.up = TRUE]
    [] step = "stop"       -> [d EXCEPT !.up = FALSE]
    [] step = "tombstone"  -> [d EXCEPT !.consumed = TRUE]
    [] step = "retire"     -> [d EXCEPT !.retirement = TRUE, !.up = FALSE, !.unit = FALSE,
                                        !.timers = FALSE, !.deployed = FALSE]
    [] OTHER -> d

(* What it may leave when it fails, or dies with its reconciler.           *)
Partly(step, d) == IF step = "retire" THEN RetirementStages(d) ELSE {d, After(step, d)}

(* A resize and an export need the project awake, a retirement a project   *)
(* that is deployed and whose retirement was never begun.                  *)
CanSucceed(step, d) ==
  /\ step \in {"candidate", "dump"} => d.up
  /\ step = "retire" => d.deployed /\ ~d.retirement

Deploying(p) ==
  tenants' = IF StepOf(p) = "deploy-1"
             THEN [tenants EXCEPT ![rec[p].slot] = @ \cup {rec[p].op}]
             ELSE tenants

Succeed(p) ==
  /\ rec[p].at = "act" /\ StepOf(p) \in Commands
  /\ CanSucceed(StepOf(p), disk[rec[p].slot])
  /\ disk' = [disk EXCEPT ![rec[p].slot] = After(StepOf(p), @)]
  /\ rec' = [rec EXCEPT ![p] = Passed(@)]
  /\ Deploying(p)
  /\ UNCHANGED <<ops, reg, offered, lock, deaths, onces>>

(* What a failing step is finished with: an exit code, or no answer in     *)
(* time; refused by admission or asleep, before anything changed.          *)
CodesOf(step, d) ==
  {"could_not_determine"}
  \cup (IF step \notin {"admit", "tombstone"} THEN {"operation_failed"} ELSE {})
  \cup (IF step = "candidate" THEN {"capacity_exhausted"} ELSE {})
  \cup (IF step \in {"candidate", "dump"} /\ ~d.up THEN {"invalid_request"} ELSE {})

Fail(p) ==
  /\ rec[p].at = "act" /\ StepOf(p) \in Commands
  /\ \E left \in Partly(StepOf(p), disk[rec[p].slot]) :
       disk' = [disk EXCEPT ![rec[p].slot] = left]
  /\ \E code \in CodesOf(StepOf(p), disk[rec[p].slot]) :
       rec' = [rec EXCEPT ![p] = Refused(@, code)]
  /\ Deploying(p)
  /\ UNCHANGED <<ops, reg, offered, lock, deaths, onces>>

(* refresh_registry: the row made, or brought up to date; a deleted one is *)
(* never revived.                                                          *)
Register(p) ==
  /\ rec[p].at = "act" /\ StepOf(p) = "registry"
  /\ LET s == rec[p].slot IN
       IF reg[s].row = "deleted" \/ ~disk[s].deployed
       THEN /\ rec' = [rec EXCEPT ![p] = Refused(@, "could_not_determine")]
            /\ UNCHANGED reg
       ELSE /\ reg' = [reg EXCEPT ![s] = [row |-> "live", org |-> Row(p).org]]
            /\ rec' = [rec EXCEPT ![p] = Passed(@)]
  /\ UNCHANGED <<ops, disk, offered, lock, tenants, deaths, onces>>

(* control_mark_deleted                                                    *)
Unregister(p) ==
  /\ rec[p].at = "act" /\ StepOf(p) = "unregister"
  /\ reg' = [reg EXCEPT ![rec[p].slot].row = IF @ = "live" THEN "deleted" ELSE @]
  /\ rec' = [rec EXCEPT ![p] = Passed(@)]
  /\ UNCHANGED <<ops, disk, offered, lock, tenants, deaths, onces>>

(* A call of the control database that is refused or not answered, or a    *)
(* file that cannot be written, fails the step with nothing done: of a     *)
(* creation the slot stays taken.                                          *)
NotAnswered(p) ==
  /\ \/ rec[p].at \in {"begin", "restore", "unmark"}
     \/ rec[p].at = "act" /\ StepOf(p) \notin Commands
  /\ rec' = [rec EXCEPT ![p] = Refused(@, "could_not_determine")]
  /\ UNCHANGED <<ops, reg, disk, offered, lock, tenants, deaths, onces>>

(* control_finish_operation: only a running row; a refusal ends the        *)
(* process.                                                                *)
Finish(p) ==
  /\ rec[p].at = "finish"
  /\ IF Row(p).status = "running"
     THEN /\ ops' = [ops EXCEPT ![rec[p].op].status =
                                  IF rec[p].code = None THEN "succeeded" ELSE "failed",
                                ![rec[p].op].code = rec[p].code]
          /\ rec' = [rec EXCEPT ![p] = At("record")]
          /\ UNCHANGED lock
     ELSE Exit(p) /\ UNCHANGED ops
  /\ UNCHANGED <<reg, disk, offered, tenants, deaths, onces>>

(* The process dies; the kernel releases its lock; the command it ran is   *)
(* killed part way.                                                        *)
Die(p) ==
  /\ rec[p].at # "off"
  /\ deaths < MaxDeaths
  /\ deaths' = deaths + 1
  /\ Exit(p)
  /\ IF rec[p].at = "act" /\ StepOf(p) \in Commands
     THEN /\ \E left \in Partly(StepOf(p), disk[rec[p].slot]) :
                disk' = [disk EXCEPT ![rec[p].slot] = left]
          /\ Deploying(p)
     ELSE UNCHANGED <<disk, tenants>>
  /\ UNCHANGED <<ops, reg, offered, onces>>

-----------------------------------------------------------------------------

(* What a running reconciler does next by itself.                          *)
Work(p) ==
  \/ Recover(p) \/ Quarantine(p) \/ Recovered(p) \/ Record(p)
  \/ Claim(p) \/ (p = "once" /\ Leave)
  \/ Begin(p) \/ Allocate(p) \/ SetProfile(p) \/ NameProject(p) \/ NotAdmitted(p)
  \/ Restore(p) \/ Unmark(p) \/ Succeed(p) \/ Fail(p) \/ Register(p) \/ Unregister(p)
  \/ NotAnswered(p) \/ Finish(p)

Next ==
  \/ \E g \in Orgs : RequestCreation(g)
  \/ \E s \in Slots, t \in Types \ {"create"} : RequestWrite(t, s)
  \/ \E o \in Ids : Cancel(o)
  \/ \E p \in Reconcilers : Start(p) \/ Work(p) \/ Die(p)
  \/ RecordAgain

(* systemd starts the unit again whenever it failed (Restart=on-failure),  *)
(* and a process that runs goes on.                                        *)
Fairness == WF_vars(Start("unit")) /\ \A p \in Reconcilers : WF_vars(Work(p))

Spec == Init /\ [][Next]_vars

FairSpec == Spec /\ Fairness

-----------------------------------------------------------------------------
(* Properties.                                                             *)

(* Whoever works on an operation works on one whose row says it is         *)
(* running, and nobody else does: it was not cancelled, finished or        *)
(* recovered under its worker (reconciler.lock, D2178).                    *)
WorkIsOnRunning ==
  /\ \A p \in Reconcilers : Working(p) => ops[rec[p].op].status = "running"
  /\ Working("unit") /\ Working("once") => rec["unit"].op # rec["once"].op

(* No operation is executed twice, whatever died while it ran (D2152): a   *)
(* row is claimed once in its life, and one never claimed was never run.   *)
NeverResumed ==
  \A o \in Ids :
    /\ ops[o].attempt <= 1
    /\ ops[o].status \in {"pending", "cancelled"} => ops[o].attempt = 0

(* A slot is spent by its first deployment: no second creation ever        *)
(* deploys on it, not after a failure, an interruption or a deletion; and  *)
(* a slot that is offered as ready has nothing of an earlier one, its      *)
(* manifest the one it was prepared with.                                  *)
SlotUsedOnce ==
  \A s \in Slots :
    /\ Cardinality(tenants[s]) <= 1
    /\ SlotState(disk[s]) = "ready" => disk[s].prepared /\ tenants[s] = {}

(* The plan: an organisation never holds more projects than its limit,     *)
(* although creations register long after they were counted.               *)
PlanHeld == \A g \in Orgs : Cardinality(LiveOf(g)) <= Limit[g]

(* What members are told is asleep is asleep: no container runs, and       *)
(* neither the boot unit nor a backup timer would start one.               *)
SleepingIsOff ==
  \A s \in Slots : ProjectState(s) = "sleeping" =>
    ~disk[s].up /\ ~disk[s].unit /\ ~disk[s].timers

(* A project the registry calls deleted has left the host, and its slot    *)
(* bears the tombstone that keeps it from being issued again.              *)
DeletedIsGone ==
  \A s \in Slots : reg[s].row = "deleted" => disk[s].consumed /\ ~disk[s].deployed

(* A `once` that died in the middle of an operation, with no reconciler    *)
(* started since: recovery runs only at a start.                           *)
Stranded(o) == ops[o].status = "running" /\ ops[o].by = "once" /\ rec["once"].at = "off"

(* Every operation asked for ends, however often the unit dies; only a     *)
(* dead `once` can leave its own behind, until a reconciler starts.        *)
EveryOperationEnds ==
  \A o \in Ids : Open(ops[o]) ~> Ended(ops[o]) \/ Stranded(o)

=============================================================================
