-------------------------- MODULE OperationsProofs --------------------------
(***************************************************************************)
(* What the operations, the reconcilers and the slots keep, for any number *)
(* of operations, organisations and slots, any deaths, and any number of   *)
(* times somebody starts a `once`.                                         *)
(***************************************************************************)
EXTENDS Operations, FiniteSetTheorems, TLAPS

-----------------------------------------------------------------------------
(* The programs of the reconciler.                                         *)

LEMMA TypesAre == Types = {"create", "sleep", "wake", "resize", "export", "delete"}
BY DEF Types, Steps

LEMMA Lengths ==
  /\ Len(Steps.create) = 11
  /\ Len(Steps["create"]) = 11 /\ Len(Steps["sleep"]) = 3 /\ Len(Steps["wake"]) = 3
  /\ Len(Steps["resize"]) = 3 /\ Len(Steps["export"]) = 2 /\ Len(Steps["delete"]) = 3
BY DEF Steps, DeleteSteps

LEMMA LengthsBound == \A t \in Types : Len(Steps[t]) \in 1..11
BY TypesAre, Lengths

(* Where each step that matters to a slot is found.                        *)
LEMMA StepIndex ==
  ASSUME NEW t \in Types, NEW n \in 1..Len(Steps[t])
  PROVE  /\ Steps[t][n] = "allocate" <=> t = "create" /\ n = 1
         /\ Steps[t][n] = "profile" <=> t = "create" /\ n = 2
         /\ Steps[t][n] = "key" <=> t = "create" /\ n = 3
         /\ Steps[t][n] = "admit" <=> t = "create" /\ n = 4
         /\ Steps[t][n] = "deploy-1" <=> t = "create" /\ n = 5
         /\ Steps[t][n] = "retire" <=> t = "delete" /\ n = 1
         /\ Steps[t][n] = "tombstone" <=> t = "delete" /\ n = 2
         /\ Steps[t][n] = "unregister" <=> t = "delete" /\ n = 3
         /\ Steps[t][n] = "registry" => t \in {"create", "resize"}
         /\ Steps[t][n] \in {"deploy-2", "redeploy"} => t \in {"create", "resize"}
         /\ t = "create" => Steps[t][n] # "start"
<1>1. CASE t = "create"
  <2>1. n \in 1..11
    BY <1>1, Lengths
  <2>2. n \in {1, 2, 3, 4, 5, 6, 7, 8, 9, 10, 11}
    BY <2>1
  <2>. QED
    BY <1>1, <2>2 DEF Steps
<1>2. CASE t \in {"sleep", "wake", "resize", "delete"}
  <2>1. n \in 1..3
    BY <1>2, Lengths
  <2>2. n \in {1, 2, 3}
    BY <2>1
  <2>. QED
    BY <1>2, <2>2 DEF Steps, DeleteSteps
<1>3. CASE t = "export"
  <2>1. n \in 1..2
    BY <1>3, Lengths
  <2>2. n \in {1, 2}
    BY <2>1
  <2>. QED
    BY <1>3, <2>2 DEF Steps
<1>. QED
  BY <1>1, <1>2, <1>3, TypesAre

-----------------------------------------------------------------------------
(* The invariant.                                                          *)

(* Rows are numbered as they come, and all but creations name a slot.      *)
Rows ==
  /\ \E n \in 0..MaxOps : Asked = 1..n
  /\ \A o \in Asked : ops[o].type \in Types /\ (ops[o].type # "create" => ops[o].key \in Slots)

(* A slot without a marker was never deployed to, and is as prepared; one  *)
(* whose project is deleted is empty and bears its tombstone.              *)
SlotOK(s) ==
  /\ disk[s].marker = 0 => disk[s].prepared /\ tenants[s] = {}
  /\ \A o, u \in tenants[s] : o = u
  /\ reg[s].row = "deleted" => disk[s].consumed /\ ~disk[s].deployed

Type(p) == ops[rec[p].op].type
Stepping(p) == rec[p].at \in {"begin", "act"}
(* The worker has its slot: a project's own, or the one it allocated.      *)
Slotted(p) == Stepping(p) /\ (Type(p) = "create" => rec[p].step > 1)

HasRow(p) ==
  /\ lock = p
  /\ rec[p].op \in Ids /\ ops[rec[p].op].status # "none" /\ Type(p) \in Types
  /\ rec[p].step \in 1..Len(Steps[Type(p)])

(* The lock makes its holder the only worker; what it works on exists, its *)
(* slot is its own, and a deletion reaches the registry last.              *)
WorkOK(p) ==
  Working(p) =>
    /\ HasRow(p)
    /\ Slotted(p) => rec[p].slot \in Slots /\ reg[rec[p].slot].row # "deleted"
    /\ Slotted(p) /\ Type(p) = "create" =>
         /\ disk[rec[p].slot].marker # 0
         /\ rec[p].step <= 5 => tenants[rec[p].slot] = {}
    /\ rec[p].at \in {"restore", "unmark"} =>
         rec[p].slot \in Slots /\ disk[rec[p].slot].marker # 0 /\ tenants[rec[p].slot] = {}
    /\ rec[p].at = "unmark" => disk[rec[p].slot].prepared
    /\ Stepping(p) /\ Type(p) = "delete" =>
         /\ rec[p].step > 1 => ~disk[rec[p].slot].deployed
         /\ rec[p].step > 2 => disk[rec[p].slot].consumed

IInv ==
  /\ TypeOK /\ Rows /\ NeverResumed
  /\ \A s \in Slots : SlotOK(s)
  /\ \A p \in Reconcilers : WorkOK(p)

USE BoundAssumption, NoneAssumption, CodesAssumption

LEMMA AtType == \A place \in Places : At(place) \in RecRecord /\ At(place).at = place
<1>1. 0 \in 0..Len(Steps.create)
  BY Lengths
<1>. QED
  BY <1>1 DEF At, RecRecord

LEMMA InitIInv == Init => IInv
<1>. SUFFICES ASSUME Init PROVE IInv
  OBVIOUS
<1>1. NoOp \in OpRecord /\ NoOp.status = "none" /\ NoOp.code = None /\ NoOp.attempt = 0
  BY DEF NoOp, OpRecord
<1>2. /\ FreshSlot \in SlotRecord /\ FreshSlot.marker = 0 /\ FreshSlot.prepared
      /\ Occupied \in SlotRecord /\ Occupied.marker = Earlier
  <2>1. 0 \in 0..Earlier /\ Earlier \in 0..Earlier
    BY DEF Earlier
  <2>2. FreshSlot \in SlotRecord /\ FreshSlot.marker = 0
    BY <2>1 DEF FreshSlot, SlotRecord
  <2>3. Occupied \in SlotRecord /\ Occupied.marker = Earlier
    BY <2>1 DEF Occupied, SlotRecord
  <2>4. FreshSlot.prepared
    BY DEF FreshSlot
  <2>. QED
    BY <2>2, <2>3, <2>4
<1>3. At("off") \in RecRecord /\ At("off").at = "off"
  BY AtType DEF Places
<1>4. TypeOK
  <2>1. reg \in [Slots -> [row: {"absent", "live", "deleted"}, org: Orgs \cup {None}]]
    BY FoundedAssumption DEF Init
  <2>2. Earlier \in 1..Earlier
    BY DEF Earlier
  <2>3. FailedHasCode
    BY <1>1 DEF Init, FailedHasCode
  <2>4. tenants \in [Slots -> SUBSET (1..Earlier)]
    BY <2>2 DEF Init
  <2>5. disk \in [Slots -> SlotRecord]
    BY <1>2 DEF Init
  <2>. QED
    BY <1>1, <1>3, <2>1, <2>3, <2>4, <2>5 DEF Init, TypeOK
<1>5. Asked = 1..0
  BY <1>1 DEF Init, Asked
<1>6. Rows
  <2>1. Asked = {}
    BY <1>5
  <2>. QED
    BY <1>5, <2>1 DEF Rows
<1>7. NeverResumed
  BY <1>1 DEF Init, NeverResumed
<1>8. \A s \in Slots : SlotOK(s)
  <2>1. Earlier # 0
    BY DEF Earlier
  <2>. QED
    BY <1>2, <2>1 DEF Init, SlotOK
<1>9. \A p \in Reconcilers : WorkOK(p)
  BY <1>3 DEF Init, WorkOK, Working
<1>. QED
  BY <1>4, <1>6, <1>7, <1>8, <1>9 DEF IInv

-----------------------------------------------------------------------------
(* Steps that leave the slots, and whoever works, alone.                   *)

(* The worker that does not move is as well as before if its row keeps its *)
(* type, its lock is kept, and its slot stays as it was.                   *)
SameSlot(s) ==
  /\ disk'[s].marker = disk[s].marker /\ disk'[s].prepared = disk[s].prepared
  /\ disk'[s].deployed = disk[s].deployed /\ disk'[s].consumed = disk[s].consumed
  /\ tenants'[s] = tenants[s] /\ reg'[s].row = reg[s].row

LEMMA Aside ==
  ASSUME IInv, NEW p \in Reconcilers, rec'[p] = rec[p],
         Working(p) => lock' = lock,
         \A o \in Asked : ops'[o].type = ops[o].type /\ ops'[o].status # "none",
         \A s \in Slots : Working(p) => SameSlot(s)
  PROVE  WorkOK(p)'
<1>. SUFFICES ASSUME Working(p) PROVE WorkOK(p)'
  BY DEF Working, WorkOK
<1>1. WorkOK(p) /\ HasRow(p)
  BY DEF IInv, WorkOK
<1>2. rec[p].op \in Asked
  BY <1>1 DEF HasRow, Asked
<1>3. Type(p)' = Type(p) /\ HasRow(p)'
  BY <1>1, <1>2 DEF Type, HasRow
<1>4. (Slotted(p)' <=> Slotted(p)) /\ (Stepping(p)' <=> Stepping(p))
  BY <1>3 DEF Slotted, Stepping
<1>5. Slotted(p) => rec[p].slot \in Slots
  BY <1>1 DEF WorkOK
<1>6. Stepping(p) /\ Type(p) = "delete" => Slotted(p)
  BY DEF Slotted
<1>7. rec[p].at \in {"restore", "unmark"} => rec[p].slot \in Slots
  BY <1>1 DEF WorkOK
<1>. QED
  BY <1>1, <1>3, <1>4, <1>5, <1>6, <1>7 DEF WorkOK, SameSlot

(* Only its holder works under the lock.                                   *)
LEMMA Alone ==
  ASSUME IInv, NEW p \in Reconcilers, NEW q \in Reconcilers, Working(p), lock # p \/ Working(q)
  PROVE  p = q
BY DEF IInv, WorkOK, HasRow

LEMMA SlotsSame ==
  ASSUME IInv, \A s \in Slots : SameSlot(s)
  PROVE  \A s \in Slots : SlotOK(s)'
BY DEF IInv, SlotOK, SameSlot

(* A request is a new row behind the others.                               *)
LEMMA InsertKeeps ==
  ASSUME IInv, NEW t \in Types, NEW g \in Orgs \cup {None}, NEW s \in Slots \cup {None},
         Insert(t, g, s),
         t # "create" => s \in Slots
  PROVE  IInv'
<1>1. PICK n \in 0..MaxOps : Asked = 1..n
  BY DEF IInv, Rows
<1>2. Cardinality(Asked) = n
  BY <1>1, FS_Interval
<1>. DEFINE o == n + 1
            new == [NoOp EXCEPT !.type = t, !.org = g, !.key = s, !.status = "pending"]
<1>3. o \in Ids /\ o \notin Asked /\ ops' = [ops EXCEPT ![o] = new]
      /\ UNCHANGED <<reg, disk, offered, rec, lock, tenants, deaths, onces>>
  <2>1. n < MaxOps
    BY <1>2 DEF Insert
  <2>2. n + 1 \in 1..MaxOps /\ n + 1 \notin 1..n
    BY <2>1
  <2>. QED
    BY <1>1, <1>2, <2>2 DEF Insert, Ids
<1>4. /\ new \in OpRecord /\ new.status = "pending" /\ new.attempt = 0 /\ new.code = None
      /\ new.type = t /\ new.key = s
  BY DEF NoOp, OpRecord
<1>. HIDE DEF new
<1>5. ops'[o] = new /\ \A u \in Ids : u # o => ops'[u] = ops[u]
  BY <1>3 DEF IInv, TypeOK
<1>6. TypeOK'
  <2>1. FailedHasCode'
    BY <1>3, <1>4, <1>5 DEF IInv, TypeOK, FailedHasCode
  <2>2. ops' \in [Ids -> OpRecord]
    BY <1>3, <1>4 DEF IInv, TypeOK
  <2>. QED
    BY <1>3, <2>1, <2>2 DEF IInv, TypeOK
<1>7. Rows'
  <2>1. Asked' = Asked \cup {o}
    BY <1>3, <1>4, <1>5 DEF Asked
  <2>2. Asked' = 1..n+1 /\ n + 1 \in 0..MaxOps
    BY <1>1, <1>3, <2>1 DEF Ids
  <2>3. ops'[o].type = t /\ ops'[o].key = s
    BY <1>4, <1>5
  <2>4. \A u \in Asked : ops'[u] = ops[u]
    BY <1>3, <1>5 DEF Asked
  <2>. QED
    BY <2>1, <2>2, <2>3, <2>4 DEF IInv, Rows
<1>8. NeverResumed'
  BY <1>4, <1>5 DEF IInv, NeverResumed
<1>9. \A u \in Asked : ops'[u].type = ops[u].type /\ ops'[u].status # "none"
  BY <1>3, <1>5 DEF Asked
<1>10. \A u \in Slots : SameSlot(u)
  BY <1>3 DEF SameSlot
<1>11. \A p \in Reconcilers : WorkOK(p)'
  BY <1>3, <1>9, <1>10, Aside
<1>. QED
  BY <1>6, <1>7, <1>8, <1>10, <1>11, SlotsSame DEF IInv

(* A row written anew keeps its type and number, and is not claimed again. *)
LEMMA RowKeeps ==
  ASSUME IInv, NEW o \in Ids, NEW new \in OpRecord, ops' = [ops EXCEPT ![o] = new],
         ops[o].status # "none" =>
           new.status # "none" /\ new.type = ops[o].type /\ new.key = ops[o].key,
         ops[o].status = "none" => new = ops[o],
         (new.status = "failed") <=> (new.code # None),
         new.attempt <= 1, new.status \in {"pending", "cancelled"} => new.attempt = 0,
         rec' \in [Reconcilers -> RecRecord], lock' \in Reconcilers \cup {None},
         \A p \in Reconcilers : WorkOK(p)',
         UNCHANGED <<reg, disk, offered, tenants, deaths, onces>>
  PROVE  IInv'
<1>1. ops'[o] = new /\ \A u \in Ids : u # o => ops'[u] = ops[u]
  BY DEF IInv, TypeOK
<1>2. FailedHasCode'
  BY <1>1 DEF IInv, TypeOK, FailedHasCode
<1>3. TypeOK'
  BY <1>2 DEF IInv, TypeOK
<1>4. Asked' = Asked
  BY <1>1 DEF Asked
<1>5. Rows'
  BY <1>1, <1>4 DEF IInv, Rows, Asked
<1>6. NeverResumed'
  BY <1>1 DEF IInv, NeverResumed
<1>7. \A s \in Slots : SlotOK(s)'
  BY SlotsSame DEF SameSlot
<1>. QED
  BY <1>3, <1>5, <1>6, <1>7 DEF IInv

LEMMA CancelKeeps == ASSUME IInv, NEW o \in Ids, Cancel(o) PROVE IInv'
<1>. DEFINE new == [ops[o] EXCEPT !.status = "cancelled"]
<1>1. /\ ops[o] \in OpRecord /\ ops[o].status = "pending" /\ ops[o].attempt = 0
      /\ ops[o].code = None
  BY DEF IInv, TypeOK, NeverResumed, FailedHasCode, Cancel, Cancellable
<1>2. /\ new \in OpRecord /\ new.status = "cancelled" /\ new.type = ops[o].type
      /\ new.key = ops[o].key
      /\ new.attempt = 0 /\ new.code = None
  BY <1>1 DEF OpRecord
<1>3. ops' = [ops EXCEPT ![o] = new]
      /\ UNCHANGED <<reg, disk, offered, rec, lock, tenants, deaths, onces>>
  BY DEF Cancel, IInv, TypeOK
<1>. HIDE DEF new
<1>4. \A u \in Asked : ops'[u].type = ops[u].type /\ ops'[u].status # "none"
  BY <1>2, <1>3 DEF IInv, TypeOK, Asked
<1>5. \A s \in Slots : SameSlot(s)
  BY <1>3 DEF SameSlot
<1>6. \A p \in Reconcilers : WorkOK(p)'
  BY <1>3, <1>4, <1>5, Aside
<1>7. rec' \in [Reconcilers -> RecRecord] /\ lock' \in Reconcilers \cup {None}
  BY <1>3 DEF IInv, TypeOK
<1>8. /\ new.status # "none" /\ new.status # "failed" /\ ops[o].status # "none"
      /\ new.attempt <= 1
  BY <1>1, <1>2
<1>. QED
  BY <1>2, <1>3, <1>6, <1>7, <1>8, RowKeeps

(* A reconciler that works on nothing goes to where it works on nothing.   *)
LEMMA IdleKeeps ==
  ASSUME IInv, NEW p \in Reconcilers, NEW r \in RecRecord, ~Working(p),
         rec' = [rec EXCEPT ![p] = r],
         r.at \in {"off", "recover", "quarantine", "idle", "record"},
         lock' = lock \/ (lock = p /\ lock' = None),
         UNCHANGED <<ops, reg, tenants>>,
         disk' \in [Slots -> SlotRecord], \A s \in Slots : SameSlot(s),
         offered' \in BOOLEAN, deaths' \in Nat, onces' \in Nat
  PROVE  IInv'
<1>1. rec'[p] = r /\ \A q \in Reconcilers : q # p => rec'[q] = rec[q]
  BY DEF IInv, TypeOK
<1>2. TypeOK' /\ Rows' /\ NeverResumed'
  BY DEF IInv, TypeOK, Rows, NeverResumed, Asked, FailedHasCode
<1>3. \A s \in Slots : SlotOK(s)'
  BY SlotsSame
<1>4. ASSUME NEW q \in Reconcilers PROVE WorkOK(q)'
  <2>1. CASE q = p
    BY <1>1, <2>1 DEF WorkOK, Working
  <2>2. CASE q # p
    <3>1. Working(q) => lock' = lock
      BY <2>2 DEF IInv, WorkOK, HasRow
    <3>2. \A o \in Asked : ops'[o].type = ops[o].type /\ ops'[o].status # "none"
      BY DEF Asked
    <3>. QED
      BY <1>1, <2>2, <3>1, <3>2, Aside
  <2>. QED
    BY <2>1, <2>2
<1>. QED
  BY <1>2, <1>3, <1>4 DEF IInv

LEMMA StartKeeps == ASSUME IInv, NEW p \in Reconcilers, Start(p) PROVE IInv'
<1>. DEFINE r == [At("recover") EXCEPT !.todo = Interrupted]
<1>1. r \in RecRecord /\ r.at = "recover"
  <2>1. At("recover") \in RecRecord /\ At("recover").at = "recover"
    BY AtType DEF Places
  <2>. QED
    BY <2>1 DEF RecRecord, Interrupted
<1>2. /\ rec' = [rec EXCEPT ![p] = r] /\ rec[p].at = "off" /\ lock' = lock
      /\ UNCHANGED <<ops, reg, disk, offered, tenants, deaths>> /\ onces' \in Nat
  BY DEF Start, IInv, TypeOK
<1>3. disk' \in [Slots -> SlotRecord] /\ \A s \in Slots : SameSlot(s)
  BY <1>2 DEF IInv, TypeOK, SameSlot
<1>. HIDE DEF r
<1>. QED
  BY <1>1, <1>2, <1>3, IdleKeeps DEF Working, IInv, TypeOK

LEMMA RecoveredKeeps == ASSUME IInv, NEW p \in Reconcilers, Recovered(p) PROVE IInv'
<1>1. At("record") \in RecRecord /\ At("record").at = "record"
  BY AtType DEF Places
<1>2. \A s \in Slots : SameSlot(s)
  BY DEF Recovered, SameSlot
<1>. QED
  BY <1>1, <1>2, IdleKeeps DEF Recovered, Working, IInv, TypeOK

LEMMA RecordKeeps == ASSUME IInv, NEW p \in Reconcilers, Record(p) PROVE IInv'
<1>1. PICK place \in {"off", "idle"} : rec' = [rec EXCEPT ![p] = At(place)]
  BY DEF Record
<1>2. At(place) \in RecRecord /\ At(place).at = place
  BY AtType DEF Places
<1>3. \A s \in Slots : SameSlot(s)
  BY DEF Record, SameSlot
<1>. QED
  BY <1>1, <1>2, <1>3, IdleKeeps DEF Record, Read, Working, IInv, TypeOK

LEMMA LeaveKeeps == ASSUME IInv, Leave PROVE IInv'
<1>1. At("off") \in RecRecord /\ At("off").at = "off" /\ "once" \in Reconcilers
  BY AtType DEF Places, Reconcilers
<1>2. \A s \in Slots : SameSlot(s)
  BY DEF Leave, SameSlot
<1>. QED
  BY <1>1, <1>2, IdleKeeps DEF Leave, Working, IInv, TypeOK

LEMMA RecordAgainKeeps == ASSUME IInv, RecordAgain PROVE IInv'
<1>1. rec' = [rec EXCEPT !["unit"] = rec["unit"]] /\ rec["unit"] \in RecRecord
      /\ "unit" \in Reconcilers
  BY DEF RecordAgain, Reconcilers, IInv, TypeOK
<1>2. \A s \in Slots : SameSlot(s)
  BY DEF RecordAgain, SameSlot
<1>. QED
  BY <1>1, <1>2, IdleKeeps DEF RecordAgain, Read, Working, IInv, TypeOK

LEMMA QuarantineKeeps == ASSUME IInv, NEW p \in Reconcilers, Quarantine(p) PROVE IInv'
<1>. DEFINE r == [rec[p] EXCEPT !.at = "recover"]
<1>1. rec[p] \in RecRecord /\ rec[p].at = "quarantine"
  BY DEF Quarantine, IInv, TypeOK
<1>2. r \in RecRecord /\ r.at = "recover"
  BY <1>1 DEF RecRecord, Places
<1>3. rec' = [rec EXCEPT ![p] = r]
  BY DEF Quarantine, IInv, TypeOK
<1>4. ASSUME NEW s \in Slots PROVE disk'[s] \in SlotRecord /\ SameSlot(s)
  <2>1. disk'[s] = disk[s] \/ disk'[s] = [disk[s] EXCEPT !.quarantined = TRUE]
    BY DEF Quarantine
  <2>2. disk[s] \in SlotRecord
    BY DEF IInv, TypeOK
  <2>3. tenants'[s] = tenants[s] /\ reg'[s] = reg[s]
    BY DEF Quarantine
  <2>. QED
    BY <2>1, <2>2, <2>3 DEF SlotRecord, SameSlot
<1>5. disk' \in [Slots -> SlotRecord]
  BY <1>4 DEF Quarantine
<1>. HIDE DEF r
<1>. QED
  BY <1>1, <1>2, <1>3, <1>4, <1>5, IdleKeeps DEF Quarantine, Working, IInv, TypeOK

LEMMA RecoverKeeps == ASSUME IInv, NEW p \in Reconcilers, Recover(p) PROVE IInv'
<1>1. PICK o \in Ids :
        /\ ops[o].status = "running" =>
             /\ ops' = [ops EXCEPT ![o] = Repaired(@)]
             /\ rec' = [rec EXCEPT ![p].op = o, ![p].todo = @ \ {o},
                                   ![p].at = IF ops[o].type = "create" THEN "quarantine" ELSE @]
        /\ ops[o].status # "running" => rec' = [rec EXCEPT ![p] = At("off")] /\ ops' = ops
  BY DEF Recover
<1>2. rec[p] \in RecRecord /\ rec[p].at = "recover" /\ ~Working(p)
  BY DEF Recover, IInv, TypeOK, Working
<1>3. UNCHANGED <<reg, disk, offered, lock, tenants, deaths, onces>>
  BY DEF Recover
<1>4. \A s \in Slots : SameSlot(s)
  BY <1>3 DEF SameSlot
<1>5. CASE ops[o].status = "running"
  <2>. DEFINE new == Repaired(ops[o])
              at == IF ops[o].type = "create" THEN "quarantine" ELSE rec[p].at
              r == [rec[p] EXCEPT !.op = o, !.todo = @ \ {o}, !.at = at]
  <2>1. ops' = [ops EXCEPT ![o] = new] /\ rec' = [rec EXCEPT ![p] = r]
    BY <1>1, <1>5 DEF IInv, TypeOK
  <2>2. ops[o] \in OpRecord /\ ops[o].attempt <= 1
    BY DEF IInv, TypeOK, NeverResumed
  <2>3. /\ new \in OpRecord /\ new.status = "failed" /\ new.code = "interrupted"
        /\ new.type = ops[o].type /\ new.key = ops[o].key /\ new.attempt = ops[o].attempt
    BY <2>2 DEF Repaired, OpRecord, Codes
  <2>4. r \in RecRecord /\ r.at \in {"quarantine", "recover"}
    <3>1. at \in {"quarantine", "recover"}
      BY <1>2
    <3>2. o \in 0..MaxOps /\ rec[p].todo \ {o} \in SUBSET Ids
      BY <1>2 DEF RecRecord, Ids
    <3>. HIDE DEF at
    <3>. QED
      BY <1>2, <3>1, <3>2 DEF RecRecord, Places
  <2>. HIDE DEF new, r
  <2>5. rec'[p] = r /\ \A q \in Reconcilers : q # p => rec'[q] = rec[q]
    BY <2>1 DEF IInv, TypeOK
  <2>6. \A u \in Asked : ops'[u].type = ops[u].type /\ ops'[u].status # "none"
    BY <2>1, <2>3 DEF IInv, TypeOK, Asked
  <2>7. ASSUME NEW q \in Reconcilers PROVE WorkOK(q)'
    <3>1. CASE q = p
      BY <2>4, <2>5, <3>1 DEF WorkOK, Working
    <3>2. CASE q # p
      BY <1>3, <1>4, <2>5, <2>6, <3>2, Aside
    <3>. QED
      BY <3>1, <3>2
  <2>8. rec' \in [Reconcilers -> RecRecord] /\ lock' \in Reconcilers \cup {None}
    BY <1>3, <2>1, <2>4 DEF IInv, TypeOK
  <2>9. new.code # None
    BY <2>3 DEF Codes
  <2>. QED
    BY <1>3, <1>5, <2>1, <2>2, <2>3, <2>7, <2>8, <2>9, RowKeeps
<1>6. CASE ops[o].status # "running"
  <2>1. rec' = [rec EXCEPT ![p] = At("off")] /\ ops' = ops
    BY <1>1, <1>6
  <2>2. At("off") \in RecRecord /\ At("off").at = "off"
    BY AtType DEF Places
  <2>. QED
    BY <1>2, <1>3, <1>4, <2>1, <2>2, IdleKeeps DEF IInv, TypeOK
<1>. QED
  BY <1>5, <1>6

-----------------------------------------------------------------------------
(* Steps of the worker.                                                    *)

(* A step of whoever works, or begins to: nobody else does.                *)
LEMMA WorkKeeps ==
  ASSUME IInv, NEW p \in Reconcilers, NEW r \in RecRecord,
         Working(p) \/ lock = None,
         rec' = [rec EXCEPT ![p] = r], lock' \in {lock, p, None},
         ops' \in [Ids -> OpRecord], FailedHasCode', Rows', NeverResumed',
         reg' \in [Slots -> [row: {"absent", "live", "deleted"}, org: Orgs \cup {None}]],
         disk' \in [Slots -> SlotRecord], tenants' \in [Slots -> SUBSET (1..Earlier)],
         offered' \in BOOLEAN, deaths' \in Nat, onces' \in Nat,
         \A s \in Slots : SlotOK(s)', WorkOK(p)'
  PROVE  IInv'
<1>1. rec'[p] = r /\ \A q \in Reconcilers : q # p => rec'[q] = rec[q]
  BY DEF IInv, TypeOK
<1>2. \A q \in Reconcilers : Working(q) => lock = q
  BY DEF IInv, WorkOK, HasRow
<1>3. \A q \in Reconcilers : q # p => ~Working(q)
  BY <1>2
<1>4. \A q \in Reconcilers : WorkOK(q)'
  BY <1>1, <1>3 DEF WorkOK, Working
<1>5. TypeOK'
  BY <1>2 DEF IInv, TypeOK
<1>. QED
  BY <1>4, <1>5 DEF IInv

(* The rows are left alone.                                                *)
LEMMA RowsSame ==
  ASSUME IInv, ops' = ops
  PROVE  /\ ops' \in [Ids -> OpRecord] /\ FailedHasCode' /\ Rows' /\ NeverResumed'
         /\ Asked' = Asked
BY DEF IInv, TypeOK, FailedHasCode, Rows, NeverResumed, Asked

(* A slot is left alone but for what no invariant is about.                *)
LEMMA TypesSame ==
  ASSUME IInv, UNCHANGED <<reg, disk, tenants, offered, deaths, onces>>
  PROVE  /\ reg' \in [Slots -> [row: {"absent", "live", "deleted"}, org: Orgs \cup {None}]]
         /\ disk' \in [Slots -> SlotRecord] /\ tenants' \in [Slots -> SUBSET (1..Earlier)]
         /\ offered' \in BOOLEAN /\ deaths' \in Nat /\ onces' \in Nat
         /\ \A s \in Slots : SlotOK(s)'
BY DEF IInv, TypeOK, SlotOK

(* The oldest pending row becomes running, its first step before it.       *)
LEMMA ClaimKeeps == ASSUME IInv, NEW p \in Reconcilers, Claim(p) PROVE IInv'
<1>1. PICK o \in Ids :
        LET key == ops[o].key
            mine == [At("begin") EXCEPT !.op = o, !.step = 1, !.slot = key] IN
        /\ First(o, Pending)
        /\ ops' = [ops EXCEPT ![o].status = "running", ![o].attempt = @ + 1, ![o].by = p]
        /\ \/ /\ key # None => disk[key].deployed
              /\ rec' = [rec EXCEPT ![p] = mine]
           \/ \E code \in {"could_not_determine", "invalid_request"} :
                rec' = [rec EXCEPT ![p] = [mine EXCEPT !.at = "finish", !.code = code]]
  BY DEF Claim
<1>. DEFINE key == ops[o].key
            mine == [At("begin") EXCEPT !.op = o, !.step = 1, !.slot = key]
            new == [ops[o] EXCEPT !.status = "running", !.attempt = @ + 1, !.by = p]
<1>2. /\ lock = None /\ lock' = p /\ UNCHANGED <<reg, disk, offered, tenants, deaths, onces>>
      /\ ops[o].status = "pending" /\ ops[o].attempt = 0 /\ ops[o].code = None
      /\ ops[o] \in OpRecord
  BY <1>1 DEF Claim, First, Pending, IInv, TypeOK, NeverResumed, FailedHasCode
<1>3. ops' = [ops EXCEPT ![o] = new]
  BY <1>1 DEF IInv, TypeOK
<1>4. /\ new \in OpRecord /\ new.status = "running" /\ new.type = ops[o].type
      /\ new.attempt = 1 /\ new.code = None /\ new.key = key
  <2>1. /\ ops[o].attempt + 1 = 1 /\ 1 \in Nat
        /\ new = [ops[o] EXCEPT !.status = "running", !.attempt = 1, !.by = p]
    BY <1>2
  <2>2. [ops[o] EXCEPT !.status = "running", !.attempt = 1, !.by = p] \in OpRecord
    BY <1>2, <2>1 DEF OpRecord
  <2>3. new \in OpRecord
    BY <2>1, <2>2
  <2>. QED
    BY <1>2, <2>1, <2>3 DEF OpRecord
<1>5. /\ mine \in RecRecord /\ mine.at = "begin" /\ mine.op = o /\ mine.step = 1
      /\ mine.slot = key
  <2>1. At("begin") \in RecRecord /\ At("begin").at = "begin"
    BY AtType DEF Places
  <2>2. o \in 0..MaxOps /\ 1 \in 0..Len(Steps.create) /\ key \in Slots \cup {None}
    BY <1>2, Lengths DEF Ids, OpRecord
  <2>. HIDE DEF key
  <2>. QED
    BY <2>1, <2>2 DEF RecRecord
<1>6. PICK r \in RecRecord :
        /\ rec' = [rec EXCEPT ![p] = r] /\ r.op = o /\ r.step = 1 /\ r.slot = key
        /\ r.at \in {"begin", "finish"}
        /\ r.at = "begin" /\ key # None => disk[key].deployed
  <2>1. ASSUME NEW code \in {"could_not_determine", "invalid_request"}
        PROVE  LET r == [mine EXCEPT !.at = "finish", !.code = code] IN
               /\ r \in RecRecord /\ r.op = o /\ r.step = 1 /\ r.slot = key /\ r.at = "finish"
    <3>. HIDE DEF mine
    <3>. QED
      BY <1>5 DEF RecRecord, Places, Codes
  <2>. QED
    BY <1>1, <1>5, <2>1
<1>. HIDE DEF new, mine
<1>7. ops'[o] = new /\ \A u \in Ids : u # o => ops'[u] = ops[u]
  BY <1>3 DEF IInv, TypeOK
<1>8. ops' \in [Ids -> OpRecord] /\ FailedHasCode' /\ NeverResumed'
  BY <1>2, <1>3, <1>4, <1>7 DEF IInv, TypeOK, FailedHasCode, NeverResumed
<1>9. Rows'
  <2>1. Asked' = Asked
    BY <1>2, <1>4, <1>7 DEF Asked
  <2>. QED
    BY <1>4, <1>7, <2>1 DEF IInv, Rows, Asked
<1>10. new.type \in Types /\ (new.type # "create" => key \in Slots)
  BY <1>2, <1>4 DEF IInv, Rows, Asked
<1>11. WorkOK(p)'
  <2>1. rec'[p] = r /\ Type(p)' = new.type
    BY <1>6, <1>7 DEF Type, IInv, TypeOK
  <2>2. 1 \in 1..Len(Steps[new.type])
    <3>1. Len(Steps[new.type]) \in 1..11 /\ \A n \in 1..11 : 1 \in 1..n
      BY <1>10, LengthsBound
    <3>. QED
      BY <3>1
  <2>3. HasRow(p)'
    BY <1>2, <1>4, <1>6, <1>7, <1>10, <2>1, <2>2 DEF HasRow
  <2>4. Slotted(p)' => key \in Slots /\ reg[key].row # "deleted" /\ new.type # "create"
    BY <1>6, <1>10, <2>1 DEF Slotted, Stepping, IInv, SlotOK
  <2>. QED
    BY <1>2, <1>6, <2>1, <2>3, <2>4 DEF WorkOK, Slotted, Stepping
<1>. QED
  BY <1>2, <1>6, <1>8, <1>9, <1>11, WorkKeeps, TypesSame

(* What the worker's reconciler becomes when a step has passed.            *)
LEMMA PassedIs ==
  ASSUME NEW r \in RecRecord, ops[r.op].type \in Types,
         r.step \in 1..Len(Steps[ops[r.op].type])
  PROVE  LET x == Passed(r) IN
         /\ x \in RecRecord /\ x.op = r.op /\ x.slot = r.slot
         /\ \/ x.at = "finish" /\ x.step = r.step
            \/ /\ x.at \in {"begin", "act"} /\ x.step = r.step + 1
               /\ x.step \in 1..Len(Steps[ops[r.op].type])
<1>. DEFINE n == Len(Steps[ops[r.op].type])
<1>1. n \in 1..11 /\ r.step \in 1..n
  BY LengthsBound
<1>. HIDE DEF n
<1>2. CASE r.step = n
  BY <1>2 DEF Passed, RecRecord, Places, n
<1>3. CASE r.step # n
  <2>. DEFINE at == IF Steps[ops[r.op].type][r.step + 1] \in {"profile", "key"}
                    THEN "act" ELSE "begin"
              x == [r EXCEPT !.step = @ + 1, !.at = at]
  <2>1. Passed(r) = x
    BY <1>3 DEF Passed, n
  <2>2. r.step + 1 \in 1..n /\ r.step + 1 \in 0..Len(Steps.create)
    BY <1>1, <1>3, Lengths
  <2>3. at \in {"begin", "act"}
    OBVIOUS
  <2>. HIDE DEF at
  <2>4. x \in RecRecord /\ x.op = r.op /\ x.slot = r.slot /\ x.at = at /\ x.step = r.step + 1
    BY <2>2, <2>3 DEF RecRecord, Places
  <2>. QED
    BY <2>1, <2>2, <2>3, <2>4 DEF n
<1>. QED
  BY <1>2, <1>3

LEMMA RefusedIs ==
  ASSUME NEW r \in RecRecord, NEW code \in Codes
  PROVE  LET x == Refused(r, code) IN
         x \in RecRecord /\ x.op = r.op /\ x.step = r.step /\ x.at = "finish"
BY DEF Refused, RecRecord, Places

(* What is known of a worker.                                              *)
LEMMA WorkerIs ==
  ASSUME IInv, NEW p \in Reconcilers, Working(p)
  PROVE  /\ WorkOK(p) /\ HasRow(p) /\ rec[p] \in RecRecord /\ lock = p
         /\ rec[p].op \in Ids /\ ops[rec[p].op] \in OpRecord
         /\ Type(p) \in Types /\ rec[p].step \in 1..Len(Steps[Type(p)])
         /\ rec[p].step \in 1..11
<1>1. WorkOK(p) /\ HasRow(p)
  BY DEF IInv, WorkOK
<1>2. \A n \in 1..11 : \A m \in 1..n : m \in 1..11
  OBVIOUS
<1>. QED
  BY <1>1, <1>2, LengthsBound DEF HasRow, IInv, TypeOK

LEMMA WorkerPassed ==
  ASSUME IInv, NEW p \in Reconcilers, Working(p)
  PROVE  LET x == Passed(rec[p]) IN
         /\ x \in RecRecord /\ x.op = rec[p].op /\ x.slot = rec[p].slot
         /\ x.step \in 1..Len(Steps[Type(p)])
         /\ \/ x.at = "finish" /\ x.step = rec[p].step
            \/ x.at \in {"begin", "act"} /\ x.step = rec[p].step + 1
<1>1. /\ rec[p] \in RecRecord /\ ops[rec[p].op].type \in Types
      /\ rec[p].step \in 1..Len(Steps[ops[rec[p].op].type])
  BY WorkerIs DEF Type
<1>. QED
  BY <1>1, PassedIs DEF Type

(* The worker leaves its operation, its row ended or not; the slots may    *)
(* have been left by a command part way.                                   *)
LEMMA EndKeeps ==
  ASSUME IInv, NEW p \in Reconcilers, Working(p), NEW place \in {"off", "record"},
         rec' = [rec EXCEPT ![p] = At(place)], lock' \in {lock, p, None},
         ops' \in [Ids -> OpRecord], FailedHasCode', Rows', NeverResumed',
         reg' = reg, offered' = offered, deaths' \in Nat, onces' \in Nat,
         disk' \in [Slots -> SlotRecord], tenants' \in [Slots -> SUBSET (1..Earlier)],
         \A s \in Slots : SlotOK(s)'
  PROVE  IInv'
<1>1. At(place) \in RecRecord /\ At(place).at = place
  BY AtType DEF Places
<1>2. rec'[p] = At(place)
  BY DEF IInv, TypeOK
<1>3. WorkOK(p)'
  BY <1>1, <1>2 DEF WorkOK, Working
<1>4. reg' \in [Slots -> [row: {"absent", "live", "deleted"}, org: Orgs \cup {None}]]
      /\ offered' \in BOOLEAN
  BY DEF IInv, TypeOK
<1>. QED
  BY <1>1, <1>3, <1>4, WorkKeeps

LEMMA ExitKeeps ==
  ASSUME IInv, NEW p \in Reconcilers, Working(p), Exit(p),
         UNCHANGED <<ops, reg, disk, offered, tenants, deaths, onces>>
  PROVE  IInv'
BY EndKeeps, RowsSame, TypesSame DEF Exit

(* A step of the worker that touches rec alone.                            *)
LEMMA BeginKeeps == ASSUME IInv, NEW p \in Reconcilers, Begin(p) PROVE IInv'
<1>1. Working(p) /\ rec[p].at = "begin"
  BY DEF Begin, Working
<1>2. UNCHANGED <<ops, reg, disk, offered, tenants, deaths, onces>>
  BY DEF Begin
<1>3. CASE Row(p).status = "running"
  <2>. DEFINE r == [rec[p] EXCEPT !.at = "act"]
  <2>1. rec' = [rec EXCEPT ![p] = r] /\ lock' = lock
    BY <1>3 DEF Begin, IInv, TypeOK
  <2>2. r \in RecRecord /\ r.op = rec[p].op /\ r.step = rec[p].step /\ r.slot = rec[p].slot
        /\ r.at = "act"
    BY <1>1, WorkerIs DEF RecRecord, Places
  <2>. HIDE DEF r
  <2>3. rec'[p] = r
    BY <2>1 DEF IInv, TypeOK
  <2>4. WorkOK(p) /\ HasRow(p) /\ Type(p)' = Type(p)
    BY <1>1, <1>2, <2>2, <2>3, WorkerIs DEF Type
  <2>5. HasRow(p)'
    BY <1>2, <2>1, <2>2, <2>3, <2>4 DEF HasRow
  <2>6. Stepping(p)' /\ Stepping(p) /\ (Slotted(p)' <=> Slotted(p))
    BY <1>1, <2>2, <2>3, <2>4 DEF Stepping, Slotted
  <2>7. WorkOK(p)'
    BY <1>1, <1>2, <2>2, <2>3, <2>4, <2>5, <2>6 DEF WorkOK
  <2>. QED
    BY <1>1, <1>2, <2>1, <2>2, <2>7, WorkKeeps, RowsSame, TypesSame
<1>4. CASE Row(p).status # "running"
  BY <1>1, <1>2, <1>4, ExitKeeps DEF Begin
<1>. QED
  BY <1>3, <1>4

(* The worker's own slot has changed, the others have not.                 *)
LEMMA OneSlot ==
  ASSUME IInv, NEW s \in Slots, NEW d \in SlotRecord, disk' = [disk EXCEPT ![s] = d],
         UNCHANGED <<reg, tenants>>,
         d.marker = 0 => d.prepared /\ tenants[s] = {},
         reg[s].row = "deleted" => d.consumed /\ ~d.deployed
  PROVE  /\ disk' \in [Slots -> SlotRecord] /\ disk'[s] = d
         /\ \A u \in Slots : SlotOK(u)'
<1>1. disk'[s] = d /\ \A u \in Slots : u # s => disk'[u] = disk[u]
  BY DEF IInv, TypeOK
<1>2. \A u \in Slots : SlotOK(u)'
  BY <1>1 DEF IInv, SlotOK
<1>. QED
  BY <1>1, <1>2 DEF IInv, TypeOK

LEMMA Untouched ==
  ASSUME IInv, UNCHANGED <<reg, tenants, offered, deaths, onces>>
  PROVE  /\ reg' \in [Slots -> [row: {"absent", "live", "deleted"}, org: Orgs \cup {None}]]
         /\ tenants' \in [Slots -> SUBSET (1..Earlier)]
         /\ offered' \in BOOLEAN /\ deaths' \in Nat /\ onces' \in Nat
BY DEF IInv, TypeOK

(* A refusal: the worker goes to finish its row.                           *)
LEMMA RefusedKeeps ==
  ASSUME IInv, NEW p \in Reconcilers, Working(p), NEW code \in Codes,
         rec' = [rec EXCEPT ![p] = Refused(rec[p], code)], lock' = lock, ops' = ops,
         reg' = reg, offered' = offered, deaths' = deaths, onces' = onces,
         disk' \in [Slots -> SlotRecord], tenants' \in [Slots -> SUBSET (1..Earlier)],
         \A s \in Slots : SlotOK(s)'
  PROVE  IInv'
<1>1. PICK r \in RecRecord : /\ rec' = [rec EXCEPT ![p] = r] /\ r.op = rec[p].op
                             /\ r.step = rec[p].step /\ r.at = "finish"
  BY WorkerIs, RefusedIs
<1>2. rec'[p] = r /\ HasRow(p) /\ Type(p)' = Type(p)
  BY <1>1, WorkerIs DEF Type, IInv, TypeOK
<1>3. WorkOK(p)'
  <2>1. HasRow(p)'
    BY <1>1, <1>2 DEF HasRow
  <2>2. ~Stepping(p)' /\ ~Slotted(p)'
    BY <1>1, <1>2 DEF Stepping, Slotted
  <2>. QED
    BY <1>1, <1>2, <2>1, <2>2 DEF WorkOK
<1>4. /\ reg' \in [Slots -> [row: {"absent", "live", "deleted"}, org: Orgs \cup {None}]]
      /\ offered' \in BOOLEAN /\ deaths' \in Nat /\ onces' \in Nat
  BY DEF IInv, TypeOK
<1>. QED
  BY <1>1, <1>3, <1>4, WorkKeeps, RowsSame

LEMMA ActIs ==
  ASSUME IInv, NEW p \in Reconcilers, rec[p].at = "act"
  PROVE  /\ Working(p) /\ Stepping(p) /\ StepOf(p) = Steps[Type(p)][rec[p].step]
         /\ StepOf(p) # "allocate" => Slotted(p)
<1>1. Working(p)
  BY DEF Working
<1>2. Type(p) \in Types /\ rec[p].step \in 1..Len(Steps[Type(p)]) /\ rec[p].step \in 1..11
  BY <1>1, WorkerIs
<1>3. StepOf(p) = Steps[Type(p)][rec[p].step]
  BY DEF StepOf, Type
<1>. QED
  BY <1>1, <1>2, <1>3, StepIndex DEF Stepping, Slotted

LEMMA AllocateKeeps == ASSUME IInv, NEW p \in Reconcilers, Allocate(p) PROVE IInv'
<1>1. Working(p) /\ Type(p) = "create" /\ rec[p].step = 1
  <2>1. rec[p].at = "act" /\ StepOf(p) = "allocate"
    BY DEF Allocate
  <2>. QED
    BY <2>1, ActIs, WorkerIs, StepIndex
<1>2. UNCHANGED <<ops, reg, offered, lock, tenants, deaths, onces>>
  BY DEF Allocate
<1>3. CASE \E s \in Ready : /\ disk' = [disk EXCEPT ![s].marker = rec[p].op]
                            /\ rec' = [rec EXCEPT ![p] = [Passed(@) EXCEPT !.slot = s]]
  <2>1. PICK s \in Ready : /\ disk' = [disk EXCEPT ![s].marker = rec[p].op]
                           /\ rec' = [rec EXCEPT ![p] = [Passed(@) EXCEPT !.slot = s]]
    BY <1>3
  <2>2. s \in Slots /\ disk[s].marker = 0 /\ ~disk[s].consumed
    BY DEF Ready, SlotState
  <2>3. tenants[s] = {} /\ reg[s].row # "deleted" /\ disk[s] \in SlotRecord
    BY <2>2 DEF IInv, SlotOK, TypeOK
  <2>. DEFINE d == [disk[s] EXCEPT !.marker = rec[p].op]
              x == Passed(rec[p])
              r == [x EXCEPT !.slot = s]
  <2>4. rec[p].op \in 0..Earlier /\ rec[p].op # 0
    BY <1>1, WorkerIs DEF Ids, Earlier
  <2>5. d \in SlotRecord /\ d.marker = rec[p].op
    BY <2>3, <2>4 DEF SlotRecord
  <2>6. disk' = [disk EXCEPT ![s] = d] /\ rec' = [rec EXCEPT ![p] = r]
    BY <2>1, <2>2 DEF IInv, TypeOK
  <2>7. /\ x \in RecRecord /\ x.op = rec[p].op
        /\ x.at = "finish" \/ (x.at \in {"begin", "act"} /\ x.step = 2)
        /\ x.step \in 1..Len(Steps[Type(p)])
    BY <1>1, WorkerPassed
  <2>. HIDE DEF x
  <2>8. r \in RecRecord /\ r.op = rec[p].op /\ r.slot = s /\ r.at = x.at /\ r.step = x.step
    BY <2>2, <2>7 DEF RecRecord
  <2>. HIDE DEF r, d
  <2>9. disk' \in [Slots -> SlotRecord] /\ disk'[s] = d /\ \A u \in Slots : SlotOK(u)'
    BY <1>2, <2>2, <2>3, <2>4, <2>5, <2>6, OneSlot
  <2>10. rec'[p] = r /\ Type(p)' = Type(p) /\ HasRow(p)
    BY <1>1, <1>2, <2>6, <2>8, WorkerIs DEF Type, IInv, TypeOK
  <2>11. HasRow(p)'
    BY <1>2, <2>7, <2>8, <2>10 DEF HasRow
  <2>12. WorkOK(p)'
    BY <1>1, <1>2, <2>2, <2>3, <2>4, <2>5, <2>7, <2>8, <2>9, <2>10, <2>11
    DEF WorkOK, Stepping, Slotted
  <2>. QED
    BY <1>1, <1>2, <2>6, <2>8, <2>9, <2>12, WorkKeeps, RowsSame, Untouched
<1>4. CASE rec' = [rec EXCEPT ![p] = Refused(@, "capacity_exhausted")] /\ UNCHANGED disk
  <2>1. "capacity_exhausted" \in Codes /\ rec' = [rec EXCEPT ![p] = Refused(rec[p], "capacity_exhausted")]
    BY <1>4 DEF Codes, IInv, TypeOK
  <2>. QED
    BY <1>1, <1>2, <1>4, <2>1, RefusedKeeps, TypesSame
<1>. QED
  BY <1>3, <1>4 DEF Allocate

(* The worker gives its slot back: what a creation has before it deployed. *)
LEMMA GivesBack ==
  ASSUME IInv, NEW p \in Reconcilers, rec[p].at = "act", StepOf(p) \in {"profile", "key", "admit"}
  PROVE  /\ Working(p) /\ Stepping(p) /\ Slotted(p) /\ Type(p) = "create"
         /\ rec[p].step \in 2..4
         /\ rec[p].slot \in Slots /\ disk[rec[p].slot].marker # 0
         /\ tenants[rec[p].slot] = {} /\ reg[rec[p].slot].row # "deleted"
<1>1. Working(p) /\ Stepping(p) /\ Slotted(p)
  BY ActIs
<1>2. Type(p) = "create" /\ rec[p].step \in 2..4
  BY <1>1, ActIs, WorkerIs, StepIndex
<1>. QED
  BY <1>1, <1>2, WorkerIs DEF WorkOK

LEMMA SetProfileKeeps == ASSUME IInv, NEW p \in Reconcilers, SetProfile(p) PROVE IInv'
<1>. DEFINE s == rec[p].slot
            d == [disk[s] EXCEPT !.prepared = FALSE]
<1>1. PICK slot \in Slots : slot = rec[p].slot
  BY GivesBack DEF SetProfile
<1>2. /\ rec[p].at = "act" /\ Working(p) /\ Type(p) = "create" /\ rec[p].step = 2
      /\ disk[slot].marker # 0 /\ tenants[slot] = {} /\ reg[slot].row # "deleted"
      /\ disk[slot] \in SlotRecord
  <2>1. rec[p].step = 2
    BY GivesBack, ActIs, WorkerIs, StepIndex DEF SetProfile
  <2>. QED
    BY <1>1, <2>1, GivesBack DEF SetProfile, IInv, TypeOK
<1>3. UNCHANGED <<ops, reg, offered, lock, tenants, deaths, onces>>
  BY DEF SetProfile
<1>4. /\ disk' = [disk EXCEPT ![slot] = d] /\ d \in SlotRecord /\ d.marker = disk[slot].marker
      /\ d.prepared = FALSE /\ s = slot
  BY <1>1, <1>2 DEF SetProfile, SlotRecord, IInv, TypeOK
<1>5. disk' \in [Slots -> SlotRecord] /\ disk'[slot] = d /\ \A u \in Slots : SlotOK(u)'
  <2>. HIDE DEF d
  <2>. QED
    BY <1>2, <1>3, <1>4, OneSlot
<1>6. PICK r \in RecRecord :
        /\ rec' = [rec EXCEPT ![p] = r] /\ r.op = rec[p].op /\ r.slot = slot
        /\ \/ r.at \in {"finish", "restore"} /\ r.step = 2
           \/ r.at \in {"begin", "act"} /\ r.step = 3
        /\ r.step \in 1..Len(Steps[Type(p)])
  <2>1. CASE rec' = [rec EXCEPT ![p] = Passed(@)]
    <3>1. rec' = [rec EXCEPT ![p] = Passed(rec[p])]
      BY <2>1 DEF IInv, TypeOK
    <3>. DEFINE x == Passed(rec[p])
    <3>2. /\ x \in RecRecord /\ x.op = rec[p].op /\ x.slot = slot
          /\ x.step \in 1..Len(Steps[Type(p)])
          /\ (x.at = "finish" /\ x.step = 2) \/ (x.at \in {"begin", "act"} /\ x.step = 3)
      BY <1>1, <1>2, WorkerPassed
    <3>3. rec' = [rec EXCEPT ![p] = x]
      BY <3>1
    <3>. HIDE DEF x
    <3>. QED
      BY <3>2, <3>3
  <2>2. CASE rec' = [rec EXCEPT ![p].at = "restore", ![p].code = "could_not_determine"]
    <3>. DEFINE r == [rec[p] EXCEPT !.at = "restore", !.code = "could_not_determine"]
    <3>1. rec' = [rec EXCEPT ![p] = r]
      BY <2>2 DEF IInv, TypeOK
    <3>2. r \in RecRecord /\ r.op = rec[p].op /\ r.slot = slot /\ r.at = "restore" /\ r.step = 2
      BY <1>1, <1>2, WorkerIs DEF RecRecord, Places, Codes
    <3>3. r.step \in 1..Len(Steps[Type(p)])
      BY <1>2, <3>2, WorkerIs
    <3>. QED
      BY <3>1, <3>2, <3>3
  <2>. QED
    BY <2>1, <2>2 DEF SetProfile
<1>7. rec'[p] = r /\ Type(p)' = Type(p) /\ HasRow(p)
  BY <1>2, <1>3, <1>6, WorkerIs DEF Type, IInv, TypeOK
<1>8. HasRow(p)'
  BY <1>3, <1>6, <1>7 DEF HasRow
<1>. HIDE DEF d
<1>9. WorkOK(p)'
  BY <1>2, <1>3, <1>4, <1>5, <1>6, <1>7, <1>8 DEF WorkOK, Stepping, Slotted
<1>. QED
  BY <1>2, <1>3, <1>5, <1>6, <1>9, WorkKeeps, RowsSame, Untouched

LEMMA NameProjectKeeps == ASSUME IInv, NEW p \in Reconcilers, NameProject(p) PROVE IInv'
<1>1. PICK slot \in Slots : slot = rec[p].slot
  BY GivesBack DEF NameProject
<1>2. /\ Working(p) /\ Type(p) = "create" /\ rec[p].step = 3
      /\ disk[slot].marker # 0 /\ tenants[slot] = {} /\ reg[slot].row # "deleted"
  <2>1. rec[p].step = 3
    BY GivesBack, ActIs, WorkerIs, StepIndex DEF NameProject
  <2>. QED
    BY <1>1, <2>1, GivesBack DEF NameProject
<1>3. UNCHANGED <<reg, disk, offered, tenants, deaths, onces>>
  BY DEF NameProject
<1>4. CASE Row(p).status = "running"
  <2>. DEFINE x == Passed(rec[p])
  <2>1. PICK o \in Ids : o = rec[p].op /\ ops[o] \in OpRecord /\ ops[o].status = "running"
                          /\ ops[o].type = "create"
    BY <1>2, <1>4, WorkerIs DEF Row, Type
  <2>. DEFINE new == [ops[o] EXCEPT !.key = slot]
  <2>2. ops' = [ops EXCEPT ![o] = new] /\ rec' = [rec EXCEPT ![p] = x] /\ lock' = lock
    BY <1>1, <1>4, <2>1 DEF NameProject, IInv, TypeOK
  <2>3. /\ new \in OpRecord /\ new.status = "running" /\ new.type = "create"
        /\ new.code = ops[o].code /\ new.attempt = ops[o].attempt
    BY <2>1 DEF OpRecord
  <2>. HIDE DEF new
  <2>4. ops'[o] = new /\ \A u \in Ids : u # o => ops'[u] = ops[u]
    BY <2>2 DEF IInv, TypeOK
  <2>5. ops' \in [Ids -> OpRecord] /\ FailedHasCode' /\ NeverResumed'
    BY <2>1, <2>2, <2>3, <2>4 DEF IInv, TypeOK, FailedHasCode, NeverResumed
  <2>6. Rows'
    <3>1. Asked' = Asked
      BY <2>1, <2>3, <2>4 DEF Asked
    <3>. QED
      BY <2>1, <2>3, <2>4, <3>1 DEF IInv, Rows, Asked
  <2>7. /\ x \in RecRecord /\ x.op = o /\ x.slot = slot
        /\ x.step \in 1..Len(Steps[Type(p)])
        /\ x.at = "finish" \/ (x.at \in {"begin", "act"} /\ x.step = 4)
    BY <1>1, <1>2, <2>1, WorkerPassed
  <2>. HIDE DEF x
  <2>8. PICK r \in RecRecord : r = x
    BY <2>7
  <2>9. rec'[p] = r /\ Type(p)' = "create"
    BY <2>2, <2>3, <2>4, <2>7, <2>8 DEF Type, IInv, TypeOK
  <2>10. lock = p
    BY <1>2, WorkerIs
  <2>11. HasRow(p)'
    BY <1>2, <2>1, <2>2, <2>3, <2>4, <2>7, <2>8, <2>9, <2>10, TypesAre DEF HasRow
  <2>12. WorkOK(p)'
    BY <1>2, <1>3, <2>7, <2>8, <2>9, <2>11 DEF WorkOK, Stepping, Slotted
  <2>. QED
    BY <1>2, <1>3, <2>2, <2>5, <2>6, <2>7, <2>12, WorkKeeps, TypesSame
<1>5. CASE Row(p).status # "running"
  BY <1>2, <1>3, <1>5, ExitKeeps DEF NameProject
<1>. QED
  BY <1>4, <1>5

LEMMA NotAdmittedKeeps == ASSUME IInv, NEW p \in Reconcilers, NotAdmitted(p) PROVE IInv'
<1>1. PICK slot \in Slots : slot = rec[p].slot
  BY GivesBack DEF NotAdmitted
<1>2. /\ Working(p) /\ disk[slot].marker # 0 /\ tenants[slot] = {}
  BY <1>1, GivesBack DEF NotAdmitted
<1>3. UNCHANGED <<ops, reg, disk, offered, lock, tenants, deaths, onces>>
  BY DEF NotAdmitted
<1>4. PICK code \in Codes : rec' = [rec EXCEPT ![p].at = "restore", ![p].code = code]
  BY DEF NotAdmitted, Codes
<1>. DEFINE r == [rec[p] EXCEPT !.at = "restore", !.code = code]
<1>5. rec' = [rec EXCEPT ![p] = r]
  BY <1>4 DEF IInv, TypeOK
<1>6. /\ r \in RecRecord /\ r.op = rec[p].op /\ r.slot = slot /\ r.at = "restore"
      /\ r.step = rec[p].step
  BY <1>1, <1>2, WorkerIs DEF RecRecord, Places
<1>. HIDE DEF r
<1>7. rec'[p] = r /\ Type(p)' = Type(p) /\ HasRow(p)
  BY <1>2, <1>3, <1>5, <1>6, WorkerIs DEF Type, IInv, TypeOK
<1>8. HasRow(p)'
  BY <1>3, <1>6, <1>7 DEF HasRow
<1>9. WorkOK(p)'
  BY <1>1, <1>2, <1>3, <1>6, <1>7, <1>8 DEF WorkOK, Stepping, Slotted
<1>. QED
  BY <1>2, <1>3, <1>5, <1>6, <1>9, WorkKeeps, RowsSame, TypesSame

(* The worker in the middle of giving its slot back.                       *)
LEMMA BackIs ==
  ASSUME IInv, NEW p \in Reconcilers, rec[p].at \in {"restore", "unmark"}, NEW place \in Places
  PROVE  /\ Working(p) /\ rec[p].slot \in Slots /\ disk[rec[p].slot] \in SlotRecord
         /\ disk[rec[p].slot].marker # 0 /\ tenants[rec[p].slot] = {}
         /\ rec[p].at = "unmark" => disk[rec[p].slot].prepared
         /\ LET r == [rec[p] EXCEPT !.at = place] IN
            r \in RecRecord /\ r.op = rec[p].op /\ r.slot = rec[p].slot /\ r.step = rec[p].step
            /\ r.at = place
<1>1. Working(p)
  BY DEF Working
<1>2. WorkOK(p) /\ rec[p] \in RecRecord
  BY <1>1, WorkerIs
<1>3. rec[p].slot \in Slots
  BY <1>1, <1>2 DEF WorkOK
<1>. QED
  BY <1>1, <1>2, <1>3 DEF WorkOK, RecRecord, IInv, TypeOK

LEMMA RestoreKeeps == ASSUME IInv, NEW p \in Reconcilers, Restore(p) PROVE IInv'
<1>. DEFINE r == [rec[p] EXCEPT !.at = "unmark"]
<1>1. rec[p].at = "restore" /\ UNCHANGED <<ops, reg, offered, lock, tenants, deaths, onces>>
      /\ "unmark" \in Places
  BY DEF Restore, Places
<1>2. PICK slot \in Slots : slot = rec[p].slot
  BY <1>1, BackIs
<1>3. /\ Working(p) /\ disk[slot] \in SlotRecord /\ disk[slot].marker # 0 /\ tenants[slot] = {}
      /\ r \in RecRecord /\ r.op = rec[p].op /\ r.slot = slot /\ r.at = "unmark"
      /\ r.step = rec[p].step
  BY <1>1, <1>2, BackIs
<1>. DEFINE d == Restored(disk[slot])
<1>4. disk' = [disk EXCEPT ![slot] = d] /\ rec' = [rec EXCEPT ![p] = r]
  BY <1>2 DEF Restore, IInv, TypeOK
<1>5. /\ d \in SlotRecord /\ d.marker = disk[slot].marker /\ d.prepared
      /\ d.consumed = disk[slot].consumed /\ d.deployed = disk[slot].deployed
  BY <1>3 DEF Restored, SlotRecord
<1>. HIDE DEF d, r
<1>6. disk' \in [Slots -> SlotRecord] /\ disk'[slot] = d /\ \A u \in Slots : SlotOK(u)'
  <2>1. reg[slot].row = "deleted" => d.consumed /\ ~d.deployed
    BY <1>5 DEF IInv, SlotOK
  <2>. QED
    BY <1>1, <1>3, <1>4, <1>5, <2>1, OneSlot
<1>7. rec'[p] = r /\ Type(p)' = Type(p) /\ HasRow(p)
  BY <1>1, <1>3, <1>4, WorkerIs DEF Type, IInv, TypeOK
<1>8. HasRow(p)'
  BY <1>1, <1>3, <1>7 DEF HasRow
<1>9. WorkOK(p)'
  BY <1>1, <1>3, <1>5, <1>6, <1>7, <1>8 DEF WorkOK, Stepping, Slotted
<1>. QED
  BY <1>1, <1>3, <1>4, <1>6, <1>9, WorkKeeps, RowsSame, Untouched

LEMMA UnmarkKeeps == ASSUME IInv, NEW p \in Reconcilers, Unmark(p) PROVE IInv'
<1>. DEFINE r == [rec[p] EXCEPT !.at = "finish"]
<1>1. rec[p].at = "unmark" /\ UNCHANGED <<ops, reg, offered, lock, tenants, deaths, onces>>
      /\ "finish" \in Places
  BY DEF Unmark, Places
<1>2. PICK slot \in Slots : slot = rec[p].slot
  BY <1>1, BackIs
<1>3. /\ Working(p) /\ disk[slot] \in SlotRecord /\ disk[slot].prepared /\ tenants[slot] = {}
      /\ r \in RecRecord /\ r.op = rec[p].op /\ r.at = "finish" /\ r.step = rec[p].step
  BY <1>1, <1>2, BackIs
<1>. DEFINE d == Unmarked(disk[slot])
<1>4. disk' = [disk EXCEPT ![slot] = d] /\ rec' = [rec EXCEPT ![p] = r]
  BY <1>2 DEF Unmark, IInv, TypeOK
<1>5. /\ d \in SlotRecord /\ d.prepared = disk[slot].prepared
      /\ d.consumed = disk[slot].consumed /\ d.deployed = disk[slot].deployed
  <2>1. 0 \in 0..Earlier
    BY DEF Earlier
  <2>. QED
    BY <1>3, <2>1 DEF Unmarked, SlotRecord
<1>. HIDE DEF d, r
<1>6. disk' \in [Slots -> SlotRecord] /\ \A u \in Slots : SlotOK(u)'
  <2>1. reg[slot].row = "deleted" => d.consumed /\ ~d.deployed
    BY <1>5 DEF IInv, SlotOK
  <2>. QED
    BY <1>1, <1>3, <1>4, <1>5, <2>1, OneSlot
<1>7. rec'[p] = r /\ Type(p)' = Type(p) /\ HasRow(p)
  BY <1>1, <1>3, <1>4, WorkerIs DEF Type, IInv, TypeOK
<1>8. HasRow(p)'
  BY <1>1, <1>3, <1>7 DEF HasRow
<1>9. WorkOK(p)'
  BY <1>3, <1>7, <1>8 DEF WorkOK, Stepping, Slotted
<1>. QED
  BY <1>1, <1>3, <1>4, <1>6, <1>9, WorkKeeps, RowsSame, Untouched

(* What a command leaves: the marker and the manifest as they were, a      *)
(* tombstone where there was one, nothing deployed but by a deployment.    *)
LEMMA AfterIs ==
  ASSUME NEW step, NEW d \in SlotRecord
  PROVE  /\ After(step, d) \in SlotRecord
         /\ After(step, d).marker = d.marker /\ After(step, d).prepared = d.prepared
         /\ d.consumed => After(step, d).consumed
         /\ step = "retire" => ~After(step, d).deployed
         /\ step = "tombstone" => After(step, d).consumed /\ After(step, d).deployed = d.deployed
<1>1. CASE step \in {"deploy-1", "deploy-2", "redeploy"}
  BY <1>1 DEF After, SlotRecord
<1>2. CASE step \in {"enable", "disable", "start", "stop"}
  BY <1>2 DEF After, SlotRecord
<1>3. CASE step \in {"backup", "schedule", "unschedule"}
  BY <1>3 DEF After, SlotRecord
<1>4. CASE step \in {"tombstone", "retire"}
  BY <1>4 DEF After, SlotRecord
<1>5. CASE step \notin {"deploy-1", "deploy-2", "redeploy", "enable", "disable", "start", "stop",
                        "backup", "schedule", "unschedule", "tombstone", "retire"}
  <2>1. After(step, d) = d
    BY <1>5 DEF After
  <2>. QED
    BY <1>5, <2>1
<1>. QED
  BY <1>1, <1>2, <1>3, <1>4, <1>5

LEMMA LeftIs ==
  ASSUME NEW step, NEW d \in SlotRecord, NEW left \in Partly(step, d)
  PROVE  left \in SlotRecord /\ left.marker = d.marker /\ left.prepared = d.prepared
<1>1. CASE step # "retire"
  BY <1>1, AfterIs DEF Partly
<1>2. CASE step = "retire"
  <2>1. left \in RetirementStages(d)
    BY <1>2 DEF Partly
  <2>. QED
    BY <2>1 DEF RetirementStages, SlotRecord
<1>. QED
  BY <1>1, <1>2

(* A command, whatever it leaves, is run on the worker's own slot.         *)
LEMMA CommandIs ==
  ASSUME IInv, NEW p \in Reconcilers, rec[p].at = "act", StepOf(p) \in Commands
  PROVE  /\ Working(p) /\ Stepping(p) /\ Slotted(p) /\ rec[p].slot \in Slots
         /\ disk[rec[p].slot] \in SlotRecord /\ reg[rec[p].slot].row # "deleted"
         /\ Type(p) = "create" => disk[rec[p].slot].marker # 0 /\ rec[p].step > 3
         /\ StepOf(p) = "deploy-1" => Type(p) = "create" /\ tenants[rec[p].slot] = {}
         /\ (Type(p) = "create" /\ rec[p].step <= 4) => tenants[rec[p].slot] = {}
<1>1. /\ Working(p) /\ Stepping(p) /\ StepOf(p) = Steps[Type(p)][rec[p].step]
      /\ StepOf(p) \notin {"allocate", "profile", "key"} /\ Slotted(p)
  BY ActIs DEF Commands
<1>2. /\ WorkOK(p) /\ Type(p) \in Types /\ rec[p].step \in 1..Len(Steps[Type(p)])
      /\ rec[p].step \in 1..11
  BY <1>1, WorkerIs
<1>3. rec[p].slot \in Slots /\ reg[rec[p].slot].row # "deleted"
  BY <1>1, <1>2 DEF WorkOK
<1>4. Type(p) = "create" => rec[p].step \notin {1, 2, 3}
  <2>1. /\ StepOf(p) = "allocate" <=> Type(p) = "create" /\ rec[p].step = 1
        /\ StepOf(p) = "profile" <=> Type(p) = "create" /\ rec[p].step = 2
        /\ StepOf(p) = "key" <=> Type(p) = "create" /\ rec[p].step = 3
    BY <1>1, <1>2, StepIndex
  <2>. QED
    BY <1>1, <2>1
<1>5. StepOf(p) = "deploy-1" => Type(p) = "create" /\ rec[p].step = 5
  <2>1. StepOf(p) = "deploy-1" <=> Type(p) = "create" /\ rec[p].step = 5
    BY <1>1, <1>2, StepIndex
  <2>. QED
    BY <2>1
<1>. QED
  BY <1>1, <1>2, <1>3, <1>4, <1>5 DEF WorkOK, IInv, TypeOK

LEMMA CommandSlots ==
  ASSUME IInv, NEW p \in Reconcilers, rec[p].at = "act", StepOf(p) \in Commands,
         NEW left \in SlotRecord,
         left.marker = disk[rec[p].slot].marker, left.prepared = disk[rec[p].slot].prepared,
         disk' = [disk EXCEPT ![rec[p].slot] = left], Deploying(p), reg' = reg
  PROVE  /\ disk' \in [Slots -> SlotRecord] /\ tenants' \in [Slots -> SUBSET (1..Earlier)]
         /\ disk'[rec[p].slot] = left /\ \A s \in Slots : SlotOK(s)'
         /\ StepOf(p) # "deploy-1" => tenants' = tenants
<1>1. PICK slot \in Slots : slot = rec[p].slot
  BY CommandIs
<1>2. PICK o \in Ids : o = rec[p].op
  BY CommandIs, WorkerIs
<1>3. /\ Type(p) = "create" => left.marker # 0
      /\ StepOf(p) = "deploy-1" => Type(p) = "create" /\ tenants[slot] = {}
      /\ reg[slot].row # "deleted"
  BY <1>1, CommandIs
<1>4. disk'[slot] = left /\ \A s \in Slots : s # slot => disk'[s] = disk[s]
  BY <1>1 DEF IInv, TypeOK
<1>5. /\ tenants' \in [Slots -> SUBSET (1..Earlier)]
      /\ \A s \in Slots : s # slot => tenants'[s] = tenants[s]
      /\ StepOf(p) = "deploy-1" => tenants'[slot] = {o}
      /\ StepOf(p) # "deploy-1" => tenants' = tenants
  <2>1. CASE StepOf(p) = "deploy-1"
    <3>1. tenants' = [tenants EXCEPT ![slot] = tenants[slot] \cup {o}] /\ o \in 1..Earlier
      BY <1>1, <1>2, <2>1 DEF Deploying, IInv, TypeOK, Ids, Earlier
    <3>. QED
      BY <1>3, <2>1, <3>1 DEF IInv, TypeOK
  <2>2. CASE StepOf(p) # "deploy-1"
    BY <2>2 DEF Deploying, IInv, TypeOK
  <2>. QED
    BY <2>1, <2>2
<1>6. ASSUME NEW s \in Slots PROVE SlotOK(s)'
  <2>1. CASE s = slot
    BY <1>1, <1>3, <1>4, <1>5, <2>1 DEF IInv, SlotOK
  <2>2. CASE s # slot
    BY <1>4, <1>5, <2>2 DEF IInv, SlotOK
  <2>. QED
    BY <2>1, <2>2
<1>7. disk' \in [Slots -> SlotRecord]
  BY DEF IInv, TypeOK
<1>. QED
  BY <1>1, <1>4, <1>5, <1>6, <1>7

LEMMA SucceedKeeps == ASSUME IInv, NEW p \in Reconcilers, Succeed(p) PROVE IInv'
<1>1. /\ rec[p].at = "act" /\ StepOf(p) \in Commands /\ Deploying(p)
      /\ UNCHANGED <<ops, reg, offered, lock, deaths, onces>>
  BY DEF Succeed
<1>2. PICK slot \in Slots : slot = rec[p].slot
  BY <1>1, CommandIs
<1>3. /\ Working(p) /\ disk[slot] \in SlotRecord /\ reg[slot].row # "deleted"
      /\ Type(p) = "create" => disk[slot].marker # 0
      /\ (Type(p) = "create" /\ rec[p].step <= 4) => tenants[slot] = {}
      /\ Stepping(p) /\ StepOf(p) = Steps[Type(p)][rec[p].step]
  BY <1>1, <1>2, CommandIs, ActIs
<1>. DEFINE left == After(StepOf(p), disk[slot])
            x == Passed(rec[p])
<1>4. /\ disk' = [disk EXCEPT ![slot] = left] /\ rec' = [rec EXCEPT ![p] = x]
  BY <1>2 DEF Succeed, IInv, TypeOK
<1>5. /\ left \in SlotRecord /\ left.marker = disk[slot].marker
      /\ left.prepared = disk[slot].prepared
      /\ StepOf(p) = "retire" => ~left.deployed
      /\ StepOf(p) = "tombstone" => left.consumed /\ left.deployed = disk[slot].deployed
  BY <1>3, AfterIs
<1>6. /\ x \in RecRecord /\ x.op = rec[p].op /\ x.slot = slot
      /\ x.step \in 1..Len(Steps[Type(p)])
      /\ x.at = "finish" \/ (x.at \in {"begin", "act"} /\ x.step = rec[p].step + 1)
  BY <1>2, <1>3, WorkerPassed
<1>. HIDE DEF left, x
<1>7. /\ disk' \in [Slots -> SlotRecord] /\ tenants' \in [Slots -> SUBSET (1..Earlier)]
      /\ disk'[slot] = left /\ \A s \in Slots : SlotOK(s)'
      /\ StepOf(p) # "deploy-1" => tenants' = tenants
  BY <1>1, <1>2, <1>4, <1>5, CommandSlots
<1>8. PICK r \in RecRecord : r = x
  BY <1>6
<1>9. rec'[p] = r /\ Type(p)' = Type(p) /\ HasRow(p)
  BY <1>1, <1>3, <1>4, <1>6, <1>8, WorkerIs DEF Type, IInv, TypeOK
<1>10. HasRow(p)'
  BY <1>1, <1>6, <1>8, <1>9 DEF HasRow
<1>11. /\ Type(p) \in Types /\ rec[p].step \in 1..Len(Steps[Type(p)]) /\ rec[p].step \in 1..11
       /\ WorkOK(p)
  BY <1>3, WorkerIs
<1>12. rec[p].step <= 4 => StepOf(p) # "deploy-1"
  BY <1>3, <1>11, StepIndex
<1>13. Type(p) = "delete" => (rec[p].step = 1 /\ StepOf(p) = "retire")
                            \/ (rec[p].step = 2 /\ StepOf(p) = "tombstone")
  <2>1. StepOf(p) # "unregister"
    BY <1>1 DEF Commands
  <2>2. Type(p) = "delete" => rec[p].step \in 1..3
    BY <1>11, Lengths
  <2>. QED
    BY <1>3, <1>11, <2>1, <2>2, StepIndex
<1>14. r.at \in {"begin", "act"} =>
         /\ Type(p) = "create" => left.marker # 0 /\ (r.step <= 5 => tenants'[slot] = {})
         /\ Type(p) = "delete" => ~left.deployed /\ (r.step > 2 => left.consumed)
  BY <1>2, <1>3, <1>5, <1>6, <1>7, <1>8, <1>11, <1>12, <1>13 DEF WorkOK
<1>15. WorkOK(p)'
  BY <1>1, <1>2, <1>3, <1>6, <1>7, <1>8, <1>9, <1>10, <1>14 DEF WorkOK, Stepping, Slotted
<1>. QED
  BY <1>1, <1>3, <1>4, <1>6, <1>7, <1>15, WorkKeeps, RowsSame DEF IInv, TypeOK

LEMMA FailKeeps == ASSUME IInv, NEW p \in Reconcilers, Fail(p) PROVE IInv'
<1>1. /\ rec[p].at = "act" /\ StepOf(p) \in Commands /\ Deploying(p)
      /\ UNCHANGED <<ops, reg, offered, lock, deaths, onces>>
  BY DEF Fail
<1>2. Working(p) /\ disk[rec[p].slot] \in SlotRecord
  BY <1>1, CommandIs
<1>3. PICK left \in Partly(StepOf(p), disk[rec[p].slot]) : disk' = [disk EXCEPT ![rec[p].slot] = left]
  BY DEF Fail
<1>4. /\ disk' \in [Slots -> SlotRecord] /\ tenants' \in [Slots -> SUBSET (1..Earlier)]
      /\ \A s \in Slots : SlotOK(s)'
  <2>1. /\ left \in SlotRecord /\ left.marker = disk[rec[p].slot].marker
        /\ left.prepared = disk[rec[p].slot].prepared
    BY <1>2, LeftIs
  <2>. QED
    BY <1>1, <1>3, <2>1, CommandSlots
<1>5. PICK code \in Codes : rec' = [rec EXCEPT ![p] = Refused(rec[p], code)]
  BY DEF Fail, CodesOf, Codes, IInv, TypeOK
<1>. QED
  BY <1>1, <1>2, <1>4, <1>5, RefusedKeeps

LEMMA RegisterKeeps == ASSUME IInv, NEW p \in Reconcilers, Register(p) PROVE IInv'
<1>1. /\ rec[p].at = "act" /\ StepOf(p) = "registry"
      /\ UNCHANGED <<ops, disk, offered, lock, tenants, deaths, onces>>
  BY DEF Register
<1>2. /\ Working(p) /\ Stepping(p) /\ Slotted(p) /\ WorkOK(p)
      /\ StepOf(p) = Steps[Type(p)][rec[p].step]
      /\ rec[p].step \in 1..Len(Steps[Type(p)]) /\ Type(p) \in Types /\ rec[p].step \in 1..11
  BY <1>1, ActIs, WorkerIs
<1>3. Type(p) \in {"create", "resize"} /\ (Type(p) = "create" => rec[p].step > 5)
  <2>1. Type(p) \in {"create", "resize"}
    BY <1>1, <1>2, StepIndex
  <2>2. ASSUME Type(p) = "create" PROVE rec[p].step \notin {1, 2, 3, 4, 5}
    BY <1>1, <1>2, <2>2 DEF Steps
  <2>. QED
    BY <1>2, <2>1, <2>2
<1>4. PICK s \in Slots : s = rec[p].slot /\ reg[s].row # "deleted"
                         /\ (Type(p) = "create" => disk[s].marker # 0)
  BY <1>2 DEF WorkOK
<1>5. CASE UNCHANGED reg /\ rec' = [rec EXCEPT ![p] = Refused(@, "could_not_determine")]
  <2>1. "could_not_determine" \in Codes
        /\ rec' = [rec EXCEPT ![p] = Refused(rec[p], "could_not_determine")]
    BY <1>5 DEF Codes, IInv, TypeOK
  <2>. QED
    BY <1>1, <1>2, <1>5, <2>1, RefusedKeeps, TypesSame
<1>6. CASE /\ reg' = [reg EXCEPT ![s] = [row |-> "live", org |-> Row(p).org]]
           /\ rec' = [rec EXCEPT ![p] = Passed(@)]
  <2>. DEFINE x == Passed(rec[p])
  <2>1. /\ reg' \in [Slots -> [row: {"absent", "live", "deleted"}, org: Orgs \cup {None}]]
        /\ reg'[s].row = "live" /\ \A u \in Slots : u # s => reg'[u] = reg[u]
    <3>1. Row(p).org \in Orgs \cup {None}
      BY <1>2, WorkerIs DEF Row, OpRecord
    <3>. QED
      BY <1>6, <3>1 DEF IInv, TypeOK
  <2>2. \A u \in Slots : SlotOK(u)'
    BY <1>1, <2>1 DEF IInv, SlotOK
  <2>3. /\ x \in RecRecord /\ x.op = rec[p].op /\ x.slot = s
        /\ x.step \in 1..Len(Steps[Type(p)])
        /\ x.at = "finish" \/ (x.at \in {"begin", "act"} /\ x.step = rec[p].step + 1)
    BY <1>2, <1>4, WorkerPassed
  <2>4. rec' = [rec EXCEPT ![p] = x]
    BY <1>6 DEF IInv, TypeOK
  <2>. HIDE DEF x
  <2>5. PICK r \in RecRecord : r = x
    BY <2>3
  <2>6. rec'[p] = r /\ Type(p)' = Type(p) /\ HasRow(p)
    BY <1>1, <1>2, <2>3, <2>4, <2>5, WorkerIs DEF Type, IInv, TypeOK
  <2>7. HasRow(p)'
    BY <1>1, <2>3, <2>5, <2>6 DEF HasRow
  <2>8. WorkOK(p)'
    BY <1>1, <1>2, <1>3, <1>4, <2>1, <2>3, <2>5, <2>6, <2>7 DEF WorkOK, Stepping, Slotted
  <2>. QED
    BY <1>1, <1>2, <2>1, <2>2, <2>3, <2>4, <2>8, WorkKeeps, RowsSame DEF IInv, TypeOK
<1>. QED
  BY <1>4, <1>5, <1>6 DEF Register

LEMMA NotAnsweredKeeps == ASSUME IInv, NEW p \in Reconcilers, NotAnswered(p) PROVE IInv'
<1>1. Working(p) /\ UNCHANGED <<ops, reg, disk, offered, lock, tenants, deaths, onces>>
  BY DEF NotAnswered, Working
<1>2. "could_not_determine" \in Codes
      /\ rec' = [rec EXCEPT ![p] = Refused(rec[p], "could_not_determine")]
  BY DEF NotAnswered, Codes, IInv, TypeOK
<1>. QED
  BY <1>1, <1>2, RefusedKeeps, TypesSame

LEMMA UnregisterKeeps == ASSUME IInv, NEW p \in Reconcilers, Unregister(p) PROVE IInv'
<1>1. /\ rec[p].at = "act" /\ StepOf(p) = "unregister"
      /\ UNCHANGED <<ops, disk, offered, lock, tenants, deaths, onces>>
  BY DEF Unregister
<1>2. /\ Working(p) /\ Stepping(p) /\ Slotted(p) /\ WorkOK(p)
      /\ StepOf(p) = Steps[Type(p)][rec[p].step]
      /\ rec[p].step \in 1..Len(Steps[Type(p)]) /\ Type(p) \in Types
  BY <1>1, ActIs, WorkerIs
<1>3. Type(p) = "delete" /\ rec[p].step = 3
  BY <1>1, <1>2, StepIndex
<1>4. PICK s \in Slots : s = rec[p].slot /\ disk[s].consumed /\ ~disk[s].deployed
  BY <1>2, <1>3 DEF WorkOK
<1>5. /\ reg' \in [Slots -> [row: {"absent", "live", "deleted"}, org: Orgs \cup {None}]]
      /\ \A u \in Slots : u # s => reg'[u] = reg[u]
  BY <1>4 DEF Unregister, IInv, TypeOK
<1>6. \A u \in Slots : SlotOK(u)'
  <2>1. SlotOK(s)'
    BY <1>1, <1>4 DEF IInv, SlotOK
  <2>. QED
    BY <1>1, <1>5, <2>1 DEF IInv, SlotOK
<1>. DEFINE x == Passed(rec[p])
<1>7. /\ x \in RecRecord /\ x.op = rec[p].op
      /\ x.step \in 1..Len(Steps[Type(p)])
      /\ x.at = "finish" \/ (x.at \in {"begin", "act"} /\ x.step = rec[p].step + 1)
  BY <1>2, WorkerPassed
<1>8. x.at = "finish"
  BY <1>3, <1>7, Lengths
<1>9. rec' = [rec EXCEPT ![p] = x]
  BY DEF Unregister, IInv, TypeOK
<1>. HIDE DEF x
<1>10. PICK r \in RecRecord : r = x
  BY <1>7
<1>11. rec'[p] = r /\ Type(p)' = Type(p) /\ HasRow(p)
  BY <1>1, <1>2, <1>7, <1>9, <1>10, WorkerIs DEF Type, IInv, TypeOK
<1>12. HasRow(p)'
  BY <1>1, <1>7, <1>10, <1>11 DEF HasRow
<1>13. WorkOK(p)'
  BY <1>8, <1>10, <1>11, <1>12 DEF WorkOK, Stepping, Slotted
<1>. QED
  BY <1>1, <1>2, <1>5, <1>6, <1>7, <1>9, <1>13, WorkKeeps, RowsSame DEF IInv, TypeOK

LEMMA FinishKeeps == ASSUME IInv, NEW p \in Reconcilers, Finish(p) PROVE IInv'
<1>1. Working(p)
  BY DEF Finish, Working
<1>2. UNCHANGED <<reg, disk, offered, tenants, deaths, onces>>
  BY DEF Finish
<1>3. CASE Row(p).status = "running"
  <2>1. PICK o \in Ids : o = rec[p].op /\ ops[o] \in OpRecord /\ ops[o].status = "running"
    BY <1>1, <1>3, WorkerIs DEF Row
  <2>2. PICK code \in Codes \cup {None} : code = rec[p].code
    BY <1>1, WorkerIs DEF RecRecord
  <2>3. PICK status \in {"succeeded", "failed"} : status = IF code = None THEN "succeeded" ELSE "failed"
    OBVIOUS
  <2>. DEFINE new == [ops[o] EXCEPT !.status = status, !.code = code]
  <2>4. ops' = [ops EXCEPT ![o] = new] /\ rec' = [rec EXCEPT ![p] = At("record")] /\ lock' = lock
    BY <1>3, <2>1, <2>2, <2>3 DEF Finish, IInv, TypeOK
  <2>5. /\ new \in OpRecord /\ new.status = status /\ new.type = ops[o].type /\ new.key = ops[o].key
        /\ new.code = code /\ new.attempt = ops[o].attempt
    BY <2>1 DEF OpRecord
  <2>. HIDE DEF new
  <2>6. ops'[o] = new /\ \A u \in Ids : u # o => ops'[u] = ops[u]
    BY <2>4 DEF IInv, TypeOK
  <2>7. ops' \in [Ids -> OpRecord] /\ FailedHasCode' /\ NeverResumed'
    BY <2>1, <2>3, <2>4, <2>5, <2>6 DEF IInv, TypeOK, FailedHasCode, NeverResumed
  <2>8. Rows'
    <3>1. Asked' = Asked
      BY <2>1, <2>5, <2>6 DEF Asked
    <3>. QED
      BY <2>1, <2>5, <2>6, <3>1 DEF IInv, Rows, Asked
  <2>. QED
    BY <1>1, <1>2, <2>4, <2>7, <2>8, EndKeeps, TypesSame
<1>4. CASE Row(p).status # "running"
  BY <1>1, <1>2, <1>4, ExitKeeps DEF Finish
<1>. QED
  BY <1>3, <1>4

LEMMA DieKeeps == ASSUME IInv, NEW p \in Reconcilers, Die(p) PROVE IInv'
<1>1. UNCHANGED <<ops, reg, offered, onces>> /\ deaths' \in Nat /\ Exit(p)
  BY DEF Die, IInv, TypeOK
<1>2. CASE ~Working(p)
  <2>1. rec[p].at # "act" /\ UNCHANGED <<disk, tenants>>
    BY <1>2 DEF Die, Working
  <2>2. At("off") \in RecRecord /\ At("off").at = "off"
    BY AtType DEF Places
  <2>3. \A s \in Slots : SameSlot(s)
    BY <1>1, <2>1 DEF SameSlot
  <2>. QED
    BY <1>1, <1>2, <2>1, <2>2, <2>3, IdleKeeps DEF Exit, IInv, TypeOK
<1>3. CASE Working(p) /\ ~(rec[p].at = "act" /\ StepOf(p) \in Commands)
  <2>1. UNCHANGED <<disk, tenants>>
    BY <1>3 DEF Die
  <2>2. disk' \in [Slots -> SlotRecord] /\ tenants' \in [Slots -> SUBSET (1..Earlier)]
        /\ \A s \in Slots : SlotOK(s)'
    BY <1>1, <2>1 DEF IInv, TypeOK, SlotOK
  <2>. QED
    BY <1>1, <1>3, <2>2, EndKeeps, RowsSame DEF Exit, IInv, TypeOK
<1>4. CASE Working(p) /\ rec[p].at = "act" /\ StepOf(p) \in Commands
  <2>1. Deploying(p) /\ disk[rec[p].slot] \in SlotRecord
    BY <1>4, CommandIs DEF Die
  <2>2. PICK left \in Partly(StepOf(p), disk[rec[p].slot]) :
          disk' = [disk EXCEPT ![rec[p].slot] = left]
    BY <1>4 DEF Die
  <2>3. /\ disk' \in [Slots -> SlotRecord] /\ tenants' \in [Slots -> SUBSET (1..Earlier)]
        /\ \A s \in Slots : SlotOK(s)'
    <3>1. /\ left \in SlotRecord /\ left.marker = disk[rec[p].slot].marker
          /\ left.prepared = disk[rec[p].slot].prepared
      BY <2>1, LeftIs
    <3>. QED
      BY <1>1, <1>4, <2>1, <2>2, <3>1, CommandSlots
  <2>. QED
    BY <1>1, <1>4, <2>3, EndKeeps, RowsSame DEF Exit, IInv, TypeOK
<1>. QED
  BY <1>2, <1>3, <1>4

-----------------------------------------------------------------------------
(* The theorems.                                                           *)

LEMMA StepIInv == IInv /\ [Next]_vars => IInv'
<1>. SUFFICES ASSUME IInv, [Next]_vars PROVE IInv'
  OBVIOUS
<1>1. ASSUME NEW g \in Orgs, RequestCreation(g) PROVE IInv'
  <2>1. "create" \in Types /\ None \in Slots \cup {None} /\ Insert("create", g, None)
    BY <1>1, TypesAre DEF RequestCreation
  <2>. QED
    BY <2>1, InsertKeeps
<1>2. ASSUME NEW s \in Slots, NEW t \in Types \ {"create"}, RequestWrite(t, s) PROVE IInv'
  <2>1. reg[s].org \in Orgs \cup {None} /\ t # "create" /\ Insert(t, reg[s].org, s)
    BY <1>2 DEF RequestWrite, IInv, TypeOK
  <2>. QED
    BY <2>1, InsertKeeps
<1>3. ASSUME NEW o \in Ids, Cancel(o) PROVE IInv'
  BY <1>3, CancelKeeps
<1>4. ASSUME NEW p \in Reconcilers, Start(p) \/ Die(p) PROVE IInv'
  BY <1>4, StartKeeps, DieKeeps
<1>5. ASSUME NEW p \in Reconcilers, Work(p) PROVE IInv'
  <2>1. CASE Recover(p) \/ Quarantine(p) \/ Recovered(p) \/ Record(p)
    BY <2>1, RecoverKeeps, QuarantineKeeps, RecoveredKeeps, RecordKeeps
  <2>2. CASE Claim(p) \/ (p = "once" /\ Leave)
    BY <2>2, ClaimKeeps, LeaveKeeps
  <2>3. CASE Begin(p) \/ Allocate(p) \/ SetProfile(p) \/ NameProject(p) \/ NotAdmitted(p)
    BY <2>3, BeginKeeps, AllocateKeeps, SetProfileKeeps, NameProjectKeeps, NotAdmittedKeeps
  <2>4. CASE Restore(p) \/ Unmark(p) \/ Succeed(p) \/ Fail(p)
    BY <2>4, RestoreKeeps, UnmarkKeeps, SucceedKeeps, FailKeeps
  <2>5. CASE Register(p) \/ Unregister(p) \/ NotAnswered(p) \/ Finish(p)
    BY <2>5, RegisterKeeps, UnregisterKeeps, NotAnsweredKeeps, FinishKeeps
  <2>. QED
    BY <1>5, <2>1, <2>2, <2>3, <2>4, <2>5 DEF Work
<1>6. CASE RecordAgain
  BY <1>6, RecordAgainKeeps
<1>7. CASE UNCHANGED vars
  <2>1. TypeOK' /\ Rows' /\ NeverResumed'
    BY <1>7 DEF vars, IInv, TypeOK, FailedHasCode, Rows, Asked, NeverResumed
  <2>2. \A s \in Slots : SlotOK(s)'
    BY <1>7 DEF vars, IInv, SlotOK
  <2>3. \A p \in Reconcilers : WorkOK(p)'
    BY <1>7 DEF vars, IInv, WorkOK, Working, HasRow, Type, Stepping, Slotted
  <2>. QED
    BY <2>1, <2>2, <2>3 DEF IInv
<1>. QED
  BY <1>1, <1>2, <1>3, <1>4, <1>5, <1>6, <1>7 DEF Next

THEOREM Inductive == Spec => []IInv
<1>. QED
  BY InitIInv, StepIInv, PTL DEF Spec

(* The rows, the registry, the slots and the reconcilers keep their types, *)
(* and a row has a code exactly when it failed (the table's CHECK).        *)
THEOREM OperationsTypeCorrect == Spec => []TypeOK
<1>1. IInv => TypeOK
  BY DEF IInv
<1>. QED
  BY <1>1, Inductive, PTL

(* No operation is executed twice, whatever died while it ran (D2152).     *)
THEOREM NothingIsResumed == Spec => []NeverResumed
<1>1. IInv => NeverResumed
  BY DEF IInv
<1>. QED
  BY <1>1, Inductive, PTL

(* No two creations ever deploy on one slot, and a slot that reads ready   *)
(* bears nothing of an earlier one.                                        *)
THEOREM SlotsAreUsedOnce == Spec => []SlotUsedOnce
<1>1. ASSUME IInv, NEW s \in Slots
      PROVE  /\ Cardinality(tenants[s]) <= 1
             /\ SlotState(disk[s]) = "ready" => disk[s].prepared /\ tenants[s] = {}
  <2>1. SlotOK(s)
    BY <1>1 DEF IInv
  <2>2. Cardinality(tenants[s]) <= 1
    <3>1. CASE tenants[s] = {}
      BY <3>1, FS_EmptySet
    <3>2. CASE tenants[s] # {}
      <4>1. PICK o : tenants[s] = {o}
        BY <2>1, <3>2 DEF SlotOK
      <4>2. Cardinality({o}) = 1
        BY FS_Singleton
      <4>. QED
        BY <4>1, <4>2
    <3>. QED
      BY <3>1, <3>2
  <2>3. SlotState(disk[s]) = "ready" => disk[s].marker = 0
    BY DEF SlotState
  <2>. QED
    BY <2>1, <2>2, <2>3 DEF SlotOK
<1>2. IInv => SlotUsedOnce
  BY <1>1 DEF SlotUsedOnce
<1>. QED
  BY <1>2, Inductive, PTL

(* What the registry calls deleted has left the host, its slot entombed.   *)
THEOREM WhatIsDeletedIsGone == Spec => []DeletedIsGone
<1>1. IInv => DeletedIsGone
  BY DEF IInv, SlotOK, DeletedIsGone
<1>. QED
  BY <1>1, Inductive, PTL

-----------------------------------------------------------------------------
(* Who works on what, as long as nobody starts a reconciler beside one     *)
(* that works.                                                             *)

(* What a recovery still has to do was begun, and nobody works on it.      *)
Runs ==
  \A p \in Reconcilers :
    /\ \A o \in rec[p].todo : ops[o].status \notin {"none", "pending"}
    /\ Working(p) => /\ ops[rec[p].op].status = "running"
                     /\ \A q \in Reconcilers : rec[p].op \notin rec[q].todo

LEMMA RunsKeep ==
  ASSUME Runs,
         \A q \in Reconcilers :
           /\ rec'[q].todo \subseteq rec[q].todo
           /\ \A o \in rec[q].todo : ops'[o].status \notin {"none", "pending"}
           /\ Working(q)' => /\ Working(q) /\ rec'[q].op = rec[q].op
                             /\ ops'[rec[q].op].status = "running"
  PROVE  Runs'
BY DEF Runs

(* A reconciler moves, with the rows as they were.                         *)
LEMMA MoveRuns ==
  ASSUME IInv, Runs, ops' = ops, NEW p \in Reconcilers, NEW r, rec' = [rec EXCEPT ![p] = r],
         r.todo \subseteq rec[p].todo,
         r.at \in {"begin", "act", "restore", "unmark", "finish"} =>
           Working(p) /\ r.op = rec[p].op
  PROVE  Runs'
<1>1. rec'[p] = r /\ \A q \in Reconcilers : q # p => rec'[q] = rec[q]
  BY DEF IInv, TypeOK
<1>2. ASSUME NEW q \in Reconcilers
      PROVE  /\ rec'[q].todo \subseteq rec[q].todo
             /\ \A o \in rec[q].todo : ops'[o].status \notin {"none", "pending"}
             /\ Working(q)' => /\ Working(q) /\ rec'[q].op = rec[q].op
                               /\ ops'[rec[q].op].status = "running"
  BY <1>1 DEF Runs, Working
<1>. QED
  BY <1>2, RunsKeep

LEMMA IdleRuns ==
  ASSUME IInv, Runs, ops' = ops, NEW p \in Reconcilers, NEW place \in {"off", "idle", "record"},
         rec' = [rec EXCEPT ![p] = At(place)]
  PROVE  Runs'
<1>1. At(place).todo = {} /\ At(place).at = place
  BY DEF At
<1>. QED
  BY <1>1, MoveRuns

LEMMA PassedRuns ==
  ASSUME NEW r \in RecRecord, NEW code
  PROVE  /\ Passed(r).op = r.op /\ Passed(r).todo = r.todo
         /\ Refused(r, code).op = r.op /\ Refused(r, code).todo = r.todo
BY DEF Passed, Refused, RecRecord

(* A step of the worker, with the rows as they were.                       *)
LEMMA WorkerRuns ==
  ASSUME IInv, Runs, NEW p \in Reconcilers,
         \/ Begin(p) \/ Allocate(p) \/ SetProfile(p) \/ NotAdmitted(p) \/ Restore(p) \/ Unmark(p)
         \/ Succeed(p) \/ Fail(p) \/ Register(p) \/ Unregister(p) \/ NotAnswered(p)
  PROVE  Runs'
<1>1. ops' = ops /\ Working(p) /\ rec[p] \in RecRecord
  <2>1. ops' = ops /\ Working(p)
    BY DEF Begin, Allocate, SetProfile, NotAdmitted, Restore, Unmark, Succeed, Fail, Register,
           Unregister, NotAnswered, Working
  <2>. QED
    BY <2>1, WorkerIs
<1>2. CASE rec' = [rec EXCEPT ![p] = At("off")]
  BY <1>1, <1>2, IdleRuns
<1>3. CASE \E at \in Places : rec' = [rec EXCEPT ![p].at = at]
  <2>1. PICK at \in Places : rec' = [rec EXCEPT ![p] = [rec[p] EXCEPT !.at = at]]
    BY <1>3 DEF IInv, TypeOK
  <2>2. /\ [rec[p] EXCEPT !.at = at].todo = rec[p].todo
        /\ [rec[p] EXCEPT !.at = at].op = rec[p].op
    BY <1>1 DEF RecRecord
  <2>. QED
    BY <1>1, <2>1, <2>2, MoveRuns
<1>4. CASE \E at \in Places, code \in Codes : rec' = [rec EXCEPT ![p].at = at, ![p].code = code]
  <2>1. PICK at \in Places, code \in Codes :
          rec' = [rec EXCEPT ![p] = [rec[p] EXCEPT !.at = at, !.code = code]]
    BY <1>4 DEF IInv, TypeOK
  <2>2. /\ [rec[p] EXCEPT !.at = at, !.code = code].todo = rec[p].todo
        /\ [rec[p] EXCEPT !.at = at, !.code = code].op = rec[p].op
    BY <1>1 DEF RecRecord
  <2>. QED
    BY <1>1, <2>1, <2>2, MoveRuns
<1>5. CASE rec' = [rec EXCEPT ![p] = Passed(@)]
  <2>1. rec' = [rec EXCEPT ![p] = Passed(rec[p])]
    BY <1>5 DEF IInv, TypeOK
  <2>. QED
    BY <1>1, <2>1, PassedRuns, MoveRuns
<1>6. CASE \E s \in Slots : rec' = [rec EXCEPT ![p] = [Passed(@) EXCEPT !.slot = s]]
  <2>. DEFINE x == Passed(rec[p])
  <2>1. PICK s \in Slots : rec' = [rec EXCEPT ![p] = [x EXCEPT !.slot = s]]
    BY <1>6 DEF IInv, TypeOK
  <2>2. x \in RecRecord /\ x.op = rec[p].op /\ x.todo = rec[p].todo
    BY <1>1, WorkerPassed, PassedRuns
  <2>. HIDE DEF x
  <2>3. [x EXCEPT !.slot = s].op = rec[p].op /\ [x EXCEPT !.slot = s].todo = rec[p].todo
    BY <2>2 DEF RecRecord
  <2>. QED
    BY <1>1, <2>1, <2>3, MoveRuns
<1>7. CASE \E code \in Codes : rec' = [rec EXCEPT ![p] = Refused(@, code)]
  <2>1. PICK code \in Codes : rec' = [rec EXCEPT ![p] = Refused(rec[p], code)]
    BY <1>7 DEF IInv, TypeOK
  <2>. QED
    BY <1>1, <2>1, PassedRuns, MoveRuns
<1>8. Begin(p) \/ Restore(p) \/ Unmark(p)
        => \/ rec' = [rec EXCEPT ![p] = At("off")]
           \/ \E at \in Places : rec' = [rec EXCEPT ![p].at = at]
  BY DEF Begin, Exit, Restore, Unmark, Places
<1>9. Allocate(p) => \/ \E s \in Slots : rec' = [rec EXCEPT ![p] = [Passed(@) EXCEPT !.slot = s]]
                     \/ \E code \in Codes : rec' = [rec EXCEPT ![p] = Refused(@, code)]
  BY DEF Allocate, Codes, Ready
<1>10. SetProfile(p) \/ NotAdmitted(p)
        => \/ rec' = [rec EXCEPT ![p] = Passed(@)]
           \/ \E at \in Places, code \in Codes : rec' = [rec EXCEPT ![p].at = at, ![p].code = code]
  BY DEF SetProfile, NotAdmitted, Codes, Places
<1>11. Succeed(p) \/ Fail(p) \/ Register(p) \/ Unregister(p) \/ NotAnswered(p)
        => \/ rec' = [rec EXCEPT ![p] = Passed(@)]
           \/ \E code \in Codes : rec' = [rec EXCEPT ![p] = Refused(@, code)]
  BY DEF Succeed, Fail, CodesOf, Register, Unregister, NotAnswered, Codes
<1>. QED
  BY <1>2, <1>3, <1>4, <1>5, <1>6, <1>7, <1>8, <1>9, <1>10, <1>11

(* One row changes; nobody works on it, or it stays running.               *)
LEMMA RowRuns ==
  ASSUME IInv, Runs, NEW o \in Ids, NEW new, ops' = [ops EXCEPT ![o] = new],
         new.status \in {"none", "pending"} => ops[o].status \in {"none", "pending"},
         \A q \in Reconcilers :
           /\ rec'[q].todo \subseteq rec[q].todo
           /\ Working(q)' => /\ Working(q) /\ rec'[q].op = rec[q].op
                             /\ rec[q].op = o => new.status = "running"
  PROVE  Runs'
<1>1. ops'[o] = new /\ \A u \in Ids : u # o => ops'[u] = ops[u]
  BY DEF IInv, TypeOK
<1>2. \A q \in Reconcilers : rec[q].todo \subseteq Ids
  BY DEF IInv, TypeOK, RecRecord
<1>3. ASSUME NEW q \in Reconcilers
      PROVE  /\ rec'[q].todo \subseteq rec[q].todo
             /\ \A u \in rec[q].todo : ops'[u].status \notin {"none", "pending"}
             /\ Working(q)' => /\ Working(q) /\ rec'[q].op = rec[q].op
                               /\ ops'[rec[q].op].status = "running"
  <2>1. \A u \in rec[q].todo : ops'[u].status \notin {"none", "pending"}
    BY <1>1, <1>2 DEF Runs
  <2>2. Working(q)' => /\ Working(q) /\ rec'[q].op = rec[q].op
                      /\ ops'[rec[q].op].status = "running"
    BY <1>1, WorkerIs DEF Runs
  <2>. QED
    BY <2>1, <2>2
<1>. QED
  BY <1>3, RunsKeep

LEMMA InsertRuns ==
  ASSUME IInv, Runs, NEW t, NEW g, NEW s, Insert(t, g, s)
  PROVE  Runs'
<1>1. PICK n \in 0..MaxOps : Asked = 1..n
  BY DEF IInv, Rows
<1>2. Cardinality(Asked) = n
  BY <1>1, FS_Interval
<1>3. n + 1 \in Ids /\ n + 1 \notin Asked
  <2>1. n < MaxOps
    BY <1>2 DEF Insert
  <2>2. n + 1 \in 1..MaxOps /\ n + 1 \notin 1..n
    BY <2>1
  <2>. QED
    BY <1>1, <2>2 DEF Ids
<1>4. PICK new : ops' = [ops EXCEPT ![n + 1] = new] /\ ops[n + 1].status = "none"
  BY <1>2, <1>3 DEF Insert, Asked
<1>5. rec' = rec /\ \A q \in Reconcilers : Working(q) => rec[q].op # n + 1
  BY <1>3, WorkerIs DEF Insert, HasRow, Asked
<1>6. \A q \in Reconcilers : Working(q)' <=> Working(q)
  BY <1>5 DEF Working
<1>. QED
  BY <1>3, <1>4, <1>5, <1>6, RowRuns

LEMMA CancelRuns == ASSUME IInv, Runs, NEW o \in Ids, Cancel(o) PROVE Runs'
<1>. DEFINE new == [ops[o] EXCEPT !.status = "cancelled"]
<1>1. ops' = [ops EXCEPT ![o] = new] /\ rec' = rec /\ ops[o].status = "pending"
  BY DEF Cancel, Cancellable, IInv, TypeOK
<1>2. new.status = "cancelled"
  BY DEF IInv, TypeOK, OpRecord
<1>3. \A q \in Reconcilers : (Working(q)' <=> Working(q)) /\ (Working(q) => rec[q].op # o)
  BY <1>1 DEF Working, Runs
<1>. HIDE DEF new
<1>. QED
  BY <1>1, <1>2, <1>3, RowRuns

LEMMA StartRuns ==
  ASSUME IInv, Runs, ~Beside, NEW p \in Reconcilers, Start(p)
  PROVE  Runs'
<1>. DEFINE r == [At("recover") EXCEPT !.todo = Interrupted]
<1>1. ops' = ops /\ rec' = [rec EXCEPT ![p] = r] /\ \A q \in Reconcilers : ~Working(q)
  BY DEF Start, Working
<1>2. r.at = "recover" /\ r.todo = Interrupted
  BY DEF At
<1>. HIDE DEF r
<1>3. rec'[p] = r /\ \A q \in Reconcilers : q # p => rec'[q] = rec[q]
  BY <1>1 DEF IInv, TypeOK
<1>4. \A q \in Reconcilers : ~Working(q)'
  BY <1>1, <1>2, <1>3 DEF Working
<1>. QED
  BY <1>1, <1>2, <1>3, <1>4 DEF Runs, Interrupted

LEMMA RecoverRuns == ASSUME IInv, Runs, NEW p \in Reconcilers, Recover(p) PROVE Runs'
<1>1. PICK o \in Ids :
        /\ o \in rec[p].todo
        /\ ops[o].status = "running" =>
             /\ ops' = [ops EXCEPT ![o] = Repaired(@)]
             /\ rec' = [rec EXCEPT ![p].op = o, ![p].todo = @ \ {o},
                                   ![p].at = IF ops[o].type = "create" THEN "quarantine" ELSE @]
        /\ ops[o].status # "running" => rec' = [rec EXCEPT ![p] = At("off")] /\ ops' = ops
  BY DEF Recover, First
<1>2. rec[p].at = "recover" /\ rec[p] \in RecRecord /\ ~Working(p)
  BY DEF Recover, IInv, TypeOK, Working
<1>3. CASE ops[o].status = "running"
  <2>. DEFINE new == Repaired(ops[o])
              at == IF ops[o].type = "create" THEN "quarantine" ELSE rec[p].at
              r == [rec[p] EXCEPT !.op = o, !.todo = @ \ {o}, !.at = at]
  <2>1. ops' = [ops EXCEPT ![o] = new] /\ rec' = [rec EXCEPT ![p] = r]
    BY <1>1, <1>3 DEF IInv, TypeOK
  <2>2. new.status = "failed"
    BY DEF Repaired, IInv, TypeOK, OpRecord
  <2>3. r.todo = rec[p].todo \ {o} /\ r.at \in {"quarantine", "recover"}
    BY <1>2 DEF RecRecord
  <2>. HIDE DEF new, r
  <2>4. rec'[p] = r /\ \A q \in Reconcilers : q # p => rec'[q] = rec[q]
    BY <2>1 DEF IInv, TypeOK
  <2>5. \A q \in Reconcilers : Working(q)' => q # p /\ Working(q) /\ rec[q].op # o
    BY <1>1, <2>3, <2>4 DEF Working, Runs
  <2>6. ASSUME NEW q \in Reconcilers
        PROVE  /\ rec'[q].todo \subseteq rec[q].todo
               /\ Working(q)' => /\ Working(q) /\ rec'[q].op = rec[q].op
                                 /\ rec[q].op = o => new.status = "running"
    BY <2>3, <2>4, <2>5
  <2>. QED
    BY <2>1, <2>2, <2>6, RowRuns
<1>4. CASE ops[o].status # "running"
  BY <1>1, <1>4, IdleRuns
<1>. QED
  BY <1>3, <1>4

LEMMA IdlersRun ==
  ASSUME IInv, Runs, NEW p \in Reconcilers,
         \/ Quarantine(p) \/ Recovered(p) \/ Record(p) \/ (p = "once" /\ Leave) \/ Die(p)
  PROVE  Runs'
<1>1. CASE Quarantine(p)
  <2>. DEFINE r == [rec[p] EXCEPT !.at = "recover"]
  <2>1. rec' = [rec EXCEPT ![p] = r] /\ ops' = ops
    BY <1>1 DEF Quarantine, IInv, TypeOK
  <2>2. r.todo = rec[p].todo /\ r.at = "recover"
    BY DEF IInv, TypeOK, RecRecord
  <2>. HIDE DEF r
  <2>. QED
    BY <2>1, <2>2, MoveRuns
<1>2. CASE Recovered(p) \/ Record(p) \/ (p = "once" /\ Leave) \/ Die(p)
  <2>1. ops' = ops /\ \E place \in {"off", "idle", "record"} : rec' = [rec EXCEPT ![p] = At(place)]
    BY <1>2 DEF Recovered, Record, Leave, Die, Exit
  <2>. QED
    BY <2>1, IdleRuns
<1>. QED
  BY <1>1, <1>2

LEMMA ClaimRuns == ASSUME IInv, Runs, NEW p \in Reconcilers, Claim(p) PROVE Runs'
<1>1. PICK o \in Ids :
        LET mine == [At("begin") EXCEPT !.op = o, !.step = 1, !.slot = ops[o].key] IN
        /\ ops[o].status = "pending"
        /\ ops' = [ops EXCEPT ![o].status = "running", ![o].attempt = @ + 1, ![o].by = p]
        /\ \/ rec' = [rec EXCEPT ![p] = mine]
           \/ \E code : rec' = [rec EXCEPT ![p] = [mine EXCEPT !.at = "finish", !.code = code]]
  BY DEF Claim, First, Pending
<1>2. PICK r : rec' = [rec EXCEPT ![p] = r] /\ r.op = o /\ r.todo = {}
  <2>. DEFINE mine == [At("begin") EXCEPT !.op = o, !.step = 1, !.slot = ops[o].key]
  <2>1. /\ mine.op = o /\ mine.todo = {}
        /\ \A code : LET r == [mine EXCEPT !.at = "finish", !.code = code] IN
                     r.op = o /\ r.todo = {}
    BY DEF At
  <2>. QED
    BY <1>1, <2>1
<1>3. rec'[p] = r /\ \A q \in Reconcilers : q # p => rec'[q] = rec[q]
  BY <1>2 DEF IInv, TypeOK
<1>4. ops'[o].status = "running" /\ \A u \in Ids : u # o => ops'[u] = ops[u]
  BY <1>1 DEF IInv, TypeOK, OpRecord
<1>5. \A q \in Reconcilers : o \notin rec[q].todo /\ rec[q].todo \subseteq Ids
  BY <1>1 DEF Runs, IInv, TypeOK, RecRecord
<1>6. \A q \in Reconcilers : ~Working(q)
  BY CodesAssumption, WorkerIs DEF Claim
<1>7. \A q \in Reconcilers : rec'[q].todo \subseteq rec[q].todo /\ (Working(q)' => q = p)
  BY <1>2, <1>3, <1>6 DEF Working
<1>8. ASSUME NEW q \in Reconcilers, NEW u \in rec'[q].todo
      PROVE  ops'[u].status \notin {"none", "pending"}
  BY <1>4, <1>5, <1>7, <1>8 DEF Runs
<1>9. ASSUME NEW q \in Reconcilers, Working(q)'
      PROVE  /\ ops'[rec'[q].op].status = "running"
             /\ \A w \in Reconcilers : rec'[q].op \notin rec'[w].todo
  BY <1>2, <1>3, <1>4, <1>5, <1>7, <1>9
<1>. QED
  BY <1>8, <1>9 DEF Runs

LEMMA NameProjectRuns == ASSUME IInv, Runs, NEW p \in Reconcilers, NameProject(p) PROVE Runs'
<1>1. Working(p) /\ rec[p] \in RecRecord /\ rec[p].op \in Ids
  <2>1. Working(p)
    BY DEF NameProject, Working
  <2>. QED
    BY <2>1, WorkerIs
<1>2. CASE Row(p).status = "running"
  <2>. DEFINE x == Passed(rec[p])
              new == [ops[rec[p].op] EXCEPT !.key = rec[p].slot]
  <2>1. ops' = [ops EXCEPT ![rec[p].op] = new] /\ rec' = [rec EXCEPT ![p] = x]
    BY <1>1, <1>2 DEF NameProject, IInv, TypeOK
  <2>2. new.status = "running"
    BY <1>1, <1>2 DEF Row, IInv, TypeOK, OpRecord
  <2>3. x.op = rec[p].op /\ x.todo = rec[p].todo
    BY <1>1, PassedRuns
  <2>. HIDE DEF x, new
  <2>4. PICK r : r = x
    OBVIOUS
  <2>5. rec'[p] = r /\ \A q \in Reconcilers : q # p => rec'[q] = rec[q]
    BY <2>1, <2>4 DEF IInv, TypeOK
  <2>6. ASSUME NEW q \in Reconcilers
        PROVE  /\ rec'[q].todo \subseteq rec[q].todo
               /\ Working(q)' => /\ Working(q) /\ rec'[q].op = rec[q].op
                                 /\ rec[q].op = rec[p].op => new.status = "running"
    BY <1>1, <2>2, <2>3, <2>4, <2>5 DEF Working
  <2>. QED
    BY <1>1, <2>1, <2>2, <2>6, RowRuns
<1>3. CASE Row(p).status # "running"
  BY <1>3, IdleRuns DEF NameProject, Exit
<1>. QED
  BY <1>2, <1>3

LEMMA FinishRuns == ASSUME IInv, Runs, NEW p \in Reconcilers, Finish(p) PROVE Runs'
<1>1. Working(p) /\ rec[p].op \in Ids
  <2>1. Working(p)
    BY DEF Finish, Working
  <2>. QED
    BY <2>1, WorkerIs
<1>2. CASE Row(p).status = "running"
  <2>1. PICK status \in {"succeeded", "failed"} : status = IF rec[p].code = None THEN "succeeded" ELSE "failed"
    OBVIOUS
  <2>. DEFINE new == [ops[rec[p].op] EXCEPT !.status = status, !.code = rec[p].code]
  <2>2. ops' = [ops EXCEPT ![rec[p].op] = new] /\ rec' = [rec EXCEPT ![p] = At("record")]
    BY <1>1, <1>2, <2>1 DEF Finish, IInv, TypeOK
  <2>3. new.status = status
    BY <1>1 DEF IInv, TypeOK, OpRecord
  <2>4. At("record").todo = {} /\ At("record").at = "record"
    BY DEF At
  <2>. HIDE DEF new
  <2>5. rec'[p] = At("record") /\ \A q \in Reconcilers : q # p => rec'[q] = rec[q]
    BY <2>2 DEF IInv, TypeOK
  <2>6. ASSUME NEW q \in Reconcilers
        PROVE  rec'[q].todo \subseteq rec[q].todo /\ ~Working(q)'
    <3>1. CASE q = p
      BY <2>4, <2>5, <3>1 DEF Working
    <3>2. CASE q # p
      <4>1. ~Working(q)
        BY <1>1, <3>2, Alone
      <4>. QED
        BY <2>5, <3>2, <4>1 DEF Working
    <3>. QED
      BY <3>1, <3>2
  <2>. QED
    BY <1>1, <2>1, <2>2, <2>3, <2>6, RowRuns
<1>3. CASE Row(p).status # "running"
  BY <1>3, IdleRuns DEF Finish, Exit
<1>. QED
  BY <1>2, <1>3

LEMMA StepRuns == ASSUME IInv, Runs, ~Beside, [Next]_vars PROVE Runs'
<1>1. CASE \E t \in Types : \E g, s : Insert(t, g, s)
  BY <1>1, InsertRuns
<1>2. CASE \E o \in Ids : Cancel(o)
  BY <1>2, CancelRuns
<1>3. CASE \E p \in Reconcilers : Start(p)
  BY <1>3, StartRuns
<1>4. ASSUME NEW p \in Reconcilers, Work(p) \/ Die(p) PROVE Runs'
  <2>1. CASE \/ Begin(p) \/ Allocate(p) \/ SetProfile(p) \/ NotAdmitted(p) \/ Restore(p)
             \/ Unmark(p) \/ Succeed(p) \/ Fail(p) \/ Register(p) \/ Unregister(p)
             \/ NotAnswered(p)
    BY <2>1, WorkerRuns
  <2>2. CASE \/ Quarantine(p) \/ Recovered(p) \/ Record(p) \/ (p = "once" /\ Leave) \/ Die(p)
    BY <2>2, IdlersRun
  <2>3. CASE Recover(p) \/ Claim(p) \/ NameProject(p) \/ Finish(p)
    BY <2>3, RecoverRuns, ClaimRuns, NameProjectRuns, FinishRuns
  <2>. QED
    BY <1>4, <2>1, <2>2, <2>3 DEF Work
<1>5. CASE RecordAgain \/ UNCHANGED vars
  BY <1>5 DEF RecordAgain, vars, Runs, Working
<1>6. (\E g \in Orgs : RequestCreation(g)) \/ (\E s \in Slots, t \in Types \ {"create"} : RequestWrite(t, s))
        => \E t \in Types : \E g, s : Insert(t, g, s)
  BY TypesAre DEF RequestCreation, RequestWrite
<1>. QED
  BY <1>1, <1>2, <1>3, <1>4, <1>5, <1>6 DEF Next

(* Without a second start beside a worker, recovery and work never meet.   *)
THEOREM RunsAlone == ASSUME ~Beside PROVE Spec => []Runs
<1>1. Init => Runs
  BY DEF Init, Runs, Working, At
<1>2. IInv /\ Runs /\ [Next]_vars => Runs'
  BY StepRuns
<1>. QED
  BY <1>1, <1>2, Inductive, PTL DEF Spec

(* Unless somebody starts a reconciler beside one that works (which the    *)
(* run once_beside shows to break it), whoever works on an operation works *)
(* on one that is running, and nobody else works on it.                    *)
THEOREM OnlyRunningIsWorkedOn == ASSUME ~Beside PROVE Spec => []WorkIsOnRunning
<1>1. IInv /\ Runs => WorkIsOnRunning
  <2>1. "unit" \in Reconcilers /\ "once" \in Reconcilers
    BY DEF Reconcilers
  <2>2. IInv => ~(Working("unit") /\ Working("once"))
    BY <2>1, Alone
  <2>. QED
    BY <2>2 DEF Runs, WorkIsOnRunning
<1>. QED
  BY <1>1, Inductive, RunsAlone, PTL

-----------------------------------------------------------------------------
(* What members are told, and what counts against a plan.                  *)

(* A set of rows has a last one.                                           *)
LEMMA Largest ==
  ASSUME NEW T \in SUBSET Ids, T # {}
  PROVE  \E o \in T : \A other \in T : other <= o
<1>. DEFINE R == OpToRel(<, Nat)
            left == {MaxOps - o : o \in T}
<1>1. IsWellFoundedOn(R, Nat)
  BY NatLessThanWellFounded
<1>2. \A x, y \in Nat : x < y => <<x, y>> \in R
  BY DEF OpToRel
<1>. HIDE DEF R
<1>3. /\ T \subseteq 1..MaxOps
      /\ \A o \in 1..MaxOps : MaxOps - o \in Nat
  BY DEF Ids
<1>4. left \subseteq Nat /\ left # {}
  BY <1>3
<1>5. PICK x \in left : \A y \in left : ~(<<y, x>> \in R)
  BY <1>1, <1>4, WFMin
<1>6. PICK o \in T : x = MaxOps - o
  BY <1>5
<1>7. ASSUME NEW u \in T PROVE u <= o
  <2>1. MaxOps - u \in left /\ u \in 1..MaxOps /\ o \in 1..MaxOps
    BY <1>3
  <2>2. ~(MaxOps - u < x)
    BY <1>2, <1>4, <1>5, <2>1
  <2>. QED
    BY <1>6, <2>1, <2>2
<1>. QED
  BY <1>7

Off(s) == ~disk[s].up /\ ~disk[s].unit /\ ~disk[s].timers

(* The row decides the state of the project on the slot.                   *)
Decides(op, s) == op.key = s /\ ~Undecided(op)

(* All but row u considered, a sleep that succeeded was the last to decide. *)
AsleepBut(s, u) ==
  \E o \in Ids \ {u} :
    /\ ops[o].key = s /\ ops[o].type = "sleep" /\ ops[o].status = "succeeded"
    /\ \A other \in Ids \ {u} : Decides(ops[other], s) => other <= o

Claimed(o) == ops[o].status \in {"running", "succeeded", "failed"}

(* Rows are claimed in the order they were asked for.                      *)
InOrder == \A o, c \in Ids : Claimed(c) /\ ops[o].status = "pending" => c < o

(* Nothing of the slots' containers and units has been touched yet.        *)
Early(r, t) ==
  \/ r.at \in {"restore", "unmark"}
  \/ r.at \in {"begin", "act"} /\ r.step <= (IF t = "create" THEN 4 ELSE 1)
  \/ r.at = "finish" /\ r.code \in NothingRan

Unmoved(p) == Early(rec[p], Type(p))

(* Work is on the last row that was claimed; until it touches something    *)
(* what slept before sleeps on; what a sleep is done with is off; a        *)
(* creation's slot is in the registry only after its last step.            *)
InTurn(p) ==
  Working(p) =>
    /\ \A c \in Ids : Claimed(c) => c <= rec[p].op
    /\ Row(p).status = "running" \/ (Row(p).status = "failed" /\ Row(p).code = "interrupted")
    /\ Stepping(p) => rec[p].code = None
    /\ rec[p].at \in {"restore", "unmark"} => Type(p) = "create"
    /\ (Type(p) # "create" \/ (Stepping(p) /\ rec[p].step > 3)) => Row(p).key = rec[p].slot
    /\ Unmoved(p) => \A s \in Slots : AsleepBut(s, rec[p].op) => Off(s)
    /\ Type(p) = "sleep" =>
         /\ Stepping(p) /\ rec[p].step > 1 => ~disk[rec[p].slot].timers
         /\ Stepping(p) /\ rec[p].step > 2 => ~disk[rec[p].slot].unit
         /\ rec[p].at = "finish" /\ rec[p].code = None => Off(rec[p].slot)
    /\ Type(p) = "create" /\ Slotted(p) =>
         /\ reg[rec[p].slot].row = "absent"
         /\ rec[p].step > 5 => tenants[rec[p].slot] # {}

(* A registered slot was deployed on; what is asked of a project is asked  *)
(* by the organisation that has it.                                        *)
Registered ==
  /\ \A s \in Slots : reg[s].row # "absent" => tenants[s] # {}
  /\ \A o \in Asked : ops[o].type # "create" =>
       reg[ops[o].key].row # "absent" /\ reg[ops[o].key].org = ops[o].org

OInv ==
  /\ InOrder
  /\ \A s \in Slots : AsleepBut(s, 0) => Off(s)
  /\ Registered
  /\ \A p \in Reconcilers : InTurn(p)

LEMMA InitOInv == Init => OInv
<1>. SUFFICES ASSUME Init PROVE OInv
  OBVIOUS
<1>1. NoOp.status = "none" /\ \A o \in Ids : ops[o] = NoOp
  BY DEF Init, NoOp
<1>2. InOrder /\ Asked = {} /\ \A s \in Slots : ~AsleepBut(s, 0)
  BY <1>1 DEF InOrder, Asked, AsleepBut
<1>3. \A p \in Reconcilers : ~Working(p)
  BY AtType DEF Init, Working, Places
<1>4. \A s \in Slots : reg[s].row # "absent" => tenants[s] # {}
  BY DEF Init
<1>. QED
  BY <1>2, <1>3, <1>4 DEF OInv, InTurn, Registered

(* What a project is told to be is asleep only if its last deciding row    *)
(* is a sleep that succeeded.                                              *)
LEMMA ToldAsleep ==
  ASSUME IInv, NEW s \in Slots, ProjectState(s) = "sleeping"
  PROVE  AsleepBut(s, 0)
<1>. DEFINE deciding == {o \in Ids : ops[o].key = s /\ ~Undecided(ops[o])}
            last == CHOOSE o \in deciding : \A other \in deciding : other <= o
<1>1. deciding # {}
  BY DEF ProjectState
<1>2. \E o \in deciding : \A other \in deciding : other <= o
  <2>1. deciding \in SUBSET Ids
    OBVIOUS
  <2>. HIDE DEF deciding
  <2>. QED
    BY <1>1, <2>1, Largest
<1>3. last \in deciding /\ \A other \in deciding : other <= last
  <2>. HIDE DEF deciding
  <2>. QED
    BY <1>2
<1>4. ProjectState(s) = IF ops[last].status = "running" THEN Running[ops[last].type]
                        ELSE IF ops[last].status = "succeeded" THEN Succeeded[ops[last].type]
                        ELSE "unknown"
  BY <1>1 DEF ProjectState
<1>. HIDE DEF last
<1>5. PICK o \in Ids : o = last
  BY <1>3
<1>6. ops[o].key = s /\ ~Undecided(ops[o])
  BY <1>3, <1>5
<1>7. ops[o].type \in Types /\ (ops[o].status = "running" => ops[o].type # "export")
  BY <1>6 DEF IInv, Rows, Asked, Undecided
<1>8. ops[o].status # "running"
  BY <1>4, <1>5, <1>7, TypesAre DEF Running
<1>9. ops[o].status = "succeeded" /\ ops[o].type = "sleep"
  BY <1>4, <1>5, <1>7, <1>8, TypesAre DEF Succeeded
<1>10. o \in Ids \ {0}
  BY DEF Ids
<1>. QED
  BY <1>3, <1>5, <1>6, <1>9, <1>10 DEF AsleepBut, Decides

-----------------------------------------------------------------------------
(* Rows.                                                                   *)

(* Only row w changes: nobody falls asleep by it, unless it is left out or *)
(* it stops deciding.                                                      *)
LEMMA AsleepKept ==
  ASSUME NEW s, NEW u, NEW w \in Ids, \A o \in Ids : o # w => ops'[o] = ops[o],
         u # w => /\ ~(ops'[w].type = "sleep" /\ ops'[w].status = "succeeded")
                  /\ Decides(ops[w], s) => Decides(ops'[w], s),
         AsleepBut(s, u)'
  PROVE  AsleepBut(s, u)
<1>1. PICK o \in Ids \ {u} :
        /\ ops'[o].key = s /\ ops'[o].type = "sleep" /\ ops'[o].status = "succeeded"
        /\ \A other \in Ids \ {u} : Decides(ops'[other], s) => other <= o
  BY DEF AsleepBut, Decides
<1>2. ops'[o] = ops[o]
  BY <1>1
<1>3. ASSUME NEW other \in Ids \ {u}, Decides(ops[other], s) PROVE other <= o
  BY <1>1, <1>3
<1>. QED
  BY <1>1, <1>2, <1>3 DEF AsleepBut

LEMMA AsleepSame ==
  ASSUME ops' = ops, NEW s, NEW u
  PROVE  AsleepBut(s, u)' <=> AsleepBut(s, u)
BY DEF AsleepBut, Decides

(* A row that does not decide may be counted in or left out.               *)
LEMMA AsleepWith ==
  ASSUME NEW s, NEW w \in Ids, ~Decides(ops[w], s), AsleepBut(s, w)
  PROVE  AsleepBut(s, 0)
BY DEF AsleepBut, Ids

LEMMA AsleepWithout ==
  ASSUME NEW s, NEW w \in Ids,
         ~(ops[w].key = s /\ ops[w].type = "sleep" /\ ops[w].status = "succeeded"),
         AsleepBut(s, 0)
  PROVE  AsleepBut(s, w)
BY DEF AsleepBut, Ids

(* Rows move without a worker: one is asked for, one is cancelled, one is  *)
(* recovered.                                                              *)
RowMoves(w) ==
  /\ \A o \in Ids : o # w => ops'[o] = ops[o]
  /\ \/ /\ ops[w].status = "none" /\ ops'[w].status = "pending"
        /\ \A o \in Asked : o < w
     \/ ops[w].status = "pending" /\ ops'[w].status = "cancelled"
     \/ /\ ops[w].status = "running" /\ ops'[w].status = "failed"
        /\ ops'[w].code = "interrupted"
        /\ ops'[w].type = ops[w].type /\ ops'[w].key = ops[w].key

RowsMove == ops' = ops \/ \E w \in Ids : RowMoves(w)

LEMMA RowsMoveKeep ==
  ASSUME IInv, OInv, RowsMove
  PROVE  /\ InOrder'
         /\ \A c \in Ids : Claimed(c)' => Claimed(c)
         /\ \A s, u : AsleepBut(s, u)' => AsleepBut(s, u)
         /\ \A o \in Ids :
              ops[o].status = "running" \/ (ops[o].status = "failed" /\ ops[o].code = "interrupted")
              => /\ \/ ops'[o].status = "running"
                    \/ (ops'[o].status = "failed" /\ ops'[o].code = "interrupted")
                 /\ ops'[o].type = ops[o].type /\ ops'[o].key = ops[o].key
<1>1. CASE ops' = ops
  <2>1. InOrder' /\ \A c \in Ids : Claimed(c)' => Claimed(c)
    BY <1>1 DEF OInv, InOrder, Claimed
  <2>. QED
    BY <1>1, <2>1, AsleepSame
<1>2. CASE \E w \in Ids : RowMoves(w)
  <2>1. PICK w \in Ids : RowMoves(w)
    BY <1>2
  <2>2. \A c \in Ids : Claimed(c)' => Claimed(c)
    BY <2>1 DEF RowMoves, Claimed
  <2>3. InOrder'
    <3>1. ASSUME NEW o \in Ids, NEW c \in Ids, Claimed(c)', ops'[o].status = "pending" PROVE c < o
      <4>1. Claimed(c) /\ c \in Asked
        BY <2>2, <3>1 DEF Claimed, Asked
      <4>. QED
        BY <2>1, <3>1, <4>1 DEF RowMoves, OInv, InOrder
    <3>. QED
      BY <3>1 DEF InOrder
  <2>4. ASSUME NEW s, NEW u, AsleepBut(s, u)' PROVE AsleepBut(s, u)
    <3>1. /\ ~(ops'[w].type = "sleep" /\ ops'[w].status = "succeeded")
          /\ Decides(ops[w], s) => Decides(ops'[w], s)
      BY <2>1 DEF RowMoves, Decides, Undecided, NothingRan
    <3>. QED
      BY <2>1, <2>4, <3>1, AsleepKept DEF RowMoves
  <2>5. ASSUME NEW o \in Ids,
               ops[o].status = "running" \/ (ops[o].status = "failed" /\ ops[o].code = "interrupted")
        PROVE  /\ \/ ops'[o].status = "running"
                  \/ (ops'[o].status = "failed" /\ ops'[o].code = "interrupted")
               /\ ops'[o].type = ops[o].type /\ ops'[o].key = ops[o].key
    BY <2>1, <2>5 DEF RowMoves
  <2>. QED
    BY <2>2, <2>3, <2>4, <2>5
<1>. QED
  BY <1>1, <1>2 DEF RowsMove

-----------------------------------------------------------------------------
(* Steps of no worker.                                                     *)

SameLights(s) ==
  disk'[s].up = disk[s].up /\ disk'[s].unit = disk[s].unit /\ disk'[s].timers = disk[s].timers

(* Whoever works stays where it is, or is gone.                            *)
LEMMA BystandersKeep ==
  ASSUME IInv, OInv, RowsMove, Registered',
         \A s \in Slots : SameLights(s) /\ reg'[s].row = reg[s].row /\ tenants'[s] = tenants[s],
         \A q \in Reconcilers : Working(q)' => Working(q) /\ rec'[q] = rec[q]
  PROVE  OInv'
<1>1. /\ InOrder'
      /\ \A c \in Ids : Claimed(c)' => Claimed(c)
      /\ \A s, u : AsleepBut(s, u)' => AsleepBut(s, u)
      /\ \A o \in Ids :
           ops[o].status = "running" \/ (ops[o].status = "failed" /\ ops[o].code = "interrupted")
           => /\ \/ ops'[o].status = "running"
                 \/ (ops'[o].status = "failed" /\ ops'[o].code = "interrupted")
              /\ ops'[o].type = ops[o].type /\ ops'[o].key = ops[o].key
  BY RowsMoveKeep
<1>2. \A s \in Slots : Off(s) => Off(s)'
  BY DEF SameLights, Off
<1>3. \A s \in Slots : AsleepBut(s, 0)' => Off(s)'
  BY <1>1, <1>2 DEF OInv
<1>4. ASSUME NEW q \in Reconcilers, Working(q)' PROVE InTurn(q)'
  <2>1. Working(q) /\ rec'[q] = rec[q] /\ InTurn(q)
    BY <1>4 DEF OInv
  <2>2. PICK o \in Ids : o = rec[q].op
    BY <2>1, WorkerIs
  <2>3. /\ Row(q).status = "running" \/ (Row(q).status = "failed" /\ Row(q).code = "interrupted")
        /\ \A c \in Ids : Claimed(c) => c <= o
    BY <2>1, <2>2 DEF InTurn
  <2>4. /\ Type(q)' = Type(q) /\ Row(q)'.key = Row(q).key
        /\ \/ Row(q)'.status = "running"
           \/ (Row(q)'.status = "failed" /\ Row(q)'.code = "interrupted")
    BY <1>1, <2>1, <2>2, <2>3 DEF Type, Row
  <2>5. /\ Stepping(q)' <=> Stepping(q)
        /\ Slotted(q)' <=> Slotted(q)
        /\ Unmoved(q)' <=> Unmoved(q)
    BY <2>1, <2>4 DEF Stepping, Slotted, Unmoved, Early
  <2>6. \A c \in Ids : Claimed(c)' => c <= rec'[q].op
    BY <1>1, <2>1, <2>2, <2>3
  <2>7. Unmoved(q)' => \A s \in Slots : AsleepBut(s, rec[q].op)' => Off(s)'
    <3>1. Unmoved(q) => \A s \in Slots : AsleepBut(s, o) => Off(s)
      BY <2>1, <2>2 DEF InTurn
    <3>2. rec'[q].op = o
      BY <2>1, <2>2
    <3>3. \A s \in Slots : AsleepBut(s, rec[q].op)' => AsleepBut(s, o)
      <4>1. \A s \in Slots : AsleepBut(s, o)' => AsleepBut(s, o)
        BY <1>1
      <4>2. \A s \in Slots : AsleepBut(s, rec[q].op)' => AsleepBut(s, o)'
        BY <3>2 DEF AsleepBut
      <4>. QED
        BY <4>1, <4>2
    <3>. QED
      BY <1>2, <2>5, <3>1, <3>3
  <2>8. Type(q) \in {"create", "sleep"} /\ (Slotted(q) \/ Type(q) = "sleep") => rec[q].slot \in Slots
    <3>1. Type(q) = "sleep" => Row(q).key = rec[q].slot /\ Row(q).key \in Slots
      BY <2>1, WorkerIs DEF InTurn, Row, Type, IInv, Rows, HasRow, Asked
    <3>2. Slotted(q) => rec[q].slot \in Slots
      BY <2>1, WorkerIs DEF WorkOK
    <3>. QED
      BY <3>1, <3>2
  <2>9. Type(q) = "sleep" =>
         /\ Stepping(q) /\ rec[q].step > 1 => ~disk'[rec[q].slot].timers
         /\ Stepping(q) /\ rec[q].step > 2 => ~disk'[rec[q].slot].unit
         /\ rec[q].at = "finish" /\ rec[q].code = None => Off(rec[q].slot)'
    <3>. SUFFICES ASSUME Type(q) = "sleep"
                  PROVE  /\ Stepping(q) /\ rec[q].step > 1 => ~disk'[rec[q].slot].timers
                         /\ Stepping(q) /\ rec[q].step > 2 => ~disk'[rec[q].slot].unit
                         /\ rec[q].at = "finish" /\ rec[q].code = None => Off(rec[q].slot)'
      OBVIOUS
    <3>1. PICK s \in Slots : s = rec[q].slot
      BY <2>8
    <3>2. SameLights(s)
      OBVIOUS
    <3>3. rec'[q].slot = s
      BY <2>1, <3>1
    <3>. QED
      BY <2>1, <3>1, <3>2, <3>3 DEF InTurn, SameLights, Off
  <2>10. Type(q) = "create" /\ Slotted(q) =>
           reg'[rec[q].slot].row = "absent" /\ (rec[q].step > 5 => tenants'[rec[q].slot] # {})
    BY <2>1, <2>8 DEF InTurn
  <2>. QED
    BY <2>1, <2>4, <2>5, <2>6, <2>7, <2>9, <2>10 DEF InTurn, Off
<1>5. \A q \in Reconcilers : InTurn(q)'
  BY <1>4 DEF InTurn
<1>. QED
  BY <1>1, <1>3, <1>5 DEF OInv

(* The rows stay as they are, and so does what they ask.                   *)
LEMMA RegisteredSame ==
  ASSUME OInv, ops' = ops, UNCHANGED <<reg, tenants>>
  PROVE  Registered'
BY DEF OInv, Registered, Asked

LEMMA InsertInTurn ==
  ASSUME IInv, OInv, NEW t \in Types, NEW g, NEW s, Insert(t, g, s),
         t # "create" => reg[s].row # "absent" /\ reg[s].org = g
  PROVE  OInv'
<1>1. PICK n \in 0..MaxOps : Asked = 1..n
  BY DEF IInv, Rows
<1>2. Cardinality(Asked) = n
  BY <1>1, FS_Interval
<1>. DEFINE new == [NoOp EXCEPT !.type = t, !.org = g, !.key = s, !.status = "pending"]
<1>3. n + 1 \in Ids /\ n + 1 \notin Asked /\ \A o \in Asked : o < n + 1
  <2>1. n < MaxOps
    BY <1>2 DEF Insert
  <2>2. n + 1 \in 1..MaxOps /\ n + 1 \notin 1..n /\ \A o \in 1..n : o < n + 1
    BY <2>1
  <2>. QED
    BY <1>1, <2>2 DEF Ids
<1>4. ops' = [ops EXCEPT ![n + 1] = new] /\ UNCHANGED <<reg, disk, rec, tenants>>
  BY <1>2 DEF Insert
<1>5. new.status = "pending" /\ new.type = t /\ new.key = s /\ new.org = g
  BY DEF NoOp
<1>. HIDE DEF new
<1>6. ops'[n + 1] = new /\ \A o \in Ids : o # n + 1 => ops'[o] = ops[o]
  BY <1>3, <1>4 DEF IInv, TypeOK
<1>7. RowMoves(n + 1)
  BY <1>3, <1>5, <1>6 DEF RowMoves, Asked
<1>8. Registered'
  <2>1. ASSUME NEW o \in Asked', ops'[o].type # "create"
        PROVE  reg[ops'[o].key].row # "absent" /\ reg[ops'[o].key].org = ops'[o].org
    <3>1. CASE o = n + 1
      BY <1>5, <1>6, <2>1, <3>1
    <3>2. CASE o # n + 1
      BY <1>6, <2>1, <3>2 DEF OInv, Registered, Asked
    <3>. QED
      BY <3>1, <3>2
  <2>. QED
    BY <1>4, <2>1 DEF OInv, Registered
<1>9. \A q \in Reconcilers : Working(q)' => Working(q) /\ rec'[q] = rec[q]
  BY <1>4 DEF Working
<1>10. \A u \in Slots : SameLights(u) /\ reg'[u].row = reg[u].row /\ tenants'[u] = tenants[u]
  BY <1>4 DEF SameLights
<1>. QED
  BY <1>3, <1>7, <1>8, <1>9, <1>10, BystandersKeep DEF RowsMove

LEMMA CancelInTurn == ASSUME IInv, OInv, NEW o \in Ids, Cancel(o) PROVE OInv'
<1>1. /\ ops[o].status = "pending" /\ ops' = [ops EXCEPT ![o].status = "cancelled"]
      /\ UNCHANGED <<reg, disk, rec, tenants>>
  BY DEF Cancel, Cancellable
<1>2. /\ ops'[o].status = "cancelled" /\ ops'[o].type = ops[o].type /\ ops'[o].key = ops[o].key
      /\ ops'[o].org = ops[o].org /\ \A u \in Ids : u # o => ops'[u] = ops[u]
  BY <1>1 DEF IInv, TypeOK, OpRecord
<1>3. RowMoves(o)
  BY <1>1, <1>2 DEF RowMoves
<1>4. Registered'
  BY <1>1, <1>2 DEF OInv, Registered, Asked
<1>5. \A q \in Reconcilers : Working(q)' => Working(q) /\ rec'[q] = rec[q]
  BY <1>1 DEF Working
<1>6. \A u \in Slots : SameLights(u) /\ reg'[u].row = reg[u].row /\ tenants'[u] = tenants[u]
  BY <1>1 DEF SameLights
<1>. QED
  BY <1>3, <1>4, <1>5, <1>6, BystandersKeep DEF RowsMove

LEMMA RecoverInTurn == ASSUME IInv, OInv, NEW p \in Reconcilers, Recover(p) PROVE OInv'
<1>1. PICK o \in Ids :
        /\ ops[o].status = "running" =>
             /\ ops' = [ops EXCEPT ![o] = Repaired(@)]
             /\ rec' = [rec EXCEPT ![p].op = o, ![p].todo = @ \ {o},
                                   ![p].at = IF ops[o].type = "create" THEN "quarantine" ELSE @]
        /\ ops[o].status # "running" => rec' = [rec EXCEPT ![p] = At("off")] /\ ops' = ops
  BY DEF Recover
<1>2. /\ rec[p].at = "recover" /\ rec[p] \in RecRecord
      /\ UNCHANGED <<reg, disk, tenants>>
  BY DEF Recover, IInv, TypeOK
<1>3. RowsMove /\ Registered'
  <2>1. CASE ops[o].status = "running"
    <3>1. /\ ops'[o].status = "failed" /\ ops'[o].code = "interrupted"
          /\ ops'[o].type = ops[o].type /\ ops'[o].key = ops[o].key /\ ops'[o].org = ops[o].org
          /\ \A u \in Ids : u # o => ops'[u] = ops[u]
      <4>. DEFINE new == Repaired(ops[o])
      <4>1. /\ new.status = "failed" /\ new.code = "interrupted" /\ new.type = ops[o].type
            /\ new.key = ops[o].key /\ new.org = ops[o].org
        BY DEF Repaired, IInv, TypeOK, OpRecord
      <4>2. ops' = [ops EXCEPT ![o] = new]
        BY <1>1, <2>1 DEF IInv, TypeOK
      <4>. HIDE DEF new
      <4>. QED
        BY <4>1, <4>2 DEF IInv, TypeOK
    <3>2. RowMoves(o)
      BY <2>1, <3>1 DEF RowMoves
    <3>3. Registered'
      BY <1>2, <2>1, <3>1 DEF OInv, Registered, Asked
    <3>. QED
      BY <3>2, <3>3 DEF RowsMove
  <2>2. CASE ops[o].status # "running"
    BY <1>1, <1>2, <2>2, RegisteredSame DEF RowsMove
  <2>. QED
    BY <2>1, <2>2
<1>4. /\ rec'[p].at \in {"off", "recover", "quarantine"}
      /\ \A q \in Reconcilers : q # p => rec'[q] = rec[q]
  BY <1>1, <1>2 DEF IInv, TypeOK, RecRecord, At
<1>5. \A q \in Reconcilers : Working(q)' => Working(q) /\ rec'[q] = rec[q]
  BY <1>4 DEF Working
<1>6. \A u \in Slots : SameLights(u) /\ reg'[u].row = reg[u].row /\ tenants'[u] = tenants[u]
  BY <1>2 DEF SameLights
<1>. QED
  BY <1>3, <1>5, <1>6, BystandersKeep

(* Steps that touch no row, no registry and no container.                  *)
LEMMA IdlersInTurn ==
  ASSUME IInv, OInv, NEW p \in Reconcilers,
         \/ Start(p) \/ Quarantine(p) \/ Recovered(p) \/ Record(p) \/ (p = "once" /\ Leave)
         \/ (Die(p) /\ ~(rec[p].at = "act" /\ StepOf(p) \in Commands))
  PROVE  OInv'
<1>1. ops' = ops /\ UNCHANGED <<reg, tenants>>
  BY DEF Start, Quarantine, Recovered, Record, Leave, Die
<1>2. /\ rec'[p].at \in {"off", "recover", "idle", "record"}
      /\ \A q \in Reconcilers : q # p => rec'[q] = rec[q]
  <2>1. CASE Start(p)
    <3>. DEFINE r == [At("recover") EXCEPT !.todo = Interrupted]
    <3>1. r.at = "recover"
      BY DEF At
    <3>2. rec' = [rec EXCEPT ![p] = r]
      BY <2>1 DEF Start
    <3>. HIDE DEF r
    <3>. QED
      BY <3>1, <3>2 DEF IInv, TypeOK
  <2>2. CASE Quarantine(p)
    BY <2>2 DEF Quarantine, IInv, TypeOK, RecRecord
  <2>3. CASE ~Start(p) /\ ~Quarantine(p)
    <3>1. \E place \in {"off", "idle", "record"} : rec' = [rec EXCEPT ![p] = At(place)]
      BY <2>3 DEF Recovered, Record, Leave, Die, Exit
    <3>2. \A place : At(place).at = place
      BY DEF At
    <3>. QED
      BY <3>1, <3>2 DEF IInv, TypeOK
  <2>. QED
    BY <2>1, <2>2, <2>3
<1>3. \A q \in Reconcilers : Working(q)' => Working(q) /\ rec'[q] = rec[q]
  BY <1>2 DEF Working
<1>4. \A u \in Slots : SameLights(u)
  <2>1. CASE Quarantine(p)
    <3>1. PICK taken : disk' = [u \in Slots |-> IF u \in taken THEN [disk[u] EXCEPT !.quarantined = TRUE]
                                                              ELSE disk[u]]
      BY <2>1 DEF Quarantine
    <3>. QED
      BY <3>1 DEF SameLights, IInv, TypeOK, SlotRecord
  <2>2. CASE ~Quarantine(p)
    BY <2>2 DEF SameLights, Start, Recovered, Record, Leave, Die
  <2>. QED
    BY <2>1, <2>2
<1>5. RowsMove /\ Registered'
  BY <1>1, RegisteredSame DEF RowsMove
<1>. QED
  BY <1>1, <1>3, <1>4, <1>5, BystandersKeep

-----------------------------------------------------------------------------
(* The worker's steps.                                                     *)

(* A step that passes keeps the code, and the last one ends the work.      *)
LEMMA PassedEnds ==
  ASSUME NEW r \in RecRecord
  PROVE  /\ Passed(r).code = r.code
         /\ r.step = Len(Steps[ops[r.op].type]) => Passed(r).at = "finish"
         /\ r.step # Len(Steps[ops[r.op].type]) => Passed(r).at # "finish"
BY DEF Passed, RecRecord

(* The worker is the only one, so what it keeps of its own is enough.      *)
LEMMA WorkInTurn ==
  ASSUME IInv, NEW p \in Reconcilers, Working(p) \/ lock = None,
         NEW r, rec' = [rec EXCEPT ![p] = r],
         InOrder', \A s \in Slots : AsleepBut(s, 0)' => Off(s)', Registered', InTurn(p)'
  PROVE  OInv'
<1>1. rec'[p] = r /\ \A q \in Reconcilers : q # p => rec'[q] = rec[q]
  BY DEF IInv, TypeOK
<1>2. \A q \in Reconcilers : q # p => ~Working(q)
  BY WorkerIs, CodesAssumption
<1>3. \A q \in Reconcilers : q # p => InTurn(q)'
  BY <1>1, <1>2 DEF InTurn, Working
<1>. QED
  BY <1>3 DEF OInv

LEMMA LeavesInTurn ==
  ASSUME IInv, OInv, NEW p \in Reconcilers, Working(p), NEW place \in {"off", "record"},
         rec' = [rec EXCEPT ![p] = At(place)],
         InOrder', \A s \in Slots : AsleepBut(s, 0)' => Off(s)', Registered'
  PROVE  OInv'
<1>1. rec'[p].at = place
  BY DEF IInv, TypeOK, At
<1>2. InTurn(p)'
  BY <1>1 DEF InTurn, Working
<1>. QED
  BY <1>2, WorkInTurn

LEMMA RowsStay ==
  ASSUME OInv, ops' = ops, \A s \in Slots : SameLights(s)
  PROVE  InOrder' /\ \A s \in Slots : AsleepBut(s, 0)' => Off(s)'
<1>1. \A s \in Slots : AsleepBut(s, 0)' <=> AsleepBut(s, 0)
  BY AsleepSame
<1>2. InOrder'
  BY DEF OInv, InOrder, Claimed
<1>. QED
  BY <1>1, <1>2 DEF OInv, SameLights, Off

(* A step of the worker that changes no row and no container: a sleep only *)
(* goes from the beginning of a step to the step.                          *)
LEMMA MoveInTurn ==
  ASSUME IInv, OInv, NEW p \in Reconcilers, Working(p), NEW r \in RecRecord,
         rec' = [rec EXCEPT ![p] = r], ops' = ops, \A s \in Slots : SameLights(s),
         Registered', r.op = rec[p].op,
         r.at \in {"begin", "act"} => r.code = None /\ Stepping(p),
         Type(p) # "create" => r.slot = rec[p].slot,
         Type(p) = "create" /\ r.at \in {"begin", "act"} =>
           /\ r.step > 3 => r.slot = rec[p].slot /\ rec[p].step > 3
           /\ r.step > 1 => /\ reg'[r.slot].row = "absent"
                            /\ r.step > 5 => tenants'[r.slot] # {},
         Early(r, Type(p)) => Unmoved(p),
         r.at \in {"restore", "unmark"} => Type(p) = "create",
         Type(p) = "sleep" => r.at = "act" /\ r.step = rec[p].step
  PROVE  OInv'
<1>1. rec'[p] = r /\ InTurn(p)
  BY DEF IInv, TypeOK, OInv
<1>2. PICK o \in Ids : o = rec[p].op
  BY WorkerIs
<1>3. Type(p)' = Type(p) /\ Row(p)' = Row(p)
  BY <1>1 DEF Type, Row
<1>4. Stepping(p)' <=> r.at \in {"begin", "act"}
  BY <1>1 DEF Stepping
<1>5. Unmoved(p)' => Unmoved(p)
  BY <1>1, <1>3, <1>4 DEF Unmoved
<1>6. \A c \in Ids : Claimed(c)' => c <= rec'[p].op
  BY <1>1 DEF InTurn, Claimed
<1>7. Unmoved(p)' => \A s \in Slots : AsleepBut(s, rec[p].op)' => Off(s)'
  <2>1. \A s \in Slots : AsleepBut(s, rec[p].op)' => AsleepBut(s, rec[p].op)
    BY <1>1 DEF AsleepBut
  <2>2. Unmoved(p) => \A s \in Slots : AsleepBut(s, rec[p].op) => Off(s)
    BY <1>1 DEF InTurn
  <2>3. \A s \in Slots : Off(s) => Off(s)'
    BY DEF Off, SameLights
  <2>. QED
    BY <1>5, <2>1, <2>2, <2>3
<1>8. (Type(p) # "create" \/ (Stepping(p)' /\ r.step > 3)) => Row(p).key = r.slot
  BY <1>1, <1>4 DEF InTurn
<1>9. Type(p) = "sleep" =>
        /\ r.step > 1 => ~disk'[r.slot].timers
        /\ r.step > 2 => ~disk'[r.slot].unit
  <2>. SUFFICES ASSUME Type(p) = "sleep"
                PROVE  (r.step > 1 => ~disk'[r.slot].timers) /\ (r.step > 2 => ~disk'[r.slot].unit)
    OBVIOUS
  <2>1. r.slot = rec[p].slot /\ Stepping(p)
    OBVIOUS
  <2>2. r.slot \in Slots
    BY <2>1, WorkerIs DEF WorkOK, Slotted
  <2>. QED
    BY <1>1, <2>1, <2>2 DEF InTurn, SameLights
<1>10. Type(p) = "create" /\ Slotted(p)' =>
         reg'[r.slot].row = "absent" /\ (r.step > 5 => tenants'[r.slot] # {})
  BY <1>1, <1>3, <1>4 DEF Slotted
<1>11. InTurn(p)'
  BY <1>1, <1>3, <1>4, <1>6, <1>7, <1>8, <1>9, <1>10 DEF InTurn, Off
<1>. QED
  BY <1>1, <1>11, RowsStay, WorkInTurn

LEMMA BeginInTurn == ASSUME IInv, OInv, NEW p \in Reconcilers, Begin(p) PROVE OInv'
<1>1. /\ Working(p) /\ rec[p].at = "begin" /\ Stepping(p) /\ rec[p] \in RecRecord
      /\ UNCHANGED <<ops, reg, disk, tenants>>
  BY WorkerIs DEF Begin, Working, Stepping
<1>2. Registered' /\ \A s \in Slots : SameLights(s)
  BY <1>1, RegisteredSame DEF SameLights
<1>3. CASE Row(p).status = "running"
  <2>. DEFINE r == [rec[p] EXCEPT !.at = "act"]
  <2>1. rec' = [rec EXCEPT ![p] = r]
    BY <1>3 DEF Begin, IInv, TypeOK
  <2>2. r \in RecRecord /\ r.op = rec[p].op /\ r.step = rec[p].step /\ r.slot = rec[p].slot
        /\ r.at = "act" /\ r.code = rec[p].code
    BY <1>1 DEF RecRecord, Places
  <2>. HIDE DEF r
  <2>3. r.code = None
    BY <1>1, <2>2 DEF OInv, InTurn
  <2>4. Type(p) = "create" /\ r.step > 1 =>
          reg'[r.slot].row = "absent" /\ (r.step > 5 => tenants'[r.slot] # {})
    BY <1>1, <2>2 DEF OInv, InTurn, Slotted
  <2>5. Early(r, Type(p)) => Unmoved(p)
    BY <1>1, <2>2 DEF Unmoved, Early
  <2>. QED
    BY <1>1, <1>2, <2>1, <2>2, <2>3, <2>4, <2>5, MoveInTurn
<1>4. CASE Row(p).status # "running"
  <2>1. rec' = [rec EXCEPT ![p] = At("off")]
    BY <1>4 DEF Begin, Exit
  <2>. QED
    BY <1>1, <1>2, <2>1, RowsStay, LeavesInTurn
<1>. QED
  BY <1>3, <1>4

(* A refusal: the step may have changed containers only with a code that   *)
(* says so.                                                                *)
LEMMA RefusedInTurn ==
  ASSUME IInv, OInv, NEW p \in Reconcilers, Working(p), NEW code \in Codes,
         rec' = [rec EXCEPT ![p] = Refused(rec[p], code)], ops' = ops, Registered',
         \A s \in Slots : AsleepBut(s, 0) => Off(s)',
         code \in NothingRan => Unmoved(p) /\ \A s \in Slots : SameLights(s)
  PROVE  OInv'
<1>1. PICK r \in RecRecord : /\ rec' = [rec EXCEPT ![p] = r] /\ r.op = rec[p].op
                             /\ r.at = "finish" /\ r.code = code /\ r.slot = rec[p].slot
  <2>. DEFINE r == Refused(rec[p], code)
  <2>1. rec[p] \in RecRecord
    BY WorkerIs
  <2>2. r \in RecRecord /\ r.op = rec[p].op /\ r.at = "finish"
    BY <2>1, RefusedIs
  <2>3. r.code = code /\ r.slot = rec[p].slot
    BY <2>1 DEF Refused, RecRecord
  <2>4. rec' = [rec EXCEPT ![p] = r]
    OBVIOUS
  <2>. HIDE DEF r
  <2>. QED
    BY <2>2, <2>3, <2>4
<1>2. rec'[p] = r /\ InTurn(p)
  BY <1>1 DEF IInv, TypeOK, OInv
<1>3. Type(p)' = Type(p) /\ Row(p)' = Row(p) /\ ~Stepping(p)' /\ ~Slotted(p)'
  BY <1>1, <1>2 DEF Type, Row, Stepping, Slotted
<1>4. Unmoved(p)' => \A s \in Slots : AsleepBut(s, rec[p].op)' => Off(s)'
  <2>1. \A s \in Slots : AsleepBut(s, rec[p].op)' => AsleepBut(s, rec[p].op)
    BY <1>1, <1>2 DEF AsleepBut
  <2>2. Unmoved(p) => \A s \in Slots : AsleepBut(s, rec[p].op) => Off(s)
    BY <1>2 DEF InTurn
  <2>3. (\A s \in Slots : SameLights(s)) => \A s \in Slots : Off(s) => Off(s)'
    BY DEF Off, SameLights
  <2>4. Unmoved(p)' => code \in NothingRan
    BY <1>1, <1>2, <1>3 DEF Unmoved, Early
  <2>. QED
    BY <2>1, <2>2, <2>3, <2>4
<1>5. \A c \in Ids : Claimed(c)' => c <= rec'[p].op
  BY <1>1, <1>2 DEF InTurn, Claimed
<1>6. InTurn(p)'
  BY <1>1, <1>2, <1>3, <1>4, <1>5 DEF InTurn
<1>7. InOrder' /\ \A s \in Slots : AsleepBut(s, 0)' => Off(s)'
  <2>1. \A s \in Slots : AsleepBut(s, 0)' => AsleepBut(s, 0)
    BY AsleepSame
  <2>2. InOrder'
    BY DEF OInv, InOrder, Claimed
  <2>. QED
    BY <2>1, <2>2
<1>. QED
  BY <1>1, <1>6, <1>7, WorkInTurn

LEMMA AllocateInTurn == ASSUME IInv, OInv, NEW p \in Reconcilers, Allocate(p) PROVE OInv'
<1>1. /\ rec[p].at = "act" /\ Working(p) /\ Stepping(p) /\ Type(p) = "create" /\ rec[p].step = 1
      /\ UNCHANGED <<ops, reg, tenants>> /\ rec[p] \in RecRecord
  <2>1. rec[p].at = "act" /\ StepOf(p) = "allocate"
    BY DEF Allocate
  <2>. QED
    BY <2>1, ActIs, WorkerIs, StepIndex DEF Allocate
<1>2. Unmoved(p) /\ Registered'
  BY <1>1, RegisteredSame DEF Unmoved, Early
<1>3. CASE \E s \in Ready : /\ disk' = [disk EXCEPT ![s].marker = rec[p].op]
                            /\ rec' = [rec EXCEPT ![p] = [Passed(@) EXCEPT !.slot = s]]
  <2>1. PICK s \in Ready : /\ disk' = [disk EXCEPT ![s].marker = rec[p].op]
                           /\ rec' = [rec EXCEPT ![p] = [Passed(@) EXCEPT !.slot = s]]
    BY <1>3
  <2>2. s \in Slots /\ disk[s].marker = 0
    BY DEF Ready, SlotState
  <2>3. reg[s].row = "absent"
    BY <2>2 DEF IInv, SlotOK, OInv, Registered
  <2>. DEFINE x == Passed(rec[p])
              r == [x EXCEPT !.slot = s]
  <2>4. rec' = [rec EXCEPT ![p] = r]
    BY <2>1 DEF IInv, TypeOK
  <2>5. /\ x \in RecRecord /\ x.op = rec[p].op /\ x.code = rec[p].code
        /\ x.at = "finish" \/ (x.at \in {"begin", "act"} /\ x.step = 2)
    BY <1>1, WorkerPassed, PassedEnds
  <2>. HIDE DEF x
  <2>6. r \in RecRecord /\ r.op = rec[p].op /\ r.slot = s /\ r.at = x.at /\ r.step = x.step
        /\ r.code = rec[p].code
    BY <2>2, <2>5 DEF RecRecord
  <2>. HIDE DEF r
  <2>7. rec[p].code = None
    BY <1>1 DEF OInv, InTurn
  <2>8. \A u \in Slots : SameLights(u)
    BY <2>1 DEF SameLights, IInv, TypeOK, SlotRecord
  <2>9. /\ r.at \in {"begin", "act"} => r.code = None /\ Stepping(p)
        /\ r.at \in {"begin", "act"} =>
             /\ r.step > 3 => r.slot = rec[p].slot /\ rec[p].step > 3
             /\ r.step > 1 => /\ reg'[r.slot].row = "absent"
                              /\ r.step > 5 => tenants'[r.slot] # {}
        /\ r.at \notin {"restore", "unmark"}
    BY <1>1, <2>3, <2>5, <2>6, <2>7
  <2>. QED
    BY <1>1, <1>2, <2>4, <2>6, <2>8, <2>9, MoveInTurn
<1>4. CASE rec' = [rec EXCEPT ![p] = Refused(@, "capacity_exhausted")] /\ UNCHANGED disk
  <2>1. "capacity_exhausted" \in Codes /\ rec' = [rec EXCEPT ![p] = Refused(rec[p], "capacity_exhausted")]
    BY <1>4 DEF Codes, IInv, TypeOK
  <2>2. (\A s \in Slots : SameLights(s)) /\ \A s \in Slots : AsleepBut(s, 0) => Off(s)'
    BY <1>4 DEF SameLights, OInv, Off
  <2>. QED
    BY <1>1, <1>2, <2>1, <2>2, RefusedInTurn
<1>. QED
  BY <1>3, <1>4 DEF Allocate

(* The slot is given back: nothing but its manifest and its marker change. *)
LEMMA GivingBackInTurn ==
  ASSUME IInv, OInv, NEW p \in Reconcilers, NotAdmitted(p) \/ Restore(p) \/ Unmark(p)
  PROVE  OInv'
<1>1. /\ Working(p) /\ rec[p] \in RecRecord /\ Type(p) = "create" /\ Unmoved(p)
      /\ UNCHANGED <<ops, reg, tenants>>
  <2>1. CASE NotAdmitted(p)
    <3>1. rec[p].at = "act" /\ StepOf(p) = "admit" /\ UNCHANGED <<ops, reg, tenants>>
      BY <2>1 DEF NotAdmitted
    <3>2. Working(p) /\ Type(p) = "create" /\ rec[p].step \in 2..4
      BY <3>1, GivesBack
    <3>3. rec[p].step <= 4
      BY <3>2
    <3>. QED
      BY <3>1, <3>2, <3>3, WorkerIs DEF Unmoved, Early
  <2>2. CASE Restore(p) \/ Unmark(p)
    <3>1. Working(p) /\ rec[p].at \in {"restore", "unmark"} /\ UNCHANGED <<ops, reg, tenants>>
      BY <2>2 DEF Restore, Unmark, Working
    <3>2. Type(p) = "create"
      BY <3>1 DEF OInv, InTurn
    <3>. QED
      BY <3>1, <3>2, WorkerIs DEF Unmoved, Early
  <2>. QED
    BY <2>1, <2>2
<1>2. \A s \in Slots : SameLights(s)
  <2>1. CASE NotAdmitted(p)
    BY <2>1 DEF NotAdmitted, SameLights
  <2>2. CASE Restore(p)
    BY <2>2 DEF Restore, Restored, SameLights, IInv, TypeOK, SlotRecord
  <2>3. CASE Unmark(p)
    BY <2>3 DEF Unmark, Unmarked, SameLights, IInv, TypeOK, SlotRecord
  <2>. QED
    BY <2>1, <2>2, <2>3
<1>3. PICK r \in RecRecord : /\ rec' = [rec EXCEPT ![p] = r] /\ r.op = rec[p].op
                             /\ r.slot = rec[p].slot
                             /\ r.at \in {"restore", "unmark", "finish"}
  <2>1. CASE NotAdmitted(p)
    <3>1. PICK code \in {"capacity_exhausted", "operation_failed"} :
            rec' = [rec EXCEPT ![p] = [rec[p] EXCEPT !.at = "restore", !.code = code]]
      BY <2>1 DEF NotAdmitted, IInv, TypeOK
    <3>2. LET r == [rec[p] EXCEPT !.at = "restore", !.code = code] IN
          r \in RecRecord /\ r.op = rec[p].op /\ r.slot = rec[p].slot /\ r.at = "restore"
      BY <1>1 DEF RecRecord, Places, Codes
    <3>. QED
      BY <3>1, <3>2
  <2>2. CASE Restore(p) \/ Unmark(p)
    <3>1. PICK at \in {"unmark", "finish"} : rec' = [rec EXCEPT ![p] = [rec[p] EXCEPT !.at = at]]
      BY <2>2 DEF Restore, Unmark, IInv, TypeOK
    <3>2. LET r == [rec[p] EXCEPT !.at = at] IN
          r \in RecRecord /\ r.op = rec[p].op /\ r.slot = rec[p].slot /\ r.at = at
      BY <1>1 DEF RecRecord, Places
    <3>. QED
      BY <3>1, <3>2
  <2>. QED
    BY <2>1, <2>2
<1>. QED
  BY <1>1, <1>2, <1>3, RegisteredSame, MoveInTurn

LEMMA SetProfileInTurn == ASSUME IInv, OInv, NEW p \in Reconcilers, SetProfile(p) PROVE OInv'
<1>1. rec[p].at = "act" /\ StepOf(p) = "profile" /\ UNCHANGED <<ops, reg, tenants>>
  BY DEF SetProfile
<1>2. /\ Working(p) /\ Stepping(p) /\ Slotted(p) /\ Type(p) = "create" /\ rec[p] \in RecRecord
      /\ rec[p].step = 2
  BY <1>1, ActIs, WorkerIs, StepIndex
<1>3. Unmoved(p) /\ Registered' /\ reg[rec[p].slot].row = "absent" /\ rec[p].code = None
  BY <1>1, <1>2, RegisteredSame DEF Unmoved, Early, Stepping, OInv, InTurn
<1>4. \A s \in Slots : SameLights(s)
  BY DEF SetProfile, SameLights, IInv, TypeOK, SlotRecord
<1>5. CASE rec' = [rec EXCEPT ![p] = Passed(@)]
  <2>1. PICK r \in RecRecord : /\ rec' = [rec EXCEPT ![p] = r] /\ r.op = rec[p].op
                               /\ r.slot = rec[p].slot /\ r.code = None
                               /\ r.at = "finish" \/ (r.at \in {"begin", "act"} /\ r.step = 3)
    <3>1. LET x == Passed(rec[p]) IN
          /\ x \in RecRecord /\ x.op = rec[p].op /\ x.slot = rec[p].slot /\ x.code = None
          /\ x.at = "finish" \/ (x.at \in {"begin", "act"} /\ x.step = 3)
      BY <1>2, <1>3, WorkerPassed, PassedEnds
    <3>. QED
      BY <1>5, <3>1 DEF IInv, TypeOK
  <2>2. r.at \in {"begin", "act"} =>
          /\ r.step > 3 => r.slot = rec[p].slot /\ rec[p].step > 3
          /\ r.step > 1 => /\ reg'[r.slot].row = "absent"
                           /\ r.step > 5 => tenants'[r.slot] # {}
    BY <1>1, <1>3, <2>1
  <2>3. r.at \notin {"restore", "unmark"}
    BY <2>1
  <2>. QED
    BY <1>1, <1>2, <1>3, <1>4, <2>1, <2>2, <2>3, MoveInTurn
<1>6. CASE rec' = [rec EXCEPT ![p].at = "restore", ![p].code = "could_not_determine"]
  <2>1. PICK r \in RecRecord : /\ rec' = [rec EXCEPT ![p] = r] /\ r.op = rec[p].op
                               /\ r.slot = rec[p].slot /\ r.at = "restore"
    <3>1. LET r == [rec[p] EXCEPT !.at = "restore", !.code = "could_not_determine"] IN
          r \in RecRecord /\ r.op = rec[p].op /\ r.slot = rec[p].slot /\ r.at = "restore"
      BY <1>2 DEF RecRecord, Places, Codes
    <3>. QED
      BY <1>6, <3>1 DEF IInv, TypeOK
  <2>. QED
    BY <1>1, <1>2, <1>3, <1>4, <2>1, MoveInTurn
<1>. QED
  BY <1>5, <1>6 DEF SetProfile

(* advance(project_key=key): the creation's row gets its slot.             *)
LEMMA NameProjectInTurn == ASSUME IInv, OInv, NEW p \in Reconcilers, NameProject(p) PROVE OInv'
<1>1. /\ rec[p].at = "act" /\ StepOf(p) = "key"
      /\ UNCHANGED <<reg, disk, tenants>>
  BY DEF NameProject
<1>2. /\ Working(p) /\ Stepping(p) /\ Slotted(p) /\ Type(p) = "create" /\ rec[p] \in RecRecord
      /\ rec[p].step = 3 /\ rec[p].op \in Ids /\ rec[p].slot \in Slots
  BY <1>1, ActIs, WorkerIs, StepIndex DEF WorkOK
<1>3. Unmoved(p) /\ reg[rec[p].slot].row = "absent" /\ rec[p].code = None /\ InTurn(p)
  BY <1>1, <1>2 DEF Unmoved, Early, Stepping, OInv, InTurn
<1>4. CASE Row(p).status = "running"
  <2>1. PICK o \in Ids, slot \in Slots : o = rec[p].op /\ slot = rec[p].slot
    BY <1>2
  <2>. DEFINE new == [ops[o] EXCEPT !.key = slot]
  <2>2. /\ new.status = "running" /\ new.type = "create" /\ new.key = slot
        /\ ops' = [ops EXCEPT ![o] = new] /\ rec' = [rec EXCEPT ![p] = Passed(rec[p])]
    BY <1>2, <1>4, <2>1 DEF NameProject, Row, Type, IInv, TypeOK, OpRecord
  <2>. HIDE DEF new
  <2>3. /\ ops'[o].status = "running" /\ ops'[o].type = "create" /\ ops'[o].key = slot
        /\ ops[o].status = "running" /\ ops[o].type = "create"
        /\ \A u \in Ids : u # o => ops'[u] = ops[u]
    BY <1>2, <1>4, <2>1, <2>2 DEF Row, Type, IInv, TypeOK
  <2>4. PICK r \in RecRecord : /\ rec' = [rec EXCEPT ![p] = r] /\ r.op = o /\ r.slot = slot
                               /\ r.code = None
                               /\ r.at = "finish" \/ (r.at \in {"begin", "act"} /\ r.step = 4)
    <3>1. LET x == Passed(rec[p]) IN
          /\ x \in RecRecord /\ x.op = o /\ x.slot = slot /\ x.code = None
          /\ x.at = "finish" \/ (x.at \in {"begin", "act"} /\ x.step = 4)
      BY <1>2, <1>3, <2>1, WorkerPassed, PassedEnds
    <3>. QED
      BY <2>2, <3>1
  <2>5. rec'[p] = r
    BY <2>4 DEF IInv, TypeOK
  <2>6. \A s \in Slots : AsleepBut(s, o)' => AsleepBut(s, o)
    BY <2>3, AsleepKept
  <2>7. \A s \in Slots : AsleepBut(s, o)' => Off(s)'
    BY <1>1, <1>2, <1>3, <2>1, <2>6 DEF InTurn, Off
  <2>8. \A s \in Slots : AsleepBut(s, 0)' => Off(s)'
    <3>1. \A s \in Slots : AsleepBut(s, 0)' => AsleepBut(s, o)'
      BY <2>3 DEF AsleepBut, Ids
    <3>. QED
      BY <2>7, <3>1
  <2>9. InOrder' /\ \A c \in Ids : Claimed(c)' => Claimed(c)
    <3>1. \A c \in Ids : Claimed(c)' => Claimed(c)
      BY <2>3 DEF Claimed
    <3>2. \A c \in Ids : ops'[c].status = "pending" => ops[c].status = "pending"
      BY <2>3
    <3>. QED
      BY <3>1, <3>2 DEF OInv, InOrder
  <2>10. Registered'
    BY <1>1, <2>3 DEF OInv, Registered, Asked
  <2>11. InTurn(p)'
    <3>1. Type(p)' = "create" /\ Row(p)'.status = "running" /\ Row(p)'.key = slot
      BY <2>3, <2>4, <2>5 DEF Type, Row
    <3>2. \A c \in Ids : Claimed(c)' => c <= rec'[p].op
      BY <1>2, <1>3, <2>1, <2>4, <2>5, <2>9 DEF InTurn
    <3>3. \A s \in Slots : AsleepBut(s, rec[p].op)' => Off(s)'
      BY <2>4, <2>5, <2>7
    <3>4. reg'[slot].row = "absent"
      BY <1>1, <1>3, <2>1
    <3>. QED
      BY <2>4, <2>5, <3>1, <3>2, <3>3, <3>4 DEF InTurn, Stepping, Slotted
  <2>. QED
    BY <1>2, <2>4, <2>8, <2>9, <2>10, <2>11, WorkInTurn
<1>5. CASE Row(p).status # "running"
  <2>1. rec' = [rec EXCEPT ![p] = At("off")] /\ ops' = ops
    BY <1>5 DEF NameProject, Exit
  <2>2. \A s \in Slots : SameLights(s)
    BY <1>1 DEF SameLights
  <2>. QED
    BY <1>1, <1>2, <2>1, <2>2, RegisteredSame, RowsStay, LeavesInTurn
<1>. QED
  BY <1>4, <1>5

(* A project the worker wakes, resizes or creates does not sleep.          *)
LEMMA AwakeUnder ==
  ASSUME IInv, OInv, NEW p \in Reconcilers, Working(p), NEW s \in Slots, Row(p).key = s,
         Type(p) \in {"create", "wake", "resize"}
  PROVE  ~AsleepBut(s, 0)
<1>1. PICK w \in Ids : w = rec[p].op
  BY WorkerIs
<1>2. Decides(ops[w], s) /\ ops[w].type # "sleep" /\ \A c \in Ids : Claimed(c) => c <= w
  BY <1>1 DEF OInv, InTurn, Decides, Undecided, NothingRan, Row, Type
<1>3. SUFFICES ASSUME NEW o \in Ids, ops[o].type = "sleep", ops[o].status = "succeeded", w <= o
               PROVE  FALSE
  BY <1>2 DEF AsleepBut, Ids
<1>4. o <= w
  BY <1>2, <1>3 DEF Claimed
<1>. QED
  BY <1>2, <1>3, <1>4 DEF Ids

(* Which commands turn anything on, and where they are found.              *)
TurnsOn == {"deploy-1", "deploy-2", "redeploy", "enable", "backup", "schedule", "start"}
Looks == {"candidate", "dump"}

LEMMA TurningOn ==
  ASSUME NEW t \in Types, NEW n \in 1..Len(Steps[t])
  PROVE  /\ Steps[t][n] \in TurnsOn => t \in {"create", "wake", "resize"} /\ (t = "create" => n > 4)
         /\ Steps[t][n] \in Looks => t # "create" /\ n = 1
         /\ t = "sleep" => Steps[t][n] = (IF n = 1 THEN "unschedule"
                                          ELSE IF n = 2 THEN "disable" ELSE "stop")
<1>1. CASE t = "create"
  <2>1. n \in 1..11
    BY <1>1, Lengths
  <2>2. n \in {1, 2, 3, 4, 5, 6, 7, 8, 9, 10, 11}
    BY <2>1
  <2>. QED
    BY <1>1, <2>2 DEF Steps, TurnsOn, Looks
<1>2. CASE t \in {"sleep", "wake", "resize", "delete"}
  <2>1. n \in 1..3
    BY <1>2, Lengths
  <2>2. n \in {1, 2, 3}
    BY <2>1
  <2>. QED
    BY <1>2, <2>2 DEF Steps, DeleteSteps, TurnsOn, Looks
<1>3. CASE t = "export"
  <2>1. n \in 1..2
    BY <1>3, Lengths
  <2>2. n \in {1, 2}
    BY <2>1
  <2>. QED
    BY <1>3, <2>2 DEF Steps, TurnsOn, Looks
<1>. QED
  BY <1>1, <1>2, <1>3, TypesAre

(* Another command turns nothing on, done or part way.                     *)
LEMMA TurnsOff ==
  ASSUME NEW step, NEW d \in SlotRecord, NEW left,
         left = After(step, d) \/ left \in Partly(step, d)
  PROVE  /\ step \notin TurnsOn =>
              (left.up => d.up) /\ (left.unit => d.unit) /\ (left.timers => d.timers)
         /\ step \in Looks => left = d
<1>1. step \notin TurnsOn =>
        /\ After(step, d).up => d.up
        /\ After(step, d).unit => d.unit
        /\ After(step, d).timers => d.timers
  BY DEF After, TurnsOn, SlotRecord
<1>2. step \in Looks => After(step, d) = d
  BY DEF After, Looks
<1>3. ASSUME NEW x \in RetirementStages(d)
      PROVE  (x.up => d.up) /\ (x.unit => d.unit) /\ (x.timers => d.timers)
  BY <1>3 DEF RetirementStages, SlotRecord
<1>. QED
  BY <1>1, <1>2, <1>3 DEF Partly, TurnsOn, Looks

LEMMA NoCode == None \notin NothingRan
BY DEF NothingRan, Codes

(* What each step of a sleep turns off.                                    *)
LEMMA SleepSteps ==
  ASSUME NEW d \in SlotRecord
  PROVE  /\ ~After("unschedule", d).timers
         /\ ~After("disable", d).unit /\ After("disable", d).timers = d.timers
         /\ ~After("stop", d).up /\ After("stop", d).timers = d.timers
         /\ After("stop", d).unit = d.unit
<1>1. /\ After("unschedule", d) = [d EXCEPT !.timers = FALSE]
      /\ After("disable", d) = [d EXCEPT !.unit = FALSE]
      /\ After("stop", d) = [d EXCEPT !.up = FALSE]
  BY DEF After
<1>. QED
  BY <1>1 DEF SlotRecord

LEMMA DeployingGrows ==
  ASSUME IInv, NEW p \in Reconcilers, rec[p].slot \in Slots, Deploying(p)
  PROVE  /\ \A s \in Slots : tenants[s] # {} => tenants'[s] # {}
         /\ StepOf(p) = "deploy-1" => tenants'[rec[p].slot] # {}
BY DEF Deploying, IInv, TypeOK

(* What a command leaves, done or part way: who sleeps is off, and a       *)
(* command that only looks has changed nothing.                            *)
LEMMA CommandLights ==
  ASSUME IInv, OInv, NEW p \in Reconcilers, rec[p].at = "act", StepOf(p) \in Commands, NEW left,
         left = After(StepOf(p), disk[rec[p].slot]) \/ left \in Partly(StepOf(p), disk[rec[p].slot]),
         disk' = [disk EXCEPT ![rec[p].slot] = left]
  PROVE  /\ \A s \in Slots : AsleepBut(s, 0) => Off(s)'
         /\ StepOf(p) \in Looks => \A s \in Slots : SameLights(s)
<1>1. PICK slot \in Slots : slot = rec[p].slot
  BY CommandIs
<1>2. /\ Working(p) /\ Stepping(p) /\ disk[slot] \in SlotRecord /\ StepOf(p) = Steps[Type(p)][rec[p].step]
      /\ Type(p) = "create" => rec[p].step > 3
  BY <1>1, CommandIs, ActIs
<1>3. Type(p) \in Types /\ rec[p].step \in 1..Len(Steps[Type(p)])
  BY <1>2, WorkerIs
<1>4. disk'[slot] = left /\ \A s \in Slots : s # slot => disk'[s] = disk[s]
  BY <1>1 DEF IInv, TypeOK
<1>5. StepOf(p) \in TurnsOn => ~AsleepBut(slot, 0)
  <2>1. StepOf(p) \in TurnsOn => Type(p) \in {"create", "wake", "resize"}
    BY <1>2, <1>3, TurningOn
  <2>2. Row(p).key = slot
    BY <1>1, <1>2 DEF OInv, InTurn
  <2>. QED
    BY <1>2, <2>1, <2>2, AwakeUnder
<1>6. /\ StepOf(p) \notin TurnsOn =>
           /\ left.up => disk[slot].up
           /\ left.unit => disk[slot].unit
           /\ left.timers => disk[slot].timers
      /\ StepOf(p) \in Looks => left = disk[slot]
  BY <1>1, <1>2, TurnsOff
<1>7. ASSUME NEW s \in Slots, AsleepBut(s, 0) PROVE Off(s)'
  <2>1. Off(s)
    BY <1>7 DEF OInv
  <2>. QED
    BY <1>4, <1>5, <1>6, <1>7, <2>1 DEF Off
<1>8. StepOf(p) \in Looks => \A s \in Slots : SameLights(s)
  BY <1>4, <1>6 DEF SameLights
<1>. QED
  BY <1>7, <1>8

LEMMA SucceedInTurn == ASSUME IInv, OInv, NEW p \in Reconcilers, Succeed(p) PROVE OInv'
<1>1. /\ rec[p].at = "act" /\ StepOf(p) \in Commands /\ Deploying(p) /\ UNCHANGED <<ops, reg>>
  BY DEF Succeed
<1>2. PICK slot \in Slots : slot = rec[p].slot
  BY <1>1, CommandIs
<1>3. /\ Working(p) /\ Stepping(p) /\ Slotted(p) /\ disk[slot] \in SlotRecord
      /\ StepOf(p) = Steps[Type(p)][rec[p].step]
      /\ Type(p) = "create" => rec[p].step > 3
      /\ rec[p] \in RecRecord /\ InTurn(p)
      /\ Type(p) \in Types /\ rec[p].step \in 1..Len(Steps[Type(p)]) /\ rec[p].step \in 1..11
  BY <1>1, <1>2, CommandIs, ActIs, WorkerIs DEF OInv
<1>. DEFINE left == After(StepOf(p), disk[slot])
            x == Passed(rec[p])
<1>4. disk' = [disk EXCEPT ![slot] = left] /\ rec' = [rec EXCEPT ![p] = x]
  BY <1>2 DEF Succeed, IInv, TypeOK
<1>5. \A s \in Slots : AsleepBut(s, 0) => Off(s)'
  BY <1>1, <1>2, <1>4, CommandLights
<1>6. /\ x \in RecRecord /\ x.op = rec[p].op /\ x.slot = slot /\ x.code = None
      /\ \/ x.at = "finish" /\ rec[p].step = Len(Steps[Type(p)])
         \/ x.at \in {"begin", "act"} /\ x.step = rec[p].step + 1
  <2>1. rec[p].code = None
    BY <1>3 DEF InTurn
  <2>2. /\ x \in RecRecord /\ x.op = rec[p].op /\ x.slot = rec[p].slot
        /\ x.at = "finish" \/ (x.at \in {"begin", "act"} /\ x.step = rec[p].step + 1)
    BY <1>3, WorkerPassed
  <2>3. x.code = rec[p].code /\ (rec[p].step # Len(Steps[Type(p)]) => x.at # "finish")
    BY <1>3, PassedEnds DEF Type
  <2>. QED
    BY <1>2, <2>1, <2>2, <2>3
<1>7. Type(p) = "sleep" =>
        /\ rec[p].step = 1 => ~left.timers
        /\ rec[p].step = 2 => ~left.unit /\ left.timers = disk[slot].timers
        /\ rec[p].step = 3 => /\ ~left.up /\ left.timers = disk[slot].timers
                              /\ left.unit = disk[slot].unit
  <2>. SUFFICES ASSUME Type(p) = "sleep"
                PROVE  /\ rec[p].step = 1 => ~left.timers
                       /\ rec[p].step = 2 => ~left.unit /\ left.timers = disk[slot].timers
                       /\ rec[p].step = 3 => /\ ~left.up /\ left.timers = disk[slot].timers
                                             /\ left.unit = disk[slot].unit
    OBVIOUS
  <2>1. StepOf(p) = (IF rec[p].step = 1 THEN "unschedule"
                     ELSE IF rec[p].step = 2 THEN "disable" ELSE "stop")
    BY <1>3, TurningOn
  <2>. QED
    BY <1>3, <2>1, SleepSteps
<1>8. /\ \A s \in Slots : tenants[s] # {} => tenants'[s] # {}
      /\ StepOf(p) = "deploy-1" => tenants'[slot] # {}
  BY <1>1, <1>2, DeployingGrows
<1>9. Type(p) = "create" => StepOf(p) = "deploy-1" \/ rec[p].step # 5
  BY <1>3, StepIndex
<1>. HIDE DEF left, x
<1>10. PICK r \in RecRecord : r = x
  BY <1>6
<1>11. rec'[p] = r /\ disk'[slot] = left
  BY <1>4, <1>10 DEF IInv, TypeOK
<1>12. Type(p)' = Type(p) /\ Row(p)' = Row(p)
  BY <1>1, <1>6, <1>10, <1>11 DEF Type, Row
<1>13. Stepping(p)' <=> r.at \in {"begin", "act"}
  BY <1>11 DEF Stepping
<1>14. ~Unmoved(p)'
  <2>1. ~Early(r, Type(p))
    BY <1>3, <1>6, <1>10, NoCode DEF Early
  <2>. QED
    BY <1>11, <1>12, <2>1 DEF Unmoved
<1>15. Type(p) = "sleep" =>
         /\ Stepping(p)' /\ r.step > 1 => ~disk'[slot].timers
         /\ Stepping(p)' /\ r.step > 2 => ~disk'[slot].unit
         /\ r.at = "finish" /\ r.code = None => Off(slot)'
  <2>. SUFFICES ASSUME Type(p) = "sleep"
                PROVE  /\ Stepping(p)' /\ r.step > 1 => ~disk'[slot].timers
                       /\ Stepping(p)' /\ r.step > 2 => ~disk'[slot].unit
                       /\ r.at = "finish" /\ r.code = None => Off(slot)'
    OBVIOUS
  <2>1. Len(Steps[Type(p)]) = 3 /\ rec[p].step \in {1, 2, 3}
    <3>1. Len(Steps[Type(p)]) = 3
      BY Lengths
    <3>2. rec[p].step \in 1..3
      BY <1>3, <3>1
    <3>. QED
      BY <3>1, <3>2
  <2>2. (rec[p].step > 1 => ~disk[slot].timers) /\ (rec[p].step > 2 => ~disk[slot].unit)
    BY <1>2, <1>3 DEF InTurn
  <2>. QED
    BY <1>6, <1>7, <1>10, <1>11, <1>13, <2>1, <2>2 DEF Off
<1>16. Type(p) = "create" /\ Stepping(p)' =>
         reg'[slot].row = "absent" /\ (r.step > 5 => tenants'[slot] # {})
  <2>. SUFFICES ASSUME Type(p) = "create", Stepping(p)'
                PROVE  reg'[slot].row = "absent" /\ (r.step > 5 => tenants'[slot] # {})
    OBVIOUS
  <2>1. reg[slot].row = "absent" /\ (rec[p].step > 5 => tenants[slot] # {})
    BY <1>2, <1>3 DEF InTurn
  <2>2. r.step > 5 => rec[p].step > 5 \/ rec[p].step = 5
    BY <1>3, <1>6, <1>10, <1>13
  <2>. QED
    BY <1>1, <1>8, <1>9, <2>1, <2>2
<1>17. Row(p).key = slot /\ (Row(p).status = "running" \/ (Row(p).status = "failed" /\ Row(p).code = "interrupted"))
       /\ \A c \in Ids : Claimed(c)' => c <= r.op
  BY <1>1, <1>2, <1>3, <1>6, <1>10 DEF InTurn, Claimed
<1>18. InTurn(p)'
  BY <1>6, <1>10, <1>11, <1>12, <1>13, <1>14, <1>15, <1>16, <1>17 DEF InTurn, Slotted, Off
<1>19. Registered'
  BY <1>1, <1>8 DEF OInv, Registered, Asked
<1>20. InOrder' /\ \A s \in Slots : AsleepBut(s, 0)' => Off(s)'
  <2>1. \A s \in Slots : AsleepBut(s, 0)' => AsleepBut(s, 0)
    BY <1>1, AsleepSame
  <2>2. InOrder'
    BY <1>1 DEF OInv, InOrder, Claimed
  <2>. QED
    BY <1>5, <2>1, <2>2
<1>. QED
  BY <1>3, <1>4, <1>18, <1>19, <1>20, WorkInTurn

LEMMA FailInTurn == ASSUME IInv, OInv, NEW p \in Reconcilers, Fail(p) PROVE OInv'
<1>1. /\ rec[p].at = "act" /\ StepOf(p) \in Commands /\ Deploying(p) /\ UNCHANGED <<ops, reg>>
  BY DEF Fail
<1>2. PICK left \in Partly(StepOf(p), disk[rec[p].slot]) : disk' = [disk EXCEPT ![rec[p].slot] = left]
  BY DEF Fail
<1>3. PICK code \in CodesOf(StepOf(p), disk[rec[p].slot]) : rec' = [rec EXCEPT ![p] = Refused(rec[p], code)]
  BY DEF Fail, IInv, TypeOK
<1>4. code \in Codes /\ (code \in NothingRan => StepOf(p) \in Looks)
  BY DEF CodesOf, Codes, NothingRan, Looks
<1>5. /\ Working(p) /\ StepOf(p) = Steps[Type(p)][rec[p].step] /\ rec[p].slot \in Slots
      /\ Type(p) \in Types /\ rec[p].step \in 1..Len(Steps[Type(p)])
  BY <1>1, CommandIs, ActIs, WorkerIs
<1>6. StepOf(p) \in Looks => Unmoved(p)
  <2>1. StepOf(p) \in Looks => rec[p].step = 1
    BY <1>5, TurningOn
  <2>. QED
    BY <1>1, <2>1 DEF Unmoved, Early
<1>7. Registered'
  <2>1. \A s \in Slots : tenants[s] # {} => tenants'[s] # {}
    BY <1>1, <1>5, DeployingGrows
  <2>. QED
    BY <1>1, <2>1 DEF OInv, Registered, Asked
<1>8. /\ \A s \in Slots : AsleepBut(s, 0) => Off(s)'
      /\ StepOf(p) \in Looks => \A s \in Slots : SameLights(s)
  BY <1>1, <1>2, CommandLights
<1>. QED
  BY <1>1, <1>3, <1>4, <1>5, <1>6, <1>7, <1>8, RefusedInTurn

(* A worker that dies in the middle of a command.                          *)
LEMMA DieInTurn == ASSUME IInv, OInv, NEW p \in Reconcilers, Die(p) PROVE OInv'
<1>1. CASE ~(rec[p].at = "act" /\ StepOf(p) \in Commands)
  BY <1>1, IdlersInTurn
<1>2. CASE rec[p].at = "act" /\ StepOf(p) \in Commands
  <2>1. /\ Deploying(p) /\ UNCHANGED <<ops, reg>> /\ rec' = [rec EXCEPT ![p] = At("off")]
    BY <1>2 DEF Die, Exit
  <2>2. PICK left \in Partly(StepOf(p), disk[rec[p].slot]) : disk' = [disk EXCEPT ![rec[p].slot] = left]
    BY <1>2 DEF Die
  <2>3. \A s \in Slots : AsleepBut(s, 0) => Off(s)'
    BY <1>2, <2>2, CommandLights
  <2>4. Working(p) /\ rec[p].slot \in Slots
    BY <1>2, CommandIs
  <2>5. Registered'
    <3>1. \A s \in Slots : tenants[s] # {} => tenants'[s] # {}
      BY <2>1, <2>4, DeployingGrows
    <3>. QED
      BY <2>1, <3>1 DEF OInv, Registered, Asked
  <2>6. InOrder' /\ \A s \in Slots : AsleepBut(s, 0)' => Off(s)'
    <3>1. \A s \in Slots : AsleepBut(s, 0)' => AsleepBut(s, 0)
      BY <2>1, AsleepSame
    <3>2. InOrder'
      BY <2>1 DEF OInv, InOrder, Claimed
    <3>. QED
      BY <2>3, <3>1, <3>2
  <2>. QED
    BY <2>1, <2>4, <2>5, <2>6, LeavesInTurn
<1>. QED
  BY <1>1, <1>2

(* The registry's step is the last of the program it is in.                *)
LEMMA RegistryLast ==
  ASSUME NEW t \in Types, NEW n \in 1..Len(Steps[t]),
         Steps[t][n] \in {"registry", "unregister"}
  PROVE  n = Len(Steps[t]) /\ (t = "create" => n = 11)
<1>1. CASE t = "create"
  <2>1. n \in 1..11 /\ Len(Steps[t]) = 11
    BY <1>1, Lengths
  <2>2. n \in {1, 2, 3, 4, 5, 6, 7, 8, 9, 10, 11}
    BY <2>1
  <2>. QED
    BY <1>1, <2>1, <2>2 DEF Steps
<1>2. CASE t \in {"resize", "delete"}
  <2>1. n \in 1..3 /\ Len(Steps[t]) = 3
    BY <1>2, Lengths
  <2>2. n \in {1, 2, 3}
    BY <2>1
  <2>3. t = "resize" => n = 3
    BY <2>2 DEF Steps
  <2>4. t = "delete" => n = 3
    BY <2>2 DEF Steps, DeleteSteps
  <2>. QED
    BY <1>2, <2>1, <2>3, <2>4
<1>3. t \in {"create", "resize", "delete"}
  <2>1. Steps[t][n] = "registry" => t \in {"create", "resize"}
    BY StepIndex
  <2>2. Steps[t][n] = "unregister" => t = "delete"
    BY StepIndex
  <2>. QED
    BY <2>1, <2>2
<1>. QED
  BY <1>1, <1>2, <1>3

(* What is known of a worker at the registry.                              *)
LEMMA AtRegistry ==
  ASSUME IInv, OInv, NEW p \in Reconcilers, rec[p].at = "act",
         StepOf(p) \in {"registry", "unregister"}
  PROVE  /\ Working(p) /\ Stepping(p) /\ rec[p] \in RecRecord /\ rec[p].op \in Ids
         /\ rec[p].slot \in Slots /\ Row(p).key = rec[p].slot
         /\ StepOf(p) = "registry" => Type(p) \in {"create", "resize"}
         /\ StepOf(p) = "unregister" => Type(p) = "delete"
         /\ Type(p) = "create" =>
              reg[rec[p].slot].row = "absent" /\ tenants[rec[p].slot] # {}
         /\ Type(p) # "create" =>
              reg[rec[p].slot].row # "absent" /\ reg[rec[p].slot].org = Row(p).org
         /\ Passed(rec[p]) \in RecRecord /\ Passed(rec[p]).op = rec[p].op
         /\ Passed(rec[p]).slot = rec[p].slot
         /\ Passed(rec[p]).at = "finish" /\ Passed(rec[p]).code = None
<1>1. /\ Working(p) /\ Stepping(p) /\ Slotted(p) /\ WorkOK(p) /\ InTurn(p) /\ HasRow(p)
      /\ rec[p] \in RecRecord /\ StepOf(p) = Steps[Type(p)][rec[p].step]
      /\ rec[p].step \in 1..Len(Steps[Type(p)]) /\ Type(p) \in Types
  BY ActIs, WorkerIs DEF OInv
<1>2. rec[p].step = Len(Steps[Type(p)]) /\ (Type(p) = "create" => rec[p].step = 11)
  BY <1>1, RegistryLast
<1>3. rec[p].slot \in Slots /\ Row(p).key = rec[p].slot /\ rec[p].code = None
  <2>1. Type(p) = "create" => rec[p].step > 3
    BY <1>2
  <2>2. rec[p].slot \in Slots
    BY <1>1 DEF WorkOK
  <2>. QED
    BY <1>1, <2>1, <2>2 DEF InTurn
<1>4. /\ StepOf(p) = "registry" => Type(p) \in {"create", "resize"}
      /\ StepOf(p) = "unregister" => Type(p) = "delete"
  BY <1>1, StepIndex
<1>5. Type(p) = "create" => reg[rec[p].slot].row = "absent" /\ tenants[rec[p].slot] # {}
  <2>1. ASSUME Type(p) = "create" PROVE rec[p].step > 5
    <3>1. rec[p].step = 11
      BY <1>2, <2>1
    <3>. QED
      BY <3>1
  <2>. QED
    BY <1>1, <2>1 DEF InTurn
<1>6. rec[p].op \in Asked
  BY <1>1 DEF HasRow, Asked
<1>7. Type(p) # "create" => reg[rec[p].slot].row # "absent" /\ reg[rec[p].slot].org = Row(p).org
  BY <1>3, <1>6 DEF OInv, Registered, Row, Type
<1>8. /\ Passed(rec[p]) \in RecRecord /\ Passed(rec[p]).op = rec[p].op
      /\ Passed(rec[p]).slot = rec[p].slot
  BY <1>1, WorkerPassed
<1>9. Passed(rec[p]).at = "finish" /\ Passed(rec[p]).code = None
  BY <1>1, <1>2, <1>3, PassedEnds DEF Type
<1>. QED
  BY <1>1, <1>3, <1>4, <1>5, <1>6, <1>7, <1>8, <1>9 DEF Asked

LEMMA RegisterInTurn == ASSUME IInv, OInv, NEW p \in Reconcilers, Register(p) PROVE OInv'
<1>1. /\ rec[p].at = "act" /\ StepOf(p) = "registry" /\ UNCHANGED <<ops, disk, tenants>>
      /\ \A s \in Slots : SameLights(s)
  BY DEF Register, SameLights
<1>2. /\ Working(p) /\ Stepping(p) /\ rec[p] \in RecRecord /\ rec[p].op \in Ids
      /\ rec[p].slot \in Slots /\ Row(p).key = rec[p].slot
      /\ Type(p) \in {"create", "resize"}
  BY <1>1, AtRegistry
<1>3. CASE UNCHANGED reg /\ rec' = [rec EXCEPT ![p] = Refused(@, "could_not_determine")]
  <2>1. "could_not_determine" \in Codes \ NothingRan
    BY DEF Codes, NothingRan
  <2>2. rec' = [rec EXCEPT ![p] = Refused(rec[p], "could_not_determine")]
    BY <1>3 DEF IInv, TypeOK
  <2>3. Registered' /\ \A s \in Slots : AsleepBut(s, 0) => Off(s)'
    BY <1>1, <1>3, RegisteredSame DEF OInv, Off
  <2>. QED
    BY <1>1, <1>2, <2>1, <2>2, <2>3, RefusedInTurn
<1>4. CASE /\ reg' = [reg EXCEPT ![rec[p].slot] = [row |-> "live", org |-> Row(p).org]]
           /\ rec' = [rec EXCEPT ![p] = Passed(@)]
  <2>1. PICK slot \in Slots, r \in RecRecord : slot = rec[p].slot /\ r = Passed(rec[p])
    BY <1>1, <1>2, AtRegistry
  <2>2. rec' = [rec EXCEPT ![p] = r] /\ r.op = rec[p].op /\ r.slot = slot
        /\ r.at = "finish" /\ r.code = None
    BY <1>1, <1>4, <2>1, AtRegistry DEF IInv, TypeOK
  <2>3. /\ reg'[slot].row = "live" /\ reg'[slot].org = Row(p).org
        /\ \A s \in Slots : s # slot => reg'[s] = reg[s]
    BY <1>4, <2>1 DEF IInv, TypeOK
  <2>4. tenants[slot] # {}
    BY <1>1, <2>1, AtRegistry DEF OInv, Registered
  <2>5. ASSUME NEW o \in Asked, ops[o].type # "create"
        PROVE  reg'[ops[o].key].row # "absent" /\ reg'[ops[o].key].org = ops[o].org
    <3>1. /\ reg[ops[o].key].row # "absent" /\ reg[ops[o].key].org = ops[o].org
          /\ ops[o].key \in Slots
      BY <2>5 DEF OInv, Registered, IInv, Rows
    <3>2. ops[o].key = slot => reg[slot].org = Row(p).org
      BY <1>1, <2>1, <3>1, AtRegistry
    <3>. QED
      BY <2>3, <3>1, <3>2
  <2>6. Registered'
    BY <1>1, <2>3, <2>4, <2>5 DEF OInv, Registered, Asked
  <2>7. ~Early(r, Type(p)) /\ r.at \notin {"begin", "act", "restore", "unmark"} /\ Type(p) # "sleep"
    BY <1>2, <2>2, NoCode DEF Early
  <2>. QED
    BY <1>1, <1>2, <2>1, <2>2, <2>6, <2>7, MoveInTurn
<1>. QED
  BY <1>3, <1>4 DEF Register

LEMMA NotAnsweredInTurn == ASSUME IInv, OInv, NEW p \in Reconcilers, NotAnswered(p) PROVE OInv'
<1>1. Working(p) /\ UNCHANGED <<ops, reg, disk, tenants>>
  BY DEF NotAnswered, Working
<1>2. "could_not_determine" \in Codes \ NothingRan
      /\ rec' = [rec EXCEPT ![p] = Refused(rec[p], "could_not_determine")]
  BY DEF NotAnswered, Codes, NothingRan, IInv, TypeOK
<1>3. Registered' /\ \A s \in Slots : AsleepBut(s, 0) => Off(s)'
  BY <1>1, RegisteredSame DEF OInv, Off
<1>. QED
  BY <1>1, <1>2, <1>3, RefusedInTurn

LEMMA UnregisterInTurn == ASSUME IInv, OInv, NEW p \in Reconcilers, Unregister(p) PROVE OInv'
<1>1. /\ rec[p].at = "act" /\ StepOf(p) = "unregister" /\ UNCHANGED <<ops, disk, tenants>>
      /\ \A s \in Slots : SameLights(s)
  BY DEF Unregister, SameLights
<1>2. /\ Working(p) /\ Stepping(p) /\ Type(p) = "delete"
  BY <1>1, AtRegistry
<1>3. PICK slot \in Slots, r \in RecRecord : slot = rec[p].slot /\ r = Passed(rec[p])
  BY <1>1, AtRegistry
<1>4. rec' = [rec EXCEPT ![p] = r] /\ r.op = rec[p].op /\ r.slot = slot
      /\ r.at = "finish" /\ r.code = None
  BY <1>1, <1>3, AtRegistry DEF Unregister, IInv, TypeOK
<1>5. \A s \in Slots : /\ reg'[s].org = reg[s].org
                       /\ reg'[s].row = "absent" <=> reg[s].row = "absent"
  BY <1>3 DEF Unregister, IInv, TypeOK
<1>6. Registered'
  BY <1>1, <1>5 DEF OInv, Registered, Asked, IInv, Rows
<1>7. ~Early(r, Type(p)) /\ r.at \notin {"begin", "act", "restore", "unmark"}
  BY <1>4, NoCode DEF Early
<1>. QED
  BY <1>1, <1>2, <1>3, <1>4, <1>6, <1>7, MoveInTurn

(* The oldest pending row becomes running: it is the last that was claimed. *)
LEMMA ClaimInTurn == ASSUME IInv, OInv, NEW p \in Reconcilers, Claim(p) PROVE OInv'
<1>1. PICK o \in Ids :
        LET mine == [At("begin") EXCEPT !.op = o, !.step = 1, !.slot = ops[o].key] IN
        /\ First(o, Pending)
        /\ ops' = [ops EXCEPT ![o].status = "running", ![o].attempt = @ + 1, ![o].by = p]
        /\ \/ rec' = [rec EXCEPT ![p] = mine]
           \/ \E code \in {"could_not_determine", "invalid_request"} :
                rec' = [rec EXCEPT ![p] = [mine EXCEPT !.at = "finish", !.code = code]]
  BY DEF Claim
<1>2. lock = None /\ UNCHANGED <<reg, disk, tenants>>
  BY DEF Claim
<1>3. ops[o].status = "pending" /\ \A u \in Ids : ops[u].status = "pending" => o <= u
  BY <1>1 DEF First, Pending
<1>4. /\ ops'[o].status = "running" /\ ops'[o].type = ops[o].type /\ ops'[o].key = ops[o].key
      /\ ops'[o].org = ops[o].org /\ \A u \in Ids : u # o => ops'[u] = ops[u]
  BY <1>1 DEF IInv, TypeOK, OpRecord
<1>5. PICK r : /\ rec' = [rec EXCEPT ![p] = r] /\ r.op = o /\ r.slot = ops[o].key
               /\ \/ r.at = "begin" /\ r.step = 1 /\ r.code = None
                  \/ r.at = "finish" /\ r.code # None
  <2>. DEFINE mine == [At("begin") EXCEPT !.op = o, !.step = 1, !.slot = ops[o].key]
  <2>1. mine.op = o /\ mine.slot = ops[o].key /\ mine.at = "begin" /\ mine.step = 1
        /\ mine.code = None
    BY DEF At
  <2>2. \A code \in {"could_not_determine", "invalid_request"} :
          LET r == [mine EXCEPT !.at = "finish", !.code = code] IN
          r.op = o /\ r.slot = ops[o].key /\ r.at = "finish" /\ r.code # None
    BY DEF At, Codes
  <2>. QED
    BY <1>1, <2>1, <2>2
<1>6. rec'[p] = r
  BY <1>5 DEF IInv, TypeOK
<1>7. \A c \in Ids : (Claimed(c)' => c = o \/ Claimed(c)) /\ (Claimed(c)' => c <= o)
  <2>1. \A c \in Ids : Claimed(c)' => c = o \/ Claimed(c)
    BY <1>4 DEF Claimed
  <2>2. \A c \in Ids : Claimed(c) => c < o
    BY <1>3 DEF OInv, InOrder
  <2>. QED
    BY <2>1, <2>2 DEF Ids
<1>8. InOrder'
  <2>1. ASSUME NEW u \in Ids, NEW c \in Ids, Claimed(c)', ops'[u].status = "pending" PROVE c < u
    <3>1. u # o /\ ops[u].status = "pending" /\ o <= u
      BY <1>3, <1>4, <2>1
    <3>. QED
      BY <1>7, <2>1, <3>1 DEF Ids
  <2>. QED
    BY <2>1 DEF InOrder
<1>9. \A s : ~Decides(ops[o], s)
  BY <1>3 DEF Decides, Undecided
<1>10. \A s \in Slots : /\ AsleepBut(s, 0)' => Off(s)'
                        /\ AsleepBut(s, o)' => Off(s)'
  <2>1. ASSUME NEW s \in Slots, AsleepBut(s, 0)' PROVE Off(s)'
    <3>1. AsleepBut(s, 0)
      BY <1>4, <1>9, <2>1, AsleepKept
    <3>. QED
      BY <1>2, <3>1 DEF OInv, Off
  <2>2. ASSUME NEW s \in Slots, AsleepBut(s, o)' PROVE Off(s)'
    <3>1. AsleepBut(s, o)
      BY <1>4, <2>2, AsleepKept
    <3>2. AsleepBut(s, 0)
      BY <1>9, <3>1, AsleepWith
    <3>. QED
      BY <1>2, <3>2 DEF OInv, Off
  <2>. QED
    BY <2>1, <2>2
<1>11. Registered'
  <2>1. Asked' = Asked
    BY <1>3, <1>4 DEF Asked
  <2>2. \A u \in Asked : ops'[u].type = ops[u].type /\ ops'[u].key = ops[u].key
                        /\ ops'[u].org = ops[u].org
    BY <1>4 DEF Asked
  <2>. QED
    BY <1>2, <2>1, <2>2 DEF OInv, Registered
<1>12. InTurn(p)'
  <2>1. Row(p)'.status = "running" /\ Row(p)'.key = r.slot
    BY <1>4, <1>5, <1>6 DEF Row
  <2>2. \A c \in Ids : Claimed(c)' => c <= rec'[p].op
    BY <1>5, <1>6, <1>7
  <2>3. \A s \in Slots : AsleepBut(s, rec[p].op)' => Off(s)'
    BY <1>5, <1>6, <1>10
  <2>. QED
    BY <1>5, <1>6, <2>1, <2>2, <2>3 DEF InTurn, Stepping, Slotted
<1>. QED
  BY <1>2, <1>5, <1>8, <1>10, <1>11, <1>12, WorkInTurn

(* The worker's row ends: it was the last to decide, or decides no more.   *)
LEMMA FinishInTurn == ASSUME IInv, OInv, NEW p \in Reconcilers, Finish(p) PROVE OInv'
<1>1. /\ rec[p].at = "finish" /\ Working(p) /\ InTurn(p) /\ UNCHANGED <<reg, disk, tenants>>
  BY DEF Finish, Working, OInv
<1>2. CASE Row(p).status = "running"
  <2>1. PICK o \in Ids : o = rec[p].op
    BY <1>1, WorkerIs
  <2>2. PICK status : status = IF rec[p].code = None THEN "succeeded" ELSE "failed"
    OBVIOUS
  <2>3. /\ ops' = [ops EXCEPT ![o] = [ops[o] EXCEPT !.status = status, !.code = rec[p].code]]
        /\ rec' = [rec EXCEPT ![p] = At("record")] /\ ops[o].status = "running"
    BY <1>2, <2>1, <2>2 DEF Finish, Row, IInv, TypeOK
  <2>4. /\ ops'[o].status = status /\ ops'[o].code = rec[p].code /\ ops'[o].type = ops[o].type
        /\ ops'[o].key = ops[o].key /\ ops'[o].org = ops[o].org
        /\ \A u \in Ids : u # o => ops'[u] = ops[u]
    BY <2>3 DEF IInv, TypeOK, OpRecord
  <2>5. \A c \in Ids : (Claimed(c)' <=> Claimed(c)) /\ (Claimed(c) => c <= o)
    <3>1. \A c \in Ids : Claimed(c)' <=> Claimed(c)
      BY <2>2, <2>3, <2>4 DEF Claimed
    <3>. QED
      BY <1>1, <2>1, <3>1 DEF InTurn
  <2>6. InOrder'
    <3>1. \A u \in Ids : ops'[u].status = "pending" => ops[u].status = "pending"
      BY <2>2, <2>4
    <3>. QED
      BY <2>5, <3>1 DEF OInv, InOrder
  <2>7. Registered'
    BY <1>1, <2>2, <2>3, <2>4 DEF OInv, Registered, Asked, IInv, Rows
  <2>8. ASSUME NEW s \in Slots, AsleepBut(s, 0)' PROVE Off(s)
    <3>1. PICK u \in Ids :
            /\ ops'[u].key = s /\ ops'[u].type = "sleep" /\ ops'[u].status = "succeeded"
            /\ \A other \in Ids : Decides(ops'[other], s) => other <= u
      <4>1. \A u \in Ids : u # 0
        BY DEF Ids
      <4>. QED
        BY <2>8, <4>1 DEF AsleepBut
    <3>2. CASE u = o
      <4>1. rec[p].code = None /\ Type(p) = "sleep" /\ Row(p).key = s
        BY <2>1, <2>2, <2>4, <3>1, <3>2 DEF Type, Row
      <4>2. Off(rec[p].slot) /\ rec[p].slot = s
        BY <1>1, <4>1 DEF InTurn
      <4>. QED
        BY <4>2
    <3>3. CASE u # o
      <4>1. ops[u] = ops'[u] /\ u <= o
        BY <2>4, <2>5, <3>1, <3>3 DEF Claimed
      <4>2. ~Decides(ops'[o], s)
        BY <3>1, <3>3, <4>1 DEF Ids
      <4>3. AsleepBut(s, o)
        BY <2>4, <3>1, <3>3, <4>1 DEF AsleepBut
      <4>4. CASE ops[o].key # s
        <5>1. ~Decides(ops[o], s)
          BY <4>4 DEF Decides
        <5>2. AsleepBut(s, 0)
          BY <4>3, <5>1, AsleepWith
        <5>. QED
          BY <5>2 DEF OInv
      <4>5. CASE ops[o].key = s
        <5>1. rec[p].code \in NothingRan
          BY <2>2, <2>4, <4>2, <4>5 DEF Decides, Undecided
        <5>2. Unmoved(p)
          BY <1>1, <5>1 DEF Unmoved, Early
        <5>. QED
          BY <1>1, <2>1, <4>3, <5>2 DEF InTurn
      <4>. QED
        BY <4>4, <4>5
    <3>. QED
      BY <3>2, <3>3
  <2>9. \A s \in Slots : AsleepBut(s, 0)' => Off(s)'
    BY <1>1, <2>8 DEF Off
  <2>. QED
    BY <1>1, <2>3, <2>6, <2>7, <2>9, LeavesInTurn
<1>3. CASE Row(p).status # "running"
  <2>1. rec' = [rec EXCEPT ![p] = At("off")] /\ ops' = ops
    BY <1>3 DEF Finish, Exit
  <2>2. \A s \in Slots : SameLights(s)
    BY <1>1 DEF SameLights
  <2>. QED
    BY <1>1, <2>1, <2>2, RegisteredSame, RowsStay, LeavesInTurn
<1>. QED
  BY <1>2, <1>3

LEMMA StepOInv == IInv /\ OInv /\ [Next]_vars => OInv'
<1>. SUFFICES ASSUME IInv, OInv, [Next]_vars PROVE OInv'
  OBVIOUS
<1>1. ASSUME NEW g \in Orgs, RequestCreation(g) PROVE OInv'
  <2>1. "create" \in Types /\ Insert("create", g, None)
    BY <1>1, TypesAre DEF RequestCreation
  <2>. QED
    BY <2>1, InsertInTurn
<1>2. ASSUME NEW s \in Slots, NEW t \in Types \ {"create"}, RequestWrite(t, s) PROVE OInv'
  <2>1. reg[s].row = "live" /\ Insert(t, reg[s].org, s)
    BY <1>2 DEF RequestWrite
  <2>. QED
    BY <2>1, InsertInTurn
<1>3. ASSUME NEW o \in Ids, Cancel(o) PROVE OInv'
  BY <1>3, CancelInTurn
<1>4. ASSUME NEW p \in Reconcilers, Start(p) \/ Die(p) PROVE OInv'
  BY <1>4, IdlersInTurn, DieInTurn
<1>5. ASSUME NEW p \in Reconcilers, Work(p) PROVE OInv'
  <2>1. CASE Recover(p)
    BY <2>1, RecoverInTurn
  <2>2. CASE Quarantine(p) \/ Recovered(p) \/ Record(p) \/ (p = "once" /\ Leave)
    BY <2>2, IdlersInTurn
  <2>3. CASE Claim(p) \/ Begin(p) \/ Allocate(p) \/ SetProfile(p) \/ NameProject(p)
    BY <2>3, ClaimInTurn, BeginInTurn, AllocateInTurn, SetProfileInTurn, NameProjectInTurn
  <2>4. CASE NotAdmitted(p) \/ Restore(p) \/ Unmark(p)
    BY <2>4, GivingBackInTurn
  <2>5. CASE Succeed(p) \/ Fail(p) \/ Register(p) \/ Unregister(p) \/ Finish(p)
    BY <2>5, SucceedInTurn, FailInTurn, RegisterInTurn, UnregisterInTurn, FinishInTurn
  <2>6. CASE NotAnswered(p)
    BY <2>6, NotAnsweredInTurn
  <2>. QED
    BY <1>5, <2>1, <2>2, <2>3, <2>4, <2>5, <2>6 DEF Work
<1>6. CASE RecordAgain \/ UNCHANGED vars
  <2>1. UNCHANGED <<ops, reg, disk, rec, tenants>>
    BY <1>6 DEF RecordAgain, vars
  <2>2. \A q \in Reconcilers : Working(q)' => Working(q) /\ rec'[q] = rec[q]
    BY <2>1 DEF Working
  <2>3. \A s \in Slots : SameLights(s) /\ reg'[s].row = reg[s].row /\ tenants'[s] = tenants[s]
    BY <2>1 DEF SameLights
  <2>. QED
    BY <2>1, <2>2, <2>3, RegisteredSame, BystandersKeep DEF RowsMove
<1>. QED
  BY <1>1, <1>2, <1>3, <1>4, <1>5, <1>6 DEF Next

(* Operations are worked on in the order they were asked for, and what     *)
(* each leaves of its slot is what the rows say: in every reachable state. *)
THEOREM RowsInTurn == Spec => []OInv
<1>. QED
  BY InitOInv, StepOInv, Inductive, PTL DEF Spec

(* What members are told is asleep is asleep: no container runs, and       *)
(* nothing would start one, whoever died in the middle of what and however *)
(* many reconcilers were started.                                          *)
THEOREM SleepersAreOff == Spec => []SleepingIsOff
<1>1. IInv /\ OInv => SleepingIsOff
  <2>. SUFFICES ASSUME IInv, OInv PROVE SleepingIsOff
    OBVIOUS
  <2>1. \A s \in Slots : AsleepBut(s, 0) => Off(s)
    BY DEF OInv
  <2>. QED
    BY <2>1, ToldAsleep DEF SleepingIsOff, Off
<1>. QED
  BY <1>1, Inductive, RowsInTurn, PTL

-----------------------------------------------------------------------------
(* The plan.                                                               *)

(* The open creations that count against an organisation's plan.           *)
Coming(g) ==
  {o \in Ids : /\ ops[o].type = "create" /\ ops[o].org = g /\ Open(ops[o])
               /\ ops[o].key = None \/ reg[ops[o].key].row = "absent"}

WithinPlan == \A g \in Orgs : Held(g) <= Limit[g]

LEMMA HeldIs ==
  ASSUME NEW g
  PROVE  /\ Held(g) = Cardinality(LiveOf(g)) + Cardinality(Coming(g))
         /\ IsFiniteSet(LiveOf(g)) /\ IsFiniteSet(Coming(g))
         /\ Cardinality(LiveOf(g)) \in Nat /\ Cardinality(Coming(g)) \in Nat
<1>1. IsFiniteSet(LiveOf(g)) /\ Cardinality(LiveOf(g)) \in Nat
  BY SlotsAssumption, FS_Subset, FS_CardinalityType DEF LiveOf
<1>2. IsFiniteSet(Ids)
  BY FS_Interval DEF Ids
<1>3. IsFiniteSet(Coming(g)) /\ Cardinality(Coming(g)) \in Nat
  BY <1>2, FS_Subset, FS_CardinalityType DEF Coming
<1>. QED
  BY <1>1, <1>3 DEF Held, Coming

(* Nothing new is held.                                                    *)
LEMMA NothingHeld ==
  ASSUME NEW g, LiveOf(g)' \subseteq LiveOf(g), Coming(g)' \subseteq Coming(g)
  PROVE  Held(g)' \in Nat /\ Held(g) \in Nat /\ Held(g)' <= Held(g)
<1>1. /\ Held(g) = Cardinality(LiveOf(g)) + Cardinality(Coming(g))
      /\ IsFiniteSet(LiveOf(g)) /\ IsFiniteSet(Coming(g))
      /\ Cardinality(LiveOf(g)) \in Nat /\ Cardinality(Coming(g)) \in Nat
  BY HeldIs
<1>2. Held(g)' = Cardinality(LiveOf(g)') + Cardinality(Coming(g)')
  BY DEF Held, Coming
<1>3. /\ Cardinality(LiveOf(g)') <= Cardinality(LiveOf(g)) /\ Cardinality(LiveOf(g)') \in Nat
      /\ Cardinality(Coming(g)') <= Cardinality(Coming(g)) /\ Cardinality(Coming(g)') \in Nat
  BY <1>1, FS_Subset, FS_CardinalityType
<1>. QED
  BY <1>1, <1>2, <1>3

(* A creation has no key until its step names one, the third of its        *)
(* program: until then it counts against the plan whatever the registry    *)
(* holds.                                                                  *)
Unnamed ==
  /\ \A o \in Ids : ops[o].status = "pending" /\ ops[o].type = "create" => ops[o].key = None
  /\ \A p \in Reconcilers :
       Stepping(p) /\ Type(p) = "create" /\ rec[p].step <= 3 => Row(p).key = None

PInv == WithinPlan /\ Unnamed

(* Whoever is in a program goes on by a step at most, or leaves it.        *)
Forward(q) ==
  /\ Stepping(q) /\ rec'[q].op = rec[q].op
  /\ rec'[q].step = rec[q].step \/ rec'[q].step = rec[q].step + 1

Onward == \A q \in Reconcilers : Stepping(q)' => Forward(q)

LEMMA UnnamedKept ==
  ASSUME IInv, Unnamed, Onward,
         \A o \in Ids : /\ ops'[o].type = ops[o].type /\ ops'[o].key = ops[o].key
                        /\ ops'[o].status = "pending" => ops[o].status = "pending"
  PROVE  Unnamed'
<1>1. ASSUME NEW q \in Reconcilers, Stepping(q)', Type(q)' = "create", rec'[q].step <= 3
      PROVE  Row(q)'.key = None
  <2>1. Stepping(q) /\ rec'[q].op = rec[q].op /\ Forward(q)
    BY <1>1 DEF Onward, Forward
  <2>2. Working(q)
    BY <2>1 DEF Stepping, Working
  <2>3. rec[q].op \in Ids /\ rec[q].step \in 1..11
    BY <2>2, WorkerIs
  <2>4. rec[q].step <= 3
    BY <1>1, <2>1, <2>3 DEF Forward
  <2>5. Type(q) = "create"
    BY <1>1, <2>1, <2>3 DEF Type
  <2>6. Row(q).key = None
    BY <2>1, <2>4, <2>5 DEF Unnamed
  <2>. QED
    BY <2>1, <2>3, <2>6 DEF Row
<1>. QED
  BY <1>1 DEF Unnamed

(* No more is held than before: no project appears in the registry, and no *)
(* creation is asked for.                                                  *)
LEMMA WithinKept ==
  ASSUME IInv, WithinPlan,
         \A s \in Slots : /\ reg'[s].row = "live" => reg[s] = reg'[s]
                          /\ reg'[s].row = "absent" => reg[s].row = "absent",
         \A o \in Ids : /\ ops'[o].type = ops[o].type /\ ops'[o].org = ops[o].org
                        /\ ops'[o].key = ops[o].key \/ ops[o].key = None
                        /\ Open(ops'[o]) => Open(ops[o])
  PROVE  WithinPlan'
<1>1. ASSUME NEW g \in Orgs PROVE Held(g)' <= Limit[g]
  <2>1. LiveOf(g)' \subseteq LiveOf(g)
    BY DEF LiveOf
  <2>2. ASSUME NEW o \in Coming(g)' PROVE o \in Coming(g)
    <3>1. o \in Ids /\ ops[o].key \in Slots \cup {None}
      BY DEF Coming, OpRecord, IInv, TypeOK
    <3>. QED
      BY <2>2, <3>1 DEF Coming
  <2>3. Held(g)' \in Nat /\ Held(g) \in Nat /\ Held(g)' <= Held(g)
    BY <2>1, <2>2, NothingHeld
  <2>4. Held(g) <= Limit[g] /\ Limit[g] \in Nat
    BY LimitAssumption DEF WithinPlan
  <2>. QED
    BY <2>3, <2>4
<1>. QED
  BY <1>1 DEF WithinPlan

(* The worker's step, but for the ones that write a row or the registry.   *)
LEMMA WorkerOnward ==
  ASSUME IInv, NEW p \in Reconcilers,
         \/ Begin(p) \/ Allocate(p) \/ SetProfile(p) \/ NotAdmitted(p) \/ Restore(p) \/ Unmark(p)
         \/ Succeed(p) \/ Fail(p) \/ Register(p) \/ Unregister(p) \/ NotAnswered(p)
  PROVE  Onward
<1>1. Working(p) /\ rec[p] \in RecRecord /\ rec[p].step \in 1..11 /\ rec \in [Reconcilers -> RecRecord]
  <2>1. Working(p)
    BY DEF Begin, Allocate, SetProfile, NotAdmitted, Restore, Unmark, Succeed, Fail, Register,
           Unregister, NotAnswered, Working
  <2>. QED
    BY <2>1, WorkerIs DEF IInv, TypeOK
<1>2. ASSUME NEW r, rec' = [rec EXCEPT ![p] = r],
             r.at \in {"begin", "act"} =>
               Stepping(p) /\ r.op = rec[p].op
               /\ (r.step = rec[p].step \/ r.step = rec[p].step + 1)
      PROVE  Onward
  <2>1. rec'[p] = r /\ \A q \in Reconcilers : q # p => rec'[q] = rec[q]
    BY <1>1, <1>2
  <2>2. ASSUME NEW q \in Reconcilers, Stepping(q)'
        PROVE  Forward(q)
    <3>1. CASE q = p
      BY <1>1, <1>2, <2>1, <2>2, <3>1 DEF Stepping, Forward
    <3>2. CASE q # p
      BY <2>1, <2>2, <3>2 DEF Stepping, Forward
    <3>. QED
      BY <3>1, <3>2
  <2>. QED
    BY <2>2 DEF Onward
<1>3. CASE rec' = [rec EXCEPT ![p] = At("off")]
  BY <1>2, <1>3 DEF At
<1>4. CASE Begin(p) /\ rec' = [rec EXCEPT ![p].at = "act"]
  <2>1. rec' = [rec EXCEPT ![p] = [rec[p] EXCEPT !.at = "act"]] /\ Stepping(p)
    BY <1>1, <1>4 DEF Begin, Stepping
  <2>2. [rec[p] EXCEPT !.at = "act"].op = rec[p].op
        /\ [rec[p] EXCEPT !.at = "act"].step = rec[p].step
    BY <1>1 DEF RecRecord
  <2>. QED
    BY <1>2, <2>1, <2>2
<1>5. CASE \E at \in {"unmark", "finish"} : rec' = [rec EXCEPT ![p].at = at]
  <2>1. PICK at \in {"unmark", "finish"} : rec' = [rec EXCEPT ![p] = [rec[p] EXCEPT !.at = at]]
    BY <1>1, <1>5
  <2>2. [rec[p] EXCEPT !.at = at].at = at
    BY <1>1 DEF RecRecord
  <2>. QED
    BY <1>2, <2>1, <2>2
<1>6. CASE \E code \in Codes : rec' = [rec EXCEPT ![p].at = "restore", ![p].code = code]
  <2>1. PICK code \in Codes :
          rec' = [rec EXCEPT ![p] = [rec[p] EXCEPT !.at = "restore", !.code = code]]
    BY <1>1, <1>6
  <2>2. [rec[p] EXCEPT !.at = "restore", !.code = code].at = "restore"
    BY <1>1 DEF RecRecord
  <2>. QED
    BY <1>2, <2>1, <2>2
<1>7. CASE rec[p].at = "act" /\ rec' = [rec EXCEPT ![p] = Passed(@)]
  <2>1. rec' = [rec EXCEPT ![p] = Passed(rec[p])] /\ Stepping(p)
    BY <1>1, <1>7 DEF Stepping
  <2>. QED
    BY <1>1, <1>2, <2>1, WorkerPassed
<1>8. CASE rec[p].at = "act" /\ \E s \in Slots : rec' = [rec EXCEPT ![p] = [Passed(@) EXCEPT !.slot = s]]
  <2>. DEFINE x == Passed(rec[p])
  <2>1. PICK s \in Slots : rec' = [rec EXCEPT ![p] = [x EXCEPT !.slot = s]]
    BY <1>1, <1>8
  <2>2. x \in RecRecord /\ x.op = rec[p].op
        /\ (x.at = "finish" \/ (x.at \in {"begin", "act"} /\ x.step = rec[p].step + 1))
    BY <1>1, WorkerPassed
  <2>. HIDE DEF x
  <2>3. /\ [x EXCEPT !.slot = s].op = x.op /\ [x EXCEPT !.slot = s].at = x.at
        /\ [x EXCEPT !.slot = s].step = x.step
    BY <2>2 DEF RecRecord
  <2>4. Stepping(p)
    BY <1>8 DEF Stepping
  <2>. QED
    BY <1>2, <2>1, <2>2, <2>3, <2>4
<1>9. CASE \E code \in Codes : rec' = [rec EXCEPT ![p] = Refused(@, code)]
  <2>1. PICK code \in Codes : rec' = [rec EXCEPT ![p] = Refused(rec[p], code)]
    BY <1>1, <1>9
  <2>2. Refused(rec[p], code).at = "finish"
    BY <1>1, RefusedIs
  <2>. QED
    BY <1>2, <2>1, <2>2
<1>10. Begin(p) \/ Restore(p) \/ Unmark(p)
        => \/ rec' = [rec EXCEPT ![p] = At("off")]
           \/ (Begin(p) /\ rec' = [rec EXCEPT ![p].at = "act"])
           \/ \E at \in {"unmark", "finish"} : rec' = [rec EXCEPT ![p].at = at]
  BY DEF Begin, Exit, Restore, Unmark
<1>11. Allocate(p)
        => \/ (rec[p].at = "act" /\ \E s \in Slots : rec' = [rec EXCEPT ![p] = [Passed(@) EXCEPT !.slot = s]])
           \/ \E code \in Codes : rec' = [rec EXCEPT ![p] = Refused(@, code)]
  BY DEF Allocate, Codes, Ready
<1>12. SetProfile(p) \/ NotAdmitted(p)
        => \/ (rec[p].at = "act" /\ rec' = [rec EXCEPT ![p] = Passed(@)])
           \/ \E code \in Codes : rec' = [rec EXCEPT ![p].at = "restore", ![p].code = code]
  BY DEF SetProfile, NotAdmitted, Codes
<1>13. Succeed(p) \/ Fail(p) \/ Register(p) \/ Unregister(p) \/ NotAnswered(p)
        => \/ (rec[p].at = "act" /\ rec' = [rec EXCEPT ![p] = Passed(@)])
           \/ \E code \in Codes : rec' = [rec EXCEPT ![p] = Refused(@, code)]
  BY DEF Succeed, Fail, CodesOf, Register, Unregister, NotAnswered, Codes
<1>. QED
  BY <1>3, <1>4, <1>5, <1>6, <1>7, <1>8, <1>9, <1>10, <1>11, <1>12, <1>13

(* What the model starts from is within the plans.                         *)
FoundedWithinPlan ==
  \A g \in Orgs : Cardinality({s \in DOMAIN Founded : Founded[s] = g}) <= Limit[g]

LEMMA InitPInv == ASSUME FoundedWithinPlan, Init PROVE PInv
<1>1. \A o \in Ids : ops[o].status = "none" /\ ops[o].type = "none"
  BY DEF Init, NoOp
<1>2. \A p \in Reconcilers : ~Stepping(p)
  BY AtType DEF Init, Stepping, Places
<1>3. Unnamed
  BY <1>1, <1>2 DEF Unnamed
<1>4. ASSUME NEW g \in Orgs PROVE Held(g) <= Limit[g]
  <2>1. Coming(g) = {}
    BY <1>1 DEF Coming
  <2>2. LiveOf(g) = {s \in DOMAIN Founded : Founded[s] = g}
    BY FoundedAssumption DEF Init, LiveOf
  <2>3. Held(g) = Cardinality(LiveOf(g)) + 0 /\ Cardinality(LiveOf(g)) \in Nat
    BY <2>1, HeldIs, FS_EmptySet
  <2>4. Cardinality(LiveOf(g)) <= Limit[g]
    BY <2>2 DEF FoundedWithinPlan
  <2>. QED
    BY <2>3, <2>4
<1>. QED
  BY <1>3, <1>4 DEF PInv, WithinPlan

(* A row asked for.                                                        *)
LEMMA InsertIs ==
  ASSUME IInv, NEW t, NEW g, NEW s, Insert(t, g, s)
  PROVE  \E w \in Ids :
           /\ ops[w].status = "none" /\ ops'[w].status = "pending" /\ ops'[w].type = t
           /\ ops'[w].org = g /\ ops'[w].key = s
           /\ \A o \in Ids : o # w => ops'[o] = ops[o]
<1>1. PICK n \in 0..MaxOps : Asked = 1..n
  BY DEF IInv, Rows
<1>2. Cardinality(Asked) = n
  BY <1>1, FS_Interval
<1>3. n + 1 \in Ids /\ n + 1 \notin Asked
  <2>1. n < MaxOps
    BY <1>2 DEF Insert
  <2>2. n + 1 \in 1..MaxOps /\ n + 1 \notin 1..n
    BY <2>1
  <2>. QED
    BY <1>1, <2>2 DEF Ids
<1>. DEFINE new == [NoOp EXCEPT !.type = t, !.org = g, !.key = s, !.status = "pending"]
<1>4. ops' = [ops EXCEPT ![n + 1] = new] /\ ops[n + 1].status = "none"
  BY <1>2, <1>3 DEF Insert, Asked
<1>5. new.type = t /\ new.org = g /\ new.key = s /\ new.status = "pending"
  BY DEF NoOp
<1>. HIDE DEF new
<1>6. ops'[n + 1] = new /\ \A o \in Ids : o # n + 1 => ops'[o] = ops[o]
  BY <1>3, <1>4 DEF IInv, TypeOK
<1>. QED
  BY <1>3, <1>4, <1>5, <1>6

LEMMA InsertUnnamed ==
  ASSUME IInv, Unnamed, NEW t, NEW g, NEW s, Insert(t, g, s), t = "create" => s = None
  PROVE  Unnamed'
<1>1. PICK w \in Ids :
        /\ ops[w].status = "none" /\ ops'[w].type = t /\ ops'[w].key = s
        /\ \A o \in Ids : o # w => ops'[o] = ops[o]
  BY InsertIs
<1>2. rec' = rec
  BY DEF Insert
<1>3. ASSUME NEW p \in Reconcilers, Stepping(p)
      PROVE  ops'[rec[p].op] = ops[rec[p].op]
  <2>1. Working(p)
    BY <1>3 DEF Stepping, Working
  <2>2. rec[p].op \in Ids /\ ops[rec[p].op].status # "none"
    BY <2>1, WorkerIs DEF HasRow
  <2>. QED
    BY <1>1, <2>2
<1>4. \A p \in Reconcilers :
        Stepping(p)' /\ Type(p)' = "create" /\ rec'[p].step <= 3 => Row(p)'.key = None
  BY <1>2, <1>3 DEF Unnamed, Stepping, Type, Row
<1>5. \A o \in Ids : ops'[o].status = "pending" /\ ops'[o].type = "create" => ops'[o].key = None
  BY <1>1 DEF Unnamed
<1>. QED
  BY <1>4, <1>5 DEF Unnamed

(* A creation asked for finds room in its plan.                            *)
LEMMA RequestCreationWithin ==
  ASSUME IInv, PInv, NEW g \in Orgs, RequestCreation(g)
  PROVE  PInv'
<1>1. Insert("create", g, None) /\ Held(g) < Limit[g] /\ reg' = reg
  BY DEF RequestCreation, Insert
<1>2. PICK w \in Ids :
        /\ ops[w].status = "none" /\ ops'[w].status = "pending" /\ ops'[w].type = "create"
        /\ ops'[w].org = g
        /\ \A o \in Ids : o # w => ops'[o] = ops[o]
  BY <1>1, InsertIs
<1>3. \A h : LiveOf(h)' = LiveOf(h) /\ Coming(h)' \subseteq Coming(h) \cup (IF h = g THEN {w} ELSE {})
  BY <1>1, <1>2 DEF LiveOf, Coming
<1>4. ASSUME NEW h \in Orgs PROVE Held(h)' <= Limit[h]
  <2>1. Limit[h] \in Nat /\ Limit[g] \in Nat /\ Held(h) <= Limit[h]
    BY LimitAssumption DEF PInv, WithinPlan
  <2>2. CASE h # g
    <3>1. LiveOf(h)' \subseteq LiveOf(h) /\ Coming(h)' \subseteq Coming(h)
      BY <1>3, <2>2
    <3>. QED
      BY <2>1, <3>1, NothingHeld
  <2>3. CASE h = g
    <3>1. /\ Held(g) = Cardinality(LiveOf(g)) + Cardinality(Coming(g))
          /\ IsFiniteSet(Coming(g)) /\ Cardinality(LiveOf(g)) \in Nat
          /\ Cardinality(Coming(g)) \in Nat
      BY HeldIs
    <3>2. /\ IsFiniteSet(Coming(g) \cup {w})
          /\ Cardinality(Coming(g) \cup {w}) \in Nat
          /\ Cardinality(Coming(g) \cup {w}) <= Cardinality(Coming(g)) + 1
      <4>1. PICK C : C = Coming(g)
        OBVIOUS
      <4>2. /\ IsFiniteSet(C) /\ Cardinality(C) \in Nat /\ IsFiniteSet(C \cup {w})
            /\ Cardinality(C \cup {w}) = IF w \in C THEN Cardinality(C) ELSE Cardinality(C) + 1
        BY <3>1, <4>1, FS_AddElement
      <4>. QED
        BY <4>1, <4>2
    <3>3. /\ Cardinality(Coming(g)') <= Cardinality(Coming(g) \cup {w})
          /\ Cardinality(Coming(g)') \in Nat
      <4>1. Coming(g)' \subseteq Coming(g) \cup {w}
        BY <1>3
      <4>. QED
        BY <3>2, <4>1, FS_Subset, FS_CardinalityType
    <3>4. Held(g)' = Cardinality(LiveOf(g)) + Cardinality(Coming(g)')
      BY <1>3 DEF Held, Coming
    <3>. QED
      BY <1>1, <2>1, <2>3, <3>1, <3>2, <3>3, <3>4
  <2>. QED
    BY <2>2, <2>3
<1>5. Unnamed'
  BY <1>1, InsertUnnamed DEF PInv
<1>. QED
  BY <1>4, <1>5 DEF PInv, WithinPlan

LEMMA RequestWriteWithin ==
  ASSUME IInv, PInv, NEW s \in Slots, NEW t \in Types \ {"create"}, RequestWrite(t, s)
  PROVE  PInv'
<1>1. Insert(t, reg[s].org, s) /\ reg' = reg
  BY DEF RequestWrite, Insert
<1>2. PICK w \in Ids :
        /\ ops'[w].type = t /\ \A o \in Ids : o # w => ops'[o] = ops[o]
  BY <1>1, InsertIs
<1>3. \A h : LiveOf(h)' \subseteq LiveOf(h) /\ Coming(h)' \subseteq Coming(h)
  BY <1>1, <1>2 DEF LiveOf, Coming
<1>4. ASSUME NEW h \in Orgs PROVE Held(h)' <= Limit[h]
  <2>1. Limit[h] \in Nat /\ Held(h) <= Limit[h]
    BY LimitAssumption DEF PInv, WithinPlan
  <2>2. Held(h)' \in Nat /\ Held(h) \in Nat /\ Held(h)' <= Held(h)
    BY <1>3, NothingHeld
  <2>. QED
    BY <2>1, <2>2
<1>5. Unnamed'
  BY <1>1, InsertUnnamed DEF PInv
<1>. QED
  BY <1>4, <1>5 DEF PInv, WithinPlan

(* The worker's steps that leave the rows as they were, and add nothing to *)
(* the registry.                                                           *)
LEMMA WorkerWithin ==
  ASSUME IInv, PInv, NEW p \in Reconcilers,
         \/ Begin(p) \/ Allocate(p) \/ SetProfile(p) \/ NotAdmitted(p) \/ Restore(p) \/ Unmark(p)
         \/ Succeed(p) \/ Fail(p) \/ Unregister(p) \/ NotAnswered(p)
  PROVE  PInv'
<1>1. ops' = ops /\ Onward
  <2>1. Onward
    BY WorkerOnward
  <2>. QED
    BY <2>1 DEF Begin, Allocate, SetProfile, NotAdmitted, Restore, Unmark, Succeed, Fail, Unregister,
                NotAnswered
<1>2. \A s \in Slots : /\ reg'[s].row = "live" => reg[s] = reg'[s]
                       /\ reg'[s].row = "absent" => reg[s].row = "absent"
  <2>1. CASE Unregister(p)
    <3>1. PICK slot : reg' = [reg EXCEPT ![slot] = [reg[slot] EXCEPT !.row =
                                IF reg[slot].row = "live" THEN "deleted" ELSE reg[slot].row]]
      <4>. DEFINE slot == rec[p].slot
      <4>1. CASE slot \in Slots
        BY <2>1, <4>1 DEF Unregister, IInv, TypeOK
      <4>2. CASE slot \notin Slots
        BY <2>1, <4>2 DEF Unregister, IInv, TypeOK
      <4>. QED
        BY <4>1, <4>2
    <3>. QED
      BY <3>1 DEF IInv, TypeOK
  <2>2. CASE ~Unregister(p)
    BY <2>2 DEF Begin, Allocate, SetProfile, NotAdmitted, Restore, Unmark, Succeed, Fail, NotAnswered
  <2>. QED
    BY <2>1, <2>2
<1>3. WithinPlan'
  BY <1>1, <1>2, WithinKept DEF PInv
<1>4. Unnamed'
  BY <1>1, UnnamedKept DEF PInv
<1>. QED
  BY <1>3, <1>4 DEF PInv

(* A reconciler that begins no program leaves the plan as it was.          *)
LEMMA AsideWithin ==
  ASSUME IInv, PInv, reg' = reg,
         \A q \in Reconcilers : Stepping(q)' => Stepping(q) /\ rec'[q] = rec[q],
         \A o \in Ids : /\ ops'[o].type = ops[o].type /\ ops'[o].key = ops[o].key
                        /\ ops'[o].org = ops[o].org
                        /\ Open(ops'[o]) => Open(ops[o])
                        /\ ops'[o].status = "pending" => ops[o].status = "pending"
  PROVE  PInv'
<1>1. Onward
  BY DEF Onward, Forward
<1>2. WithinPlan'
  BY WithinKept DEF PInv
<1>3. Unnamed'
  BY <1>1, UnnamedKept DEF PInv
<1>. QED
  BY <1>2, <1>3 DEF PInv

LEMMA CancelWithin == ASSUME IInv, PInv, NEW o \in Ids, Cancel(o) PROVE PInv'
<1>1. /\ ops' = [ops EXCEPT ![o] = [ops[o] EXCEPT !.status = "cancelled"]]
      /\ rec' = rec /\ reg' = reg
  BY DEF Cancel, IInv, TypeOK
<1>2. /\ ops'[o].status = "cancelled" /\ ops'[o].type = ops[o].type /\ ops'[o].key = ops[o].key
      /\ ops'[o].org = ops[o].org /\ \A u \in Ids : u # o => ops'[u] = ops[u]
  BY <1>1 DEF IInv, TypeOK, OpRecord
<1>3. \A q \in Reconcilers : Stepping(q)' => Stepping(q) /\ rec'[q] = rec[q]
  BY <1>1 DEF Stepping
<1>. QED
  BY <1>1, <1>2, <1>3, AsideWithin DEF Open

LEMMA StartWithin == ASSUME IInv, PInv, NEW p \in Reconcilers, Start(p) PROVE PInv'
<1>. DEFINE r == [At("recover") EXCEPT !.todo = Interrupted]
<1>1. ops' = ops /\ reg' = reg /\ rec' = [rec EXCEPT ![p] = r]
  BY DEF Start
<1>2. r.at = "recover"
  BY DEF At
<1>. HIDE DEF r
<1>3. \A q \in Reconcilers : Stepping(q)' => Stepping(q) /\ rec'[q] = rec[q]
  BY <1>1, <1>2 DEF IInv, TypeOK, Stepping
<1>. QED
  BY <1>1, <1>3, AsideWithin

LEMMA RecoverWithin == ASSUME IInv, PInv, NEW p \in Reconcilers, Recover(p) PROVE PInv'
<1>1. PICK o \in Ids :
        /\ ops[o].status = "running" =>
             /\ ops' = [ops EXCEPT ![o] = Repaired(@)]
             /\ rec' = [rec EXCEPT ![p].op = o, ![p].todo = @ \ {o},
                                   ![p].at = IF ops[o].type = "create" THEN "quarantine" ELSE @]
        /\ ops[o].status # "running" => rec' = [rec EXCEPT ![p] = At("off")] /\ ops' = ops
  BY DEF Recover
<1>2. rec[p].at = "recover" /\ rec[p] \in RecRecord /\ reg' = reg
  BY DEF Recover, IInv, TypeOK
<1>3. CASE ops[o].status = "running"
  <2>. DEFINE at == IF ops[o].type = "create" THEN "quarantine" ELSE rec[p].at
              r == [rec[p] EXCEPT !.op = o, !.todo = @ \ {o}, !.at = at]
  <2>1. ops' = [ops EXCEPT ![o] = Repaired(ops[o])] /\ rec' = [rec EXCEPT ![p] = r]
    BY <1>1, <1>3 DEF IInv, TypeOK
  <2>2. r.at \in {"quarantine", "recover"}
    BY <1>2 DEF RecRecord
  <2>. HIDE DEF r
  <2>3. /\ ops'[o].status = "failed" /\ ops'[o].type = ops[o].type /\ ops'[o].key = ops[o].key
        /\ ops'[o].org = ops[o].org /\ \A u \in Ids : u # o => ops'[u] = ops[u]
    BY <2>1 DEF Repaired, IInv, TypeOK, OpRecord
  <2>4. \A q \in Reconcilers : Stepping(q)' => Stepping(q) /\ rec'[q] = rec[q]
    BY <2>1, <2>2 DEF IInv, TypeOK, Stepping
  <2>. QED
    BY <1>2, <2>3, <2>4, AsideWithin DEF Open
<1>4. CASE ops[o].status # "running"
  <2>1. \A q \in Reconcilers : Stepping(q)' => Stepping(q) /\ rec'[q] = rec[q]
    BY <1>1, <1>4 DEF IInv, TypeOK, Stepping, At
  <2>. QED
    BY <1>1, <1>2, <1>4, <2>1, AsideWithin
<1>. QED
  BY <1>3, <1>4

LEMMA IdlersWithin ==
  ASSUME IInv, PInv, NEW p \in Reconcilers,
         \/ Quarantine(p) \/ Recovered(p) \/ Record(p) \/ (p = "once" /\ Leave) \/ Die(p)
  PROVE  PInv'
<1>1. ops' = ops /\ reg' = reg
  BY DEF Quarantine, Recovered, Record, Leave, Die
<1>2. PICK r : rec' = [rec EXCEPT ![p] = r] /\ r.at \notin {"begin", "act"}
  <2>1. CASE Quarantine(p)
    <3>1. rec' = [rec EXCEPT ![p] = [rec[p] EXCEPT !.at = "recover"]]
      BY <2>1 DEF Quarantine, IInv, TypeOK
    <3>2. [rec[p] EXCEPT !.at = "recover"].at = "recover"
      BY DEF IInv, TypeOK, RecRecord
    <3>. QED
      BY <3>1, <3>2
  <2>2. CASE Recovered(p) \/ Record(p) \/ (p = "once" /\ Leave) \/ Die(p)
    <3>1. \E place \in {"off", "idle", "record"} : rec' = [rec EXCEPT ![p] = At(place)]
      BY <2>2 DEF Recovered, Record, Leave, Die, Exit
    <3>2. PICK place \in {"off", "idle", "record"} : rec' = [rec EXCEPT ![p] = At(place)]
      BY <3>1
    <3>3. At(place).at = place
      BY DEF At
    <3>. QED
      BY <3>2, <3>3
  <2>. QED
    BY <2>1, <2>2
<1>3. \A q \in Reconcilers : Stepping(q)' => Stepping(q) /\ rec'[q] = rec[q]
  BY <1>2 DEF IInv, TypeOK, Stepping
<1>. QED
  BY <1>1, <1>3, AsideWithin

(* A claimed row starts its program with the key it was asked with.        *)
LEMMA ClaimWithin == ASSUME IInv, PInv, NEW p \in Reconcilers, Claim(p) PROVE PInv'
<1>1. PICK o \in Ids :
        LET mine == [At("begin") EXCEPT !.op = o, !.step = 1, !.slot = ops[o].key] IN
        /\ ops[o].status = "pending"
        /\ ops' = [ops EXCEPT ![o].status = "running", ![o].attempt = @ + 1, ![o].by = p]
        /\ \/ rec' = [rec EXCEPT ![p] = mine]
           \/ \E code \in {"could_not_determine", "invalid_request"} :
                rec' = [rec EXCEPT ![p] = [mine EXCEPT !.at = "finish", !.code = code]]
  BY DEF Claim, First, Pending
<1>2. reg' = reg /\ \A q \in Reconcilers : ~Working(q)
  BY WorkerIs DEF Claim
<1>3. /\ ops'[o].status = "running" /\ ops'[o].type = ops[o].type /\ ops'[o].key = ops[o].key
      /\ ops'[o].org = ops[o].org /\ \A u \in Ids : u # o => ops'[u] = ops[u]
  <2>. DEFINE new == [ops[o] EXCEPT !.status = "running", !.attempt = @ + 1, !.by = p]
  <2>1. ops' = [ops EXCEPT ![o] = new] /\ ops[o] \in OpRecord
    BY <1>1 DEF IInv, TypeOK
  <2>2. /\ new.status = "running" /\ new.type = ops[o].type /\ new.key = ops[o].key
        /\ new.org = ops[o].org
    BY <2>1 DEF OpRecord
  <2>. HIDE DEF new
  <2>. QED
    BY <2>1, <2>2 DEF IInv, TypeOK
<1>4. PICK r : rec' = [rec EXCEPT ![p] = r] /\ r.op = o
  <2>. DEFINE mine == [At("begin") EXCEPT !.op = o, !.step = 1, !.slot = ops[o].key]
  <2>1. mine.op = o /\ \A code : [mine EXCEPT !.at = "finish", !.code = code].op = o
    BY DEF At
  <2>. QED
    BY <1>1, <2>1
<1>5. rec'[p] = r /\ \A q \in Reconcilers : q # p => rec'[q] = rec[q]
  BY <1>4 DEF IInv, TypeOK
<1>6. WithinPlan'
  BY <1>1, <1>2, <1>3, WithinKept DEF PInv, Open
<1>7. \A u \in Ids : ops'[u].status = "pending" /\ ops'[u].type = "create" => ops'[u].key = None
  BY <1>3 DEF PInv, Unnamed
<1>8. ASSUME NEW q \in Reconcilers, Stepping(q)', Type(q)' = "create"
      PROVE  Row(q)'.key = None
  <2>1. q = p
    BY <1>2, <1>5, <1>8 DEF Stepping, Working
  <2>2. ops[o].type = "create"
    BY <1>3, <1>4, <1>5, <1>8, <2>1 DEF Type
  <2>3. ops[o].key = None
    BY <1>1, <2>2 DEF PInv, Unnamed
  <2>. QED
    BY <1>3, <1>4, <1>5, <2>1, <2>3 DEF Row
<1>. QED
  BY <1>6, <1>7, <1>8 DEF PInv, Unnamed

(* A creation names its project: it counted for having no key, and counts  *)
(* on while its slot is not in the registry.                               *)
LEMMA NameProjectWithin == ASSUME IInv, OInv, PInv, NEW p \in Reconcilers, NameProject(p) PROVE PInv'
<1>1. /\ rec[p].at = "act" /\ StepOf(p) = "key" /\ reg' = reg /\ Working(p) /\ Stepping(p)
      /\ StepOf(p) = Steps[Type(p)][rec[p].step]
      /\ rec[p].step \in 1..Len(Steps[Type(p)]) /\ Type(p) \in Types
      /\ rec[p] \in RecRecord /\ rec[p].op \in Ids
  <2>1. rec[p].at = "act" /\ StepOf(p) = "key" /\ reg' = reg
    BY DEF NameProject
  <2>. QED
    BY <2>1, ActIs, WorkerIs
<1>2. Type(p) = "create" /\ rec[p].step = 3
  BY <1>1, StepIndex
<1>3. Row(p).key = None
  BY <1>1, <1>2 DEF PInv, Unnamed
<1>4. CASE Row(p).status = "running"
  <2>1. PICK o \in Ids, r \in RecRecord : o = rec[p].op /\ r = Passed(rec[p])
    BY <1>1, WorkerPassed
  <2>2. /\ ops' = [ops EXCEPT ![o] = [ops[o] EXCEPT !.key = rec[p].slot]]
        /\ rec' = [rec EXCEPT ![p] = r]
    BY <1>4, <2>1 DEF NameProject, IInv, TypeOK
  <2>3. /\ ops'[o].type = ops[o].type /\ ops'[o].org = ops[o].org
        /\ ops'[o].status = ops[o].status
        /\ \A u \in Ids : u # o => ops'[u] = ops[u]
    BY <2>2 DEF IInv, TypeOK, OpRecord
  <2>4. ops[o].key = None /\ ops[o].status = "running"
    BY <1>3, <1>4, <2>1 DEF Row
  <2>5. WithinPlan'
    <3>1. \A u \in Ids : /\ ops'[u].type = ops[u].type /\ ops'[u].org = ops[u].org
                         /\ ops'[u].key = ops[u].key \/ ops[u].key = None
                         /\ Open(ops'[u]) => Open(ops[u])
      BY <2>3, <2>4 DEF Open
    <3>. QED
      BY <1>1, <3>1, WithinKept DEF PInv
  <2>6. r.at \in {"begin", "act"} => r.step = 4
    BY <1>1, <1>2, <2>1, WorkerPassed
  <2>7. ~(Stepping(p)' /\ rec'[p].step <= 3)
    <3>1. rec'[p] = r
      BY <2>2 DEF IInv, TypeOK
    <3>. QED
      BY <2>6, <3>1 DEF Stepping
  <2>8. \A q \in Reconcilers : q # p => ~Stepping(q)'
    <3>1. \A q \in Reconcilers : q # p => ~Working(q) /\ rec'[q] = rec[q]
      BY <1>1, <2>2, Alone DEF IInv, TypeOK
    <3>. QED
      BY <3>1 DEF Stepping, Working
  <2>9. \A u \in Ids : ops'[u].status = "pending" /\ ops'[u].type = "create" => ops'[u].key = None
    BY <2>3, <2>4 DEF PInv, Unnamed
  <2>10. Unnamed'
    BY <2>7, <2>8, <2>9 DEF Unnamed
  <2>. QED
    BY <2>5, <2>10 DEF PInv
<1>5. CASE Row(p).status # "running"
  <2>1. rec' = [rec EXCEPT ![p] = At("off")] /\ ops' = ops
    BY <1>5 DEF NameProject, Exit
  <2>2. \A q \in Reconcilers : Stepping(q)' => Stepping(q) /\ rec'[q] = rec[q]
    BY <2>1 DEF IInv, TypeOK, Stepping, At
  <2>. QED
    BY <1>1, <2>1, <2>2, AsideWithin
<1>. QED
  BY <1>4, <1>5

LEMMA FinishWithin == ASSUME IInv, PInv, NEW p \in Reconcilers, Finish(p) PROVE PInv'
<1>1. Working(p) /\ rec[p].op \in Ids /\ reg' = reg
  <2>1. Working(p)
    BY DEF Finish, Working
  <2>. QED
    BY <2>1, WorkerIs DEF Finish
<1>2. PICK place \in {"off", "record"} : rec' = [rec EXCEPT ![p] = At(place)]
  BY DEF Finish, Exit
<1>3. \A q \in Reconcilers : Stepping(q)' => Stepping(q) /\ rec'[q] = rec[q]
  BY <1>2 DEF IInv, TypeOK, Stepping, At
<1>4. CASE Row(p).status = "running"
  <2>1. PICK o \in Ids, status \in {"succeeded", "failed"} :
          o = rec[p].op /\ status = IF rec[p].code = None THEN "succeeded" ELSE "failed"
    BY <1>1
  <2>2. ops' = [ops EXCEPT ![o] = [ops[o] EXCEPT !.status = status, !.code = rec[p].code]]
    BY <1>4, <2>1 DEF Finish, IInv, TypeOK
  <2>3. /\ ops'[o].status = status /\ ops'[o].type = ops[o].type /\ ops'[o].key = ops[o].key
        /\ ops'[o].org = ops[o].org /\ \A u \in Ids : u # o => ops'[u] = ops[u]
    BY <2>2 DEF IInv, TypeOK, OpRecord
  <2>. QED
    BY <1>1, <1>3, <2>3, AsideWithin DEF Open
<1>5. CASE Row(p).status # "running"
  <2>1. ops' = ops
    BY <1>5 DEF Finish
  <2>. QED
    BY <1>1, <1>3, <2>1, AsideWithin
<1>. QED
  BY <1>4, <1>5

(* A creation registers: what counted as coming counts as a project.       *)
LEMMA RegisterWithin ==
  ASSUME IInv, OInv, Runs, PInv, NEW p \in Reconcilers, Register(p)
  PROVE  PInv'
<1>1. /\ rec[p].at = "act" /\ StepOf(p) = "registry" /\ ops' = ops
      /\ Onward
  <2>1. Onward
    BY WorkerOnward
  <2>. QED
    BY <2>1 DEF Register
<1>2. /\ Working(p) /\ rec[p].op \in Ids /\ rec[p].slot \in Slots /\ Row(p).key = rec[p].slot
      /\ Type(p) \in {"create", "resize"}
      /\ Type(p) = "create" => reg[rec[p].slot].row = "absent"
      /\ Type(p) # "create" =>
           reg[rec[p].slot].row # "absent" /\ reg[rec[p].slot].org = Row(p).org
  BY <1>1, AtRegistry
<1>3. Unnamed'
  BY <1>1, UnnamedKept DEF PInv
<1>4. PICK s \in Slots, o \in Ids : s = rec[p].slot /\ o = rec[p].op
  BY <1>2
<1>5. CASE reg' = reg
  BY <1>1, <1>3, <1>5, WithinKept DEF PInv
<1>6. CASE reg' = [reg EXCEPT ![s] = [row |-> "live", org |-> Row(p).org]] /\ reg[s].row # "deleted"
  <2>1. /\ reg'[s].row = "live" /\ reg'[s].org = ops[o].org
        /\ \A u \in Slots : u # s => reg'[u] = reg[u]
    BY <1>4, <1>6 DEF IInv, TypeOK, Row
  <2>2. CASE Type(p) = "resize"
    <3>1. reg[s].row = "live" /\ reg[s].org = ops[o].org
      BY <1>2, <1>4, <1>6, <2>2 DEF Row, IInv, TypeOK
    <3>2. \A h : LiveOf(h)' \subseteq LiveOf(h) /\ Coming(h)' \subseteq Coming(h)
      <4>1. \A u \in Slots : (reg'[u].row = reg[u].row) /\ (reg'[u].org = reg[u].org)
        BY <2>1, <3>1
      <4>2. \A u \in Ids : ops[u].key = None \/ ops[u].key \in Slots
        BY DEF IInv, TypeOK, OpRecord
      <4>. QED
        BY <1>1, <4>1, <4>2 DEF LiveOf, Coming
    <3>3. ASSUME NEW h \in Orgs PROVE Held(h)' <= Limit[h]
      <4>1. Held(h)' \in Nat /\ Held(h) \in Nat /\ Held(h)' <= Held(h)
        BY <3>2, NothingHeld
      <4>2. Held(h) <= Limit[h] /\ Limit[h] \in Nat
        BY LimitAssumption DEF PInv, WithinPlan
      <4>. QED
        BY <4>1, <4>2
    <3>. QED
      BY <1>3, <3>3 DEF PInv, WithinPlan
  <2>3. CASE Type(p) = "create"
    <3>1. /\ reg[s].row = "absent" /\ ops[o].key = s /\ ops[o].type = "create"
          /\ Open(ops[o])
      BY <1>2, <1>4, <2>3 DEF Row, Type, Runs, Open
    <3>2. s # None
      OBVIOUS
    <3>3. \A h : /\ LiveOf(h)' \subseteq LiveOf(h) \cup (IF h = ops[o].org THEN {s} ELSE {})
                 /\ Coming(h)' \subseteq Coming(h) \ {o}
      <4>1. \A h : LiveOf(h)' \subseteq LiveOf(h) \cup (IF h = ops[o].org THEN {s} ELSE {})
        BY <2>1 DEF LiveOf
      <4>2. ASSUME NEW h, NEW u \in Coming(h)' PROVE u \in Coming(h) /\ u # o
        <5>1. ops[u].key = None \/ ops[u].key \in Slots
          BY DEF Coming, IInv, TypeOK, OpRecord
        <5>. QED
          BY <1>1, <2>1, <3>1, <3>2, <4>2, <5>1 DEF Coming
      <4>. QED
        BY <4>1, <4>2
    <3>4. o \in Coming(ops[o].org)
      BY <3>1 DEF Coming
    <3>5. ASSUME NEW h \in Orgs PROVE Held(h)' <= Limit[h]
      <4>1. Held(h) <= Limit[h] /\ Limit[h] \in Nat
        BY LimitAssumption DEF PInv, WithinPlan
      <4>2. CASE h # ops[o].org
        <5>1. LiveOf(h)' \subseteq LiveOf(h) /\ Coming(h)' \subseteq Coming(h)
          BY <3>3, <4>2
        <5>2. Held(h)' \in Nat /\ Held(h) \in Nat /\ Held(h)' <= Held(h)
          BY <5>1, NothingHeld
        <5>. QED
          BY <4>1, <5>2
      <4>3. CASE h = ops[o].org
        <5>1. PICK L, C, L2, C2 : L = LiveOf(h) /\ C = Coming(h) /\ L2 = LiveOf(h)' /\ C2 = Coming(h)'
          OBVIOUS
        <5>2. /\ Held(h) = Cardinality(L) + Cardinality(C)
              /\ IsFiniteSet(L) /\ IsFiniteSet(C)
              /\ Cardinality(L) \in Nat /\ Cardinality(C) \in Nat
          BY <5>1, HeldIs
        <5>3. Held(h)' = Cardinality(L2) + Cardinality(C2)
          BY <5>1 DEF Held, Coming
        <5>4. L2 \subseteq L \cup {s} /\ C2 \subseteq C \ {o} /\ o \in C
          BY <3>3, <3>4, <4>3, <5>1
        <5>5. Cardinality(L2) \in Nat /\ Cardinality(L2) <= Cardinality(L) + 1
          <6>1. IsFiniteSet(L \cup {s}) /\ Cardinality(L \cup {s}) \in Nat
                /\ Cardinality(L \cup {s}) <= Cardinality(L) + 1
            <7>1. /\ IsFiniteSet(L \cup {s})
                  /\ Cardinality(L \cup {s}) = IF s \in L THEN Cardinality(L) ELSE Cardinality(L) + 1
              BY <5>2, FS_AddElement
            <7>. QED
              BY <5>2, <7>1
          <6>2. IsFiniteSet(L2) /\ Cardinality(L2) <= Cardinality(L \cup {s})
            BY <5>4, <6>1, FS_Subset
          <6>. QED
            BY <5>2, <6>1, <6>2, FS_CardinalityType
        <5>6. Cardinality(C2) \in Nat /\ Cardinality(C2) <= Cardinality(C) - 1
          <6>1. IsFiniteSet(C \ {o}) /\ Cardinality(C \ {o}) = Cardinality(C) - 1
            BY <5>2, <5>4, FS_RemoveElement
          <6>2. IsFiniteSet(C2) /\ Cardinality(C2) <= Cardinality(C \ {o})
            BY <5>4, <6>1, FS_Subset
          <6>3. Cardinality(C2) \in Nat
            BY <6>2, FS_CardinalityType
          <6>. QED
            BY <6>1, <6>2, <6>3
        <5>. QED
          BY <4>1, <5>2, <5>3, <5>5, <5>6
      <4>. QED
        BY <4>2, <4>3
    <3>. QED
      BY <1>3, <3>5 DEF PInv, WithinPlan
  <2>. QED
    BY <1>2, <2>2, <2>3
<1>. QED
  BY <1>4, <1>5, <1>6 DEF Register

LEMMA StepPInv == ASSUME IInv, OInv, Runs, PInv, [Next]_vars PROVE PInv'
<1>1. CASE \E g \in Orgs : RequestCreation(g)
  BY <1>1, RequestCreationWithin
<1>2. CASE \E s \in Slots, t \in Types \ {"create"} : RequestWrite(t, s)
  BY <1>2, RequestWriteWithin
<1>3. CASE \E o \in Ids : Cancel(o)
  BY <1>3, CancelWithin
<1>4. CASE \E p \in Reconcilers : Start(p)
  BY <1>4, StartWithin
<1>5. ASSUME NEW p \in Reconcilers, Work(p) \/ Die(p) PROVE PInv'
  <2>1. CASE \/ Begin(p) \/ Allocate(p) \/ SetProfile(p) \/ NotAdmitted(p) \/ Restore(p)
             \/ Unmark(p) \/ Succeed(p) \/ Fail(p) \/ Unregister(p) \/ NotAnswered(p)
    BY <2>1, WorkerWithin
  <2>2. CASE \/ Quarantine(p) \/ Recovered(p) \/ Record(p) \/ (p = "once" /\ Leave) \/ Die(p)
    BY <2>2, IdlersWithin
  <2>3. CASE Recover(p) \/ Claim(p) \/ NameProject(p) \/ Finish(p) \/ Register(p)
    BY <2>3, RecoverWithin, ClaimWithin, NameProjectWithin, FinishWithin, RegisterWithin
  <2>. QED
    BY <1>5, <2>1, <2>2, <2>3 DEF Work
<1>6. CASE RecordAgain \/ UNCHANGED vars
  <2>1. UNCHANGED <<ops, reg, rec>>
    BY <1>6 DEF RecordAgain, vars
  <2>2. \A q \in Reconcilers : Stepping(q)' => Stepping(q) /\ rec'[q] = rec[q]
    BY <2>1 DEF Stepping
  <2>. QED
    BY <2>1, <2>2, AsideWithin
<1>. QED
  BY <1>1, <1>2, <1>3, <1>4, <1>5, <1>6 DEF Next

(* The plan: with every reconciler started while no other works, and the   *)
(* projects it starts from within the plans, an organisation never has     *)
(* more live projects than its limit, however many creations are open,     *)
(* cancelled, refused or interrupted meanwhile.  (Started beside a worker, *)
(* a `once` fails the creation in progress as interrupted, which frees its *)
(* place in the plan, and the creation then registers all the same.)       *)
THEOREM PlansAreHeld == ASSUME ~Beside, FoundedWithinPlan PROVE Spec => []PlanHeld
<1>1. Init => PInv
  BY InitPInv
<1>2. IInv /\ OInv /\ Runs /\ PInv /\ [Next]_vars => PInv'
  BY StepPInv
<1>3. PInv => PlanHeld
  <2>. SUFFICES ASSUME PInv, NEW g \in Orgs PROVE Cardinality(LiveOf(g)) <= Limit[g]
    BY DEF PlanHeld
  <2>1. /\ Held(g) = Cardinality(LiveOf(g)) + Cardinality(Coming(g))
        /\ Cardinality(LiveOf(g)) \in Nat /\ Cardinality(Coming(g)) \in Nat
    BY HeldIs
  <2>2. Held(g) <= Limit[g] /\ Limit[g] \in Nat
    BY LimitAssumption DEF PInv, WithinPlan
  <2>. QED
    BY <2>1, <2>2
<1>. QED
  BY <1>1, <1>2, <1>3, Inductive, RowsInTurn, RunsAlone, PTL DEF Spec

=============================================================================
