---------------------------- MODULE StorageProofs ----------------------------
(***************************************************************************)
(* What Storage keeps, for every number of objects and sweeps, every size, *)
(* lease, batch and life of a URL, however many deletes fail: a margin     *)
(* shorter than the lease and a leeway within the grace are all it needs.  *)
(***************************************************************************)
EXTENDS Storage, TLAPS

(* No first write can reach the key any more, and none will.               *)
Closed(r) == r.state = "tombstoned" /\ (r.completed \/ r.age > Ttl + Grace)

(* One object: what its row says of its bytes.                             *)
RowOK(o) ==
  /\ row[o].state = "none" => asking[o].at = "no" /\ ~row[o].completed
  /\ row[o].state = "pending" /\ asking[o].at = "head" => bytes[o] = asking[o].seen
  /\ row[o].state = "available" => bytes[o] = row[o].verified
  /\ row[o].collected => Closed(row[o])
  /\ row[o].collected /\ ~row[o].completed => bytes[o] = None

InHand(wk) ==
  wk.todo \cup (IF wk.at \in {"delete", "finish"} THEN {wk.object} ELSE {})

(* One sweep: what it has in hand is closed, and what it deleted is gone   *)
(* for good unless it had completed.                                       *)
WorksOK(w) ==
  /\ worker[w].at \in {"delete", "finish"} => worker[w].object \in Objects \ worker[w].todo
  /\ \A o \in InHand(worker[w]) : Closed(row[o])
  /\ worker[w].at = "finish" /\ ~row[worker[w].object].completed
       => bytes[worker[w].object] = None

Undeleted(wk) == wk.todo \cup (IF wk.at = "delete" THEN {wk.object} ELSE {})

(* Its clock runs out before its lease does; a delete ends before both.    *)
HoldsOK(w) ==
  /\ worker[w].at = "delete" => worker[w].left > Margin - worker[w].spent
  /\ worker[w].left > 0 => \A o \in Undeleted(worker[w]) :
       row[o].holder = w /\ row[o].lease > worker[w].left

IInv ==
  /\ TypeOK
  /\ \A o \in Objects : RowOK(o)
  /\ \A w \in Workers : WorksOK(w) /\ HoldsOK(w)

USE SizesAssumption, TimesAssumption, LeaseAssumption, BatchAssumption, NoneAssumption

LEMMA InitIInv == Init => IInv
<1>. SUFFICES ASSUME Init PROVE IInv
  OBVIOUS
<1>1. Unborn \in RowRecord /\ Coherent(Unborn)
  BY DEF Unborn, RowRecord, Coherent, Horizon
<1>2. Off \in WorkerRecord
  BY DEF Off, WorkerRecord
<1>3. TypeOK
  BY <1>1, <1>2 DEF Init, TypeOK, NotAsking
<1>4. \A o \in Objects : RowOK(o)
  BY DEF Init, RowOK, Unborn, NotAsking
<1>5. \A w \in Workers : WorksOK(w) /\ HoldsOK(w)
  BY DEF Init, WorksOK, HoldsOK, InHand, Undeleted, Off
<1>. QED
  BY <1>3, <1>4, <1>5 DEF IInv

(* A closed key stays closed, and a deleted one that never completed stays *)
(* without bytes.                                                          *)
StaysClosed(o) ==
  Closed(row[o]) =>
    /\ Closed(row[o])' /\ row'[o].completed = row[o].completed
    /\ ~row[o].completed /\ bytes[o] = None => bytes'[o] = None

SameLease(o) == row'[o].holder = row[o].holder /\ row'[o].lease = row[o].lease

(* A sweep that does not move is as well as before.                        *)
LEMMA Idle ==
  ASSUME IInv, NEW w \in Workers, worker'[w] = worker[w],
         \A o \in Objects : StaysClosed(o),
         \A o \in Undeleted(worker[w]) : worker[w].left > 0 => SameLease(o)
  PROVE  WorksOK(w)' /\ HoldsOK(w)'
<1>1. worker[w].todo \subseteq Objects /\ InHand(worker[w]) \subseteq Objects
  BY DEF IInv, TypeOK, WorkerRecord, WorksOK, InHand
<1>2. WorksOK(w)'
  BY <1>1 DEF IInv, WorksOK, StaysClosed, InHand
<1>3. HoldsOK(w)'
  BY DEF IInv, HoldsOK, SameLease, Undeleted
<1>. QED
  BY <1>2, <1>3

-----------------------------------------------------------------------------
(* The owner's requests.                                                   *)

(* A request touches one object, and leaves what is closed closed.         *)
LEMMA RequestKeeps ==
  ASSUME IInv, NEW o \in Objects,
         row' = [row EXCEPT ![o] = row'[o]],
         bytes' = [bytes EXCEPT ![o] = bytes'[o]],
         asking' = [asking EXCEPT ![o] = asking'[o]],
         worker' = worker, faults' = faults,
         row'[o] \in RowRecord, Coherent(row'[o]),
         bytes'[o] \in Sizes \cup {None},
         asking'[o] \in [at: {"no", "key", "head"}, seen: 0..MaxUpload],
         RowOK(o)', StaysClosed(o), SameLease(o)
  PROVE  IInv'
<1>1. \A p \in Objects : p # o =>
        row'[p] = row[p] /\ bytes'[p] = bytes[p] /\ asking'[p] = asking[p]
  BY DEF IInv, TypeOK
<1>2. TypeOK'
  <2>1. row' \in [Objects -> RowRecord] /\ \A p \in Objects : Coherent(row'[p])
    BY <1>1 DEF IInv, TypeOK
  <2>2. bytes' \in [Objects -> Sizes \cup {None}]
    BY <1>1 DEF IInv, TypeOK
  <2>3. asking' \in [Objects -> [at: {"no", "key", "head"}, seen: 0..MaxUpload]]
    BY <1>1 DEF IInv, TypeOK
  <2>. QED
    BY <2>1, <2>2, <2>3 DEF IInv, TypeOK, Coherent
<1>3. \A p \in Objects : RowOK(p)'
  BY <1>1 DEF IInv, RowOK, Closed
<1>4. \A p \in Objects : StaysClosed(p) /\ SameLease(p)
  BY <1>1 DEF StaysClosed, SameLease, Closed
<1>5. \A w \in Workers : Undeleted(worker[w]) \subseteq Objects
  BY DEF IInv, TypeOK, WorkerRecord, WorksOK, Undeleted
<1>6. \A w \in Workers : WorksOK(w)' /\ HoldsOK(w)'
  BY <1>4, <1>5, Idle
<1>. QED
  BY <1>2, <1>3, <1>6 DEF IInv

LEMMA CreateIntentKeeps == ASSUME IInv, NEW o \in Objects, CreateIntent(o) PROVE IInv'
<1>1. /\ row' = [row EXCEPT ![o] = row'[o]]
      /\ row'[o] = [row[o] EXCEPT !.state = "pending"]
      /\ row[o].state = "none"
      /\ bytes' = bytes /\ asking' = asking /\ worker' = worker /\ faults' = faults
  BY DEF CreateIntent, IInv, TypeOK
<1>2. row[o] \in RowRecord /\ Coherent(row[o]) /\ RowOK(o)
  BY DEF IInv, TypeOK
<1>3. row'[o] \in RowRecord /\ Coherent(row'[o])
  BY <1>1, <1>2 DEF RowRecord, Coherent, RowOK
<1>4. RowOK(o)' /\ StaysClosed(o) /\ SameLease(o)
  BY <1>1, <1>2 DEF RowRecord, Coherent, RowOK, StaysClosed, SameLease, Closed
<1>5. bytes' = [bytes EXCEPT ![o] = bytes'[o]] /\ asking' = [asking EXCEPT ![o] = asking'[o]]
      /\ bytes'[o] \in Sizes \cup {None}
      /\ asking'[o] \in [at: {"no", "key", "head"}, seen: 0..MaxUpload]
  BY <1>1 DEF IInv, TypeOK
<1>. QED
  BY <1>1, <1>3, <1>4, <1>5, RequestKeeps

(* A URL past its grace writes no more, and one of a key that holds bytes  *)
(* never did.                                                              *)
LEMMA PutKeeps == ASSUME IInv, NEW o \in Objects, Put(o) PROVE IInv'
<1>1. /\ bytes' = [bytes EXCEPT ![o] = bytes'[o]] /\ bytes'[o] \in Sizes
      /\ bytes[o] = None /\ row[o].state # "none" /\ row[o].age <= Ttl + Late
      /\ row' = row /\ asking' = asking /\ worker' = worker /\ faults' = faults
  BY DEF Put, IInv, TypeOK
<1>2. /\ row[o] \in RowRecord /\ Coherent(row[o]) /\ RowOK(o)
      /\ asking[o] \in [at: {"no", "key", "head"}, seen: 0..MaxUpload]
  BY DEF IInv, TypeOK
<1>3. ~(row[o].age > Ttl + Grace)
  BY <1>1, <1>2, GraceAssumption DEF RowRecord, Horizon
<1>4. RowOK(o)'
  BY <1>1, <1>2, <1>3 DEF RowRecord, RowOK, Closed
<1>5. StaysClosed(o) /\ SameLease(o)
  BY <1>1, <1>2, <1>3 DEF StaysClosed, SameLease, Closed
<1>6. row' = [row EXCEPT ![o] = row'[o]] /\ asking' = [asking EXCEPT ![o] = asking'[o]]
  BY <1>1 DEF IInv, TypeOK
<1>. QED
  BY <1>1, <1>2, <1>4, <1>5, <1>6, RequestKeeps

(* AskKey, Head and GiveUp change what the completion knows.               *)
LEMMA AskingKeeps ==
  ASSUME IInv, NEW o \in Objects,
         NEW a \in [at: {"no", "key", "head"}, seen: 0..MaxUpload],
         asking' = [asking EXCEPT ![o] = a],
         row' = row, bytes' = bytes, worker' = worker, faults' = faults,
         row[o].state = "none" => a.at = "no",
         a.at = "head" => bytes[o] = a.seen
  PROVE  IInv'
<1>1. /\ asking' = [asking EXCEPT ![o] = asking'[o]] /\ asking'[o] = a
      /\ row' = [row EXCEPT ![o] = row'[o]] /\ bytes' = [bytes EXCEPT ![o] = bytes'[o]]
  BY DEF IInv, TypeOK
<1>2. row[o] \in RowRecord /\ Coherent(row[o]) /\ RowOK(o) /\ bytes[o] \in Sizes \cup {None}
  BY DEF IInv, TypeOK
<1>3. RowOK(o)'
  BY <1>1, <1>2 DEF RowOK, Closed
<1>4. StaysClosed(o) /\ SameLease(o)
  BY <1>2 DEF StaysClosed, SameLease, Closed
<1>. QED
  BY <1>1, <1>2, <1>3, <1>4, RequestKeeps

LEMMA AskKeyKeeps == ASSUME IInv, NEW o \in Objects, AskKey(o) PROVE IInv'
<1>. DEFINE a == [asking[o] EXCEPT !.at = "key"]
<1>1. a \in [at: {"no", "key", "head"}, seen: 0..MaxUpload] /\ a.at = "key"
  BY DEF IInv, TypeOK
<1>2. asking' = [asking EXCEPT ![o] = a] /\ row[o].state # "none"
      /\ row' = row /\ bytes' = bytes /\ worker' = worker /\ faults' = faults
  BY DEF AskKey, IInv, TypeOK
<1>. HIDE DEF a
<1>. QED
  BY <1>1, <1>2, AskingKeeps

LEMMA HeadKeeps == ASSUME IInv, NEW o \in Objects, Head(o) PROVE IInv'
<1>. DEFINE a == IF bytes[o] = None \/ bytes[o] > MaxUpload THEN NotAsking
                 ELSE [at |-> "head", seen |-> bytes[o]]
<1>1. bytes[o] \in Sizes \cup {None} /\ asking[o].at # "no" /\ RowOK(o)
  BY DEF Head, IInv, TypeOK
<1>2. a \in [at: {"no", "key", "head"}, seen: 0..MaxUpload]
  <2>1. CASE bytes[o] = None \/ bytes[o] > MaxUpload
    BY <2>1 DEF NotAsking
  <2>2. CASE ~(bytes[o] = None \/ bytes[o] > MaxUpload)
    <3>1. bytes[o] \in Nat
      BY <1>1, <2>2
    <3>2. bytes[o] \in 0..MaxUpload
      BY <3>1, <2>2
    <3>3. a = [at |-> "head", seen |-> bytes[o]]
      BY <2>2
    <3>. QED
      BY <3>2, <3>3
  <2>. QED
    BY <2>1, <2>2
<1>3. a.at = "head" => bytes[o] = a.seen
  BY DEF NotAsking
<1>4. row[o].state # "none"
  BY <1>1 DEF RowOK
<1>5. asking' = [asking EXCEPT ![o] = a]
      /\ row' = row /\ bytes' = bytes /\ worker' = worker /\ faults' = faults
  BY DEF Head
<1>. HIDE DEF a
<1>. QED
  BY <1>2, <1>3, <1>4, <1>5, AskingKeeps

LEMMA GiveUpKeeps == ASSUME IInv, NEW o \in Objects, GiveUp(o) PROVE IInv'
<1>1. NotAsking \in [at: {"no", "key", "head"}, seen: 0..MaxUpload] /\ NotAsking.at = "no"
  BY DEF NotAsking
<1>2. asking' = [asking EXCEPT ![o] = NotAsking]
      /\ row' = row /\ bytes' = bytes /\ worker' = worker /\ faults' = faults
  BY DEF GiveUp
<1>. QED
  BY <1>1, <1>2, AskingKeeps

(* What the provider was asked about a pending row is what its key holds.  *)
LEMMA CompleteKeeps == ASSUME IInv, NEW o \in Objects, Complete(o) PROVE IInv'
<1>1. /\ asking' = [asking EXCEPT ![o] = asking'[o]] /\ asking'[o] = NotAsking
      /\ asking[o].at = "head"
      /\ bytes' = [bytes EXCEPT ![o] = bytes'[o]] /\ bytes' = bytes
      /\ worker' = worker /\ faults' = faults
  BY DEF Complete, IInv, TypeOK
<1>2. /\ row[o] \in RowRecord /\ Coherent(row[o]) /\ RowOK(o)
      /\ asking[o] \in [at: {"no", "key", "head"}, seen: 0..MaxUpload]
      /\ bytes[o] \in Sizes \cup {None}
  BY DEF IInv, TypeOK
<1>3. NotAsking \in [at: {"no", "key", "head"}, seen: 0..MaxUpload] /\ NotAsking.at = "no"
  BY DEF NotAsking
<1>4. CASE row[o].state = "pending" /\ asking[o].seen > 0
  <2>1. /\ row' = [row EXCEPT ![o] = row'[o]]
        /\ row'[o] = [row[o] EXCEPT !.state = "available", !.completed = TRUE,
                                    !.verified = asking[o].seen]
    BY <1>4 DEF Complete, Completable, IInv, TypeOK
  <2>2. row'[o] \in RowRecord /\ Coherent(row'[o])
    BY <1>2, <1>4, <2>1 DEF RowRecord, Coherent
  <2>3. RowOK(o)'
    BY <1>1, <1>2, <1>3, <1>4, <2>1 DEF RowRecord, Coherent, RowOK
  <2>4. StaysClosed(o) /\ SameLease(o)
    BY <1>4, <1>2, <2>1 DEF RowRecord, StaysClosed, SameLease, Closed
  <2>. QED
    BY <1>1, <1>2, <1>3, <2>1, <2>2, <2>3, <2>4, RequestKeeps
<1>5. CASE ~(row[o].state = "pending" /\ asking[o].seen > 0)
  <2>1. row' = row
    BY <1>5 DEF Complete, Completable
  <2>. QED
    BY <1>1, <1>3, <2>1, AskingKeeps
<1>. QED
  BY <1>4, <1>5

LEMMA TombstoneKeeps == ASSUME IInv, NEW o \in Objects, Tombstone(o) PROVE IInv'
<1>1. /\ row' = [row EXCEPT ![o] = row'[o]]
      /\ row'[o] = [row[o] EXCEPT !.state = "tombstoned"]
      /\ row[o].state \in {"pending", "available"}
      /\ bytes' = bytes /\ asking' = asking /\ worker' = worker /\ faults' = faults
      /\ bytes' = [bytes EXCEPT ![o] = bytes'[o]] /\ asking' = [asking EXCEPT ![o] = asking'[o]]
  BY DEF Tombstone, Tombstoned, IInv, TypeOK
<1>2. /\ row[o] \in RowRecord /\ Coherent(row[o]) /\ RowOK(o)
      /\ asking[o] \in [at: {"no", "key", "head"}, seen: 0..MaxUpload]
      /\ bytes[o] \in Sizes \cup {None}
  BY DEF IInv, TypeOK
<1>3. row'[o] \in RowRecord /\ Coherent(row'[o])
  BY <1>1, <1>2 DEF RowRecord, Coherent
<1>4. RowOK(o)' /\ StaysClosed(o) /\ SameLease(o)
  BY <1>1, <1>2 DEF RowRecord, Coherent, RowOK, StaysClosed, SameLease, Closed
<1>. QED
  BY <1>1, <1>2, <1>3, <1>4, RequestKeeps

-----------------------------------------------------------------------------
(* The sweep.                                                              *)

(* A step of one sweep that leaves the objects alone.                      *)
LEMMA WorkerKeeps ==
  ASSUME IInv, NEW w \in Workers, NEW wk \in WorkerRecord,
         worker' = [worker EXCEPT ![w] = wk],
         row' = row, bytes' = bytes, asking' = asking, faults' \in Nat,
         WorksOK(w)', HoldsOK(w)'
  PROVE  IInv'
<1>1. worker'[w] = wk /\ \A v \in Workers : v # w => worker'[v] = worker[v]
  BY DEF IInv, TypeOK
<1>2. TypeOK'
  BY DEF IInv, TypeOK
<1>3. \A o \in Objects : RowOK(o)' /\ StaysClosed(o) /\ SameLease(o)
  BY DEF IInv, RowOK, StaysClosed, SameLease, Closed
<1>4. \A v \in Workers : Undeleted(worker[v]) \subseteq Objects
  BY DEF IInv, TypeOK, WorkerRecord, WorksOK, Undeleted
<1>5. \A v \in Workers : v # w => WorksOK(v)' /\ HoldsOK(v)'
  BY <1>1, <1>3, <1>4, Idle
<1>. QED
  BY <1>2, <1>3, <1>5 DEF IInv

LEMMA OffKeeps ==
  ASSUME IInv, NEW w \in Workers, worker' = [worker EXCEPT ![w] = Off],
         row' = row, bytes' = bytes, asking' = asking, faults' \in Nat
  PROVE  IInv'
<1>1. Off \in WorkerRecord
  BY DEF Off, WorkerRecord
<1>2. worker'[w] = Off
  BY DEF IInv, TypeOK
<1>3. WorksOK(w)' /\ HoldsOK(w)'
  BY <1>2 DEF WorksOK, HoldsOK, InHand, Undeleted, Off
<1>. QED
  BY <1>1, <1>3, WorkerKeeps

LEMMA EndSweepKeeps == ASSUME IInv, NEW w \in Workers, EndSweep(w) PROVE IInv'
BY OffKeeps DEF EndSweep, IInv, TypeOK

(* A delete begins with more than its margin left.                         *)
LEMMA BeginDeleteKeeps == ASSUME IInv, NEW w \in Workers, BeginDelete(w) PROVE IInv'
<1>1. PICK o \in worker[w].todo :
        worker' = [worker EXCEPT ![w].at = "delete", ![w].object = o,
                                 ![w].spent = 0, ![w].todo = @ \ {o}]
  BY DEF BeginDelete
<1>. DEFINE wk == [worker[w] EXCEPT !.at = "delete", !.object = o,
                                    !.spent = 0, !.todo = @ \ {o}]
<1>2. worker[w] \in WorkerRecord /\ worker[w].todo \subseteq Objects
  BY DEF IInv, TypeOK, WorkerRecord
<1>3. worker' = [worker EXCEPT ![w] = wk] /\ worker'[w] = wk
  BY <1>1 DEF IInv, TypeOK
<1>4. wk \in WorkerRecord
  <2>1. o \in Objects /\ 0 \in 0..Margin /\ worker[w].todo \ {o} \in SUBSET Objects
    BY <1>2
  <2>. QED
    BY <1>2, <2>1 DEF WorkerRecord
<1>5. /\ wk.at = "delete" /\ wk.object = o /\ wk.todo = worker[w].todo \ {o}
      /\ wk.spent = 0 /\ wk.left = worker[w].left
  BY <1>2 DEF WorkerRecord
<1>6. row' = row /\ bytes' = bytes /\ asking' = asking /\ faults' = faults
      /\ worker[w].left > Margin /\ worker[w].left \in Nat
  BY <1>2 DEF BeginDelete, InTime, WorkerRecord
<1>. HIDE DEF wk
<1>7. WorksOK(w)'
  BY <1>2, <1>3, <1>5, <1>6 DEF IInv, WorksOK, InHand
<1>8. HoldsOK(w)'
  BY <1>2, <1>3, <1>5, <1>6 DEF IInv, HoldsOK, Undeleted
<1>. QED
  BY <1>3, <1>4, <1>6, <1>7, <1>8, WorkerKeeps DEF IInv, TypeOK

(* Bytes change only where a delete is under way, so where a row is closed.*)
LEMMA LandingKeeps ==
  ASSUME IInv, NEW w \in Workers, worker[w].at = "delete",
         bytes' \in {bytes, [bytes EXCEPT ![worker[w].object] = None]},
         NEW wk \in WorkerRecord, worker' = [worker EXCEPT ![w] = wk],
         row' = row, asking' = asking, faults' \in Nat,
         WorksOK(w)', HoldsOK(w)'
  PROVE  IInv'
<1>1. PICK o \in Objects : o = worker[w].object /\ Closed(row[o])
  BY DEF IInv, WorksOK, InHand
<1>2. /\ \A p \in Objects : p # o => bytes'[p] = bytes[p]
      /\ bytes'[o] \in {bytes[o], None}
      /\ bytes' \in [Objects -> Sizes \cup {None}]
  BY <1>1 DEF IInv, TypeOK
<1>3. TypeOK'
  BY <1>2 DEF IInv, TypeOK
<1>4. \A p \in Objects : RowOK(p)' /\ StaysClosed(p) /\ SameLease(p)
  <2>1. RowOK(o)' /\ StaysClosed(o) /\ SameLease(o)
    <3>1. RowOK(o) /\ row[o] \in RowRecord
      BY <1>1 DEF IInv, TypeOK
    <3>. QED
      BY <3>1, <1>1, <1>2 DEF RowRecord, RowOK, StaysClosed, SameLease, Closed
  <2>2. ASSUME NEW p \in Objects, p # o PROVE RowOK(p)' /\ StaysClosed(p) /\ SameLease(p)
    BY <1>2, <2>2 DEF IInv, RowOK, StaysClosed, SameLease, Closed
  <2>. QED
    BY <2>1, <2>2
<1>5. worker'[w] = wk /\ \A v \in Workers : v # w => worker'[v] = worker[v]
  BY DEF IInv, TypeOK
<1>6. \A v \in Workers : Undeleted(worker[v]) \subseteq Objects
  BY DEF IInv, TypeOK, WorkerRecord, WorksOK, Undeleted
<1>7. \A v \in Workers : v # w => WorksOK(v)' /\ HoldsOK(v)'
  BY <1>4, <1>5, <1>6, Idle
<1>. QED
  BY <1>3, <1>4, <1>7 DEF IInv

LEMMA DeleteKeeps == ASSUME IInv, NEW w \in Workers, Delete(w) PROVE IInv'
<1>. DEFINE wk == [worker[w] EXCEPT !.at = "finish"]
<1>1. worker[w] \in WorkerRecord /\ worker[w].at = "delete"
      /\ worker[w].object \in Objects \ worker[w].todo
  BY DEF IInv, TypeOK, Delete, WorksOK
<1>2. /\ wk \in WorkerRecord /\ wk.at = "finish" /\ wk.todo = worker[w].todo
      /\ wk.object = worker[w].object /\ wk.left = worker[w].left
  BY <1>1 DEF WorkerRecord
<1>3. /\ worker' = [worker EXCEPT ![w] = wk] /\ worker'[w] = wk
      /\ bytes' = [bytes EXCEPT ![worker[w].object] = None]
      /\ bytes'[worker[w].object] = None
      /\ row' = row /\ asking' = asking /\ faults' = faults
  BY <1>1 DEF Delete, IInv, TypeOK
<1>. HIDE DEF wk
<1>4. WorksOK(w)'
  BY <1>1, <1>2, <1>3 DEF IInv, WorksOK, InHand, Closed
<1>5. HoldsOK(w)'
  BY <1>1, <1>2, <1>3 DEF IInv, HoldsOK, Undeleted
<1>. QED
  BY <1>1, <1>2, <1>3, <1>4, <1>5, LandingKeeps DEF IInv, TypeOK

LEMMA DeleteFailsKeeps == ASSUME IInv, NEW w \in Workers, DeleteFails(w) PROVE IInv'
<1>. DEFINE wk == AfterFailure(worker[w])
<1>1. worker[w] \in WorkerRecord /\ worker[w].at = "delete"
  BY DEF IInv, TypeOK, DeleteFails
<1>2. /\ wk \in WorkerRecord /\ wk.at = "loop" /\ wk.todo = worker[w].todo
      /\ wk.left = worker[w].left
  BY <1>1 DEF WorkerRecord, AfterFailure
<1>3. /\ worker' = [worker EXCEPT ![w] = wk] /\ worker'[w] = wk
      /\ row' = row /\ asking' = asking /\ faults' \in Nat
      /\ bytes' \in {bytes, [bytes EXCEPT ![worker[w].object] = None]}
  BY <1>1 DEF DeleteFails, IInv, TypeOK
<1>. HIDE DEF wk
<1>4. WorksOK(w)'
  BY <1>1, <1>2, <1>3 DEF IInv, WorksOK, InHand, Closed
<1>5. HoldsOK(w)'
  BY <1>1, <1>2, <1>3 DEF IInv, HoldsOK, Undeleted
<1>. QED
  BY <1>1, <1>2, <1>3, <1>4, <1>5, LandingKeeps

LEMMA DieKeeps == ASSUME IInv, NEW w \in Workers, Die(w) PROVE IInv'
<1>1. /\ worker' = [worker EXCEPT ![w] = Off] /\ worker'[w] = Off
      /\ row' = row /\ asking' = asking /\ faults' \in Nat
  BY DEF Die, IInv, TypeOK
<1>2. CASE worker[w].at = "delete"
  <2>1. bytes' \in {bytes, [bytes EXCEPT ![worker[w].object] = None]}
    BY <1>2 DEF Die
  <2>2. Off \in WorkerRecord
    BY DEF Off, WorkerRecord
  <2>3. WorksOK(w)' /\ HoldsOK(w)'
    BY <1>1 DEF WorksOK, HoldsOK, InHand, Undeleted, Off
  <2>. QED
    BY <1>1, <1>2, <2>1, <2>2, <2>3, LandingKeeps
<1>3. CASE worker[w].at # "delete"
  <2>1. bytes' = bytes
    BY <1>3 DEF Die
  <2>. QED
    BY <1>1, <2>1, OffKeeps
<1>. QED
  BY <1>2, <1>3

-----------------------------------------------------------------------------
(* Statements that write rows.                                             *)

(* A statement of a sweep that writes the rows of a set.                   *)
LEMMA RowsKeep ==
  ASSUME IInv, NEW w \in Workers, NEW wk \in WorkerRecord,
         worker' = [worker EXCEPT ![w] = wk],
         row' \in [Objects -> RowRecord],
         bytes' = bytes, asking' = asking, faults' = faults,
         \A o \in Objects : Coherent(row'[o]) /\ RowOK(o)' /\ StaysClosed(o),
         \A v \in Workers \ {w}, o \in Objects :
           worker[v].left > 0 /\ o \in Undeleted(worker[v]) => SameLease(o),
         WorksOK(w)', HoldsOK(w)'
  PROVE  IInv'
<1>1. \A v \in Workers : v # w => worker'[v] = worker[v]
  BY DEF IInv, TypeOK
<1>2. TypeOK'
  BY DEF IInv, TypeOK, Coherent
<1>3. \A v \in Workers : Undeleted(worker[v]) \subseteq Objects
  BY DEF IInv, TypeOK, WorkerRecord, WorksOK, Undeleted
<1>4. \A v \in Workers : v # w => WorksOK(v)' /\ HoldsOK(v)'
  BY <1>1, <1>3, Idle
<1>. QED
  BY <1>2, <1>4 DEF IInv

LEMMA ExpireKeeps == ASSUME IInv, NEW w \in Workers, Expire(w) PROVE IInv'
<1>1. PICK chosen \in Oldest(Expired, ElderFirst) :
        row' = [o \in Objects |-> IF o \in chosen THEN Tombstoned(row[o]) ELSE row[o]]
  BY DEF Expire
<1>2. \A o \in chosen : row[o].state = "pending"
  BY DEF Oldest, Expired
<1>. DEFINE wk == [worker[w] EXCEPT !.at = "claim"]
<1>3. worker[w] \in WorkerRecord /\ worker[w].at = "off"
  BY DEF Expire, IInv, TypeOK
<1>4. /\ wk \in WorkerRecord /\ wk.at = "claim" /\ wk.todo = worker[w].todo
      /\ wk.left = worker[w].left
  BY <1>3 DEF WorkerRecord
<1>5. worker' = [worker EXCEPT ![w] = wk] /\ worker'[w] = wk
      /\ bytes' = bytes /\ asking' = asking /\ faults' = faults
  BY DEF Expire, IInv, TypeOK
<1>. HIDE DEF wk
<1>6. ASSUME NEW o \in Objects
      PROVE  /\ row'[o] \in RowRecord /\ Coherent(row'[o])
             /\ RowOK(o)' /\ StaysClosed(o) /\ SameLease(o)
  <2>1. row[o] \in RowRecord /\ Coherent(row[o]) /\ RowOK(o)
    BY DEF IInv, TypeOK
  <2>2. CASE o \in chosen
    <3>1. row'[o] = [row[o] EXCEPT !.state = "tombstoned"] /\ row[o].state = "pending"
      BY <1>1, <1>2, <2>2 DEF Tombstoned
    <3>2. row'[o] \in RowRecord /\ Coherent(row'[o])
      BY <2>1, <3>1 DEF RowRecord, Coherent
    <3>. QED
      BY <1>5, <2>1, <3>1, <3>2 DEF RowRecord, Coherent, RowOK, StaysClosed, SameLease, Closed
  <2>3. CASE o \notin chosen
    <3>1. row'[o] = row[o]
      BY <1>1, <2>3
    <3>. QED
      BY <1>5, <2>1, <3>1 DEF RowOK, StaysClosed, SameLease, Closed
  <2>. QED
    BY <2>2, <2>3
<1>7. row' \in [Objects -> RowRecord]
  BY <1>1, <1>6
<1>8. worker[w].todo \subseteq Objects
  BY <1>3 DEF WorkerRecord
<1>9. WorksOK(w)'
  BY <1>3, <1>4, <1>5, <1>6, <1>8 DEF IInv, WorksOK, InHand, StaysClosed
<1>10. HoldsOK(w)'
  BY <1>3, <1>4, <1>5, <1>6, <1>8 DEF IInv, HoldsOK, Undeleted, SameLease
<1>. QED
  BY <1>4, <1>5, <1>6, <1>7, <1>9, <1>10, RowsKeep

(* A claim takes rows without a lease, so none that another sweep whose    *)
(* clock has not run out has in hand; it starts its clock with the lease.  *)
LEMMA ClaimKeeps == ASSUME IInv, NEW w \in Workers, Claim(w) PROVE IInv'
<1>1. PICK chosen \in Oldest({o \in Objects : Collectable(row[o])}, FreshFirst) :
        /\ row' = [o \in Objects |->
                     IF o \in chosen THEN [row[o] EXCEPT !.holder = w, !.lease = Lease + 1]
                     ELSE row[o]]
        /\ worker' = [worker EXCEPT ![w].at = "loop", ![w].todo = chosen, ![w].left = Lease]
  BY DEF Claim
<1>2. chosen \subseteq Objects /\ \A o \in chosen : Collectable(row[o])
  BY DEF Oldest
<1>. DEFINE wk == [worker[w] EXCEPT !.at = "loop", !.todo = chosen, !.left = Lease]
<1>3. worker[w] \in WorkerRecord
  BY DEF IInv, TypeOK
<1>4. /\ wk \in WorkerRecord /\ wk.at = "loop" /\ wk.todo = chosen /\ wk.left = Lease
  <2>1. chosen \in SUBSET Objects /\ Lease \in 0..Lease
    BY <1>2
  <2>. QED
    BY <2>1, <1>3 DEF WorkerRecord
<1>5. worker' = [worker EXCEPT ![w] = wk] /\ worker'[w] = wk
      /\ bytes' = bytes /\ asking' = asking /\ faults' = faults
  BY <1>1 DEF Claim, IInv, TypeOK
<1>. HIDE DEF wk
<1>6. ASSUME NEW o \in chosen
      PROVE  /\ row[o] \in RowRecord /\ Closed(row[o]) /\ row[o].lease = 0
             /\ row'[o] \in RowRecord
             /\ row'[o].holder = w /\ row'[o].lease = Lease + 1
             /\ row'[o].state = row[o].state /\ row'[o].age = row[o].age
             /\ row'[o].completed = row[o].completed
             /\ row'[o].verified = row[o].verified
             /\ row'[o].collected = row[o].collected
  <2>1. row[o] \in RowRecord
    BY <1>2 DEF IInv, TypeOK
  <2>2. row'[o] = [row[o] EXCEPT !.holder = w, !.lease = Lease + 1]
    BY <1>1, <1>2
  <2>3. Closed(row[o]) /\ row[o].lease = 0
    BY <1>2 DEF Collectable, Closed
  <2>4. Lease + 1 \in 0..Lease + 1
    OBVIOUS
  <2>. QED
    BY <2>1, <2>2, <2>3, <2>4 DEF RowRecord
<1>7. \A o \in Objects : o \notin chosen => row'[o] = row[o]
  BY <1>1
<1>8. row' \in [Objects -> RowRecord]
  BY <1>1, <1>6, <1>7 DEF IInv, TypeOK
<1>9. ASSUME NEW o \in Objects PROVE Coherent(row'[o]) /\ RowOK(o)' /\ StaysClosed(o)
  <2>1. row[o] \in RowRecord /\ Coherent(row[o]) /\ RowOK(o)
    BY DEF IInv, TypeOK
  <2>2. CASE o \in chosen
    BY <1>5, <1>6, <2>1, <2>2 DEF RowRecord, Coherent, RowOK, StaysClosed, Closed
  <2>3. CASE o \notin chosen
    BY <1>5, <1>7, <2>1, <2>3 DEF Coherent, RowOK, StaysClosed, Closed
  <2>. QED
    BY <2>2, <2>3
<1>10. ASSUME NEW v \in Workers \ {w}, NEW o \in Objects,
              worker[v].left > 0, o \in Undeleted(worker[v])
       PROVE  SameLease(o)
  <2>1. row[o].lease > worker[v].left
    BY <1>10 DEF IInv, HoldsOK
  <2>2. worker[v].left \in Nat /\ row[o].lease \in Nat
    BY DEF IInv, TypeOK, WorkerRecord, RowRecord
  <2>3. o \notin chosen
    BY <1>6, <1>10, <2>1, <2>2
  <2>. QED
    BY <1>7, <2>3 DEF SameLease
<1>11. WorksOK(w)'
  BY <1>4, <1>5, <1>6 DEF WorksOK, InHand, Closed
<1>12. HoldsOK(w)'
  BY <1>4, <1>5, <1>6 DEF HoldsOK, Undeleted
<1>. QED
  BY <1>4, <1>5, <1>8, <1>9, <1>10, <1>11, <1>12, RowsKeep

(* A finish is the holder's own, so no other sweep's lease is touched, and *)
(* what is marked collected is closed and, unless it completed, gone.      *)
LEMMA FinishKeeps == ASSUME IInv, NEW w \in Workers, Finish(w) PROVE IInv'
<1>. DEFINE wk == [worker[w] EXCEPT !.at = "loop", !.object = None]
<1>1. worker[w] \in WorkerRecord /\ worker[w].at = "finish"
  BY DEF IInv, TypeOK, Finish
<1>2. /\ wk \in WorkerRecord /\ wk.at = "loop" /\ wk.todo = worker[w].todo
      /\ wk.left = worker[w].left
  BY <1>1 DEF WorkerRecord
<1>3. worker' = [worker EXCEPT ![w] = wk] /\ worker'[w] = wk
      /\ bytes' = bytes /\ asking' = asking /\ faults' = faults
  BY DEF Finish, IInv, TypeOK
<1>. HIDE DEF wk
<1>4. PICK o \in Objects : o = worker[w].object /\ o \notin worker[w].todo
                           /\ Closed(row[o]) /\ (~row[o].completed => bytes[o] = None)
  BY <1>1 DEF IInv, WorksOK, InHand
<1>5. worker[w].todo \subseteq Objects
  BY <1>1 DEF WorkerRecord
<1>6. row[o] \in RowRecord /\ Coherent(row[o]) /\ RowOK(o)
  BY DEF IInv, TypeOK
<1>7. CASE row[o].holder = w /\ ~row[o].collected
  <2>1. row' = [row EXCEPT ![o] = row'[o]]
        /\ row'[o] = [row[o] EXCEPT !.collected = TRUE, !.holder = None, !.lease = 0]
    BY <1>4, <1>7 DEF Finish, Finished, IInv, TypeOK
  <2>2. row'[o] \in RowRecord /\ Coherent(row'[o])
    <3>1. 0 \in 0..Lease + 1 /\ None \in Workers \cup {None}
      OBVIOUS
    <3>2. row'[o] \in RowRecord
      BY <1>6, <2>1, <3>1 DEF RowRecord
    <3>3. row'[o].state = "tombstoned" /\ row'[o].completed = row[o].completed
      BY <1>4, <1>6, <2>1 DEF RowRecord, Closed
    <3>. QED
      BY <3>2, <3>3 DEF Coherent
  <2>3. RowOK(o)' /\ StaysClosed(o)
    BY <1>3, <1>4, <1>6, <2>1 DEF RowRecord, RowOK, StaysClosed, Closed
  <2>4. \A p \in Objects : p # o => row'[p] = row[p]
    BY <2>1 DEF IInv, TypeOK
  <2>5. row' \in [Objects -> RowRecord]
    BY <2>1, <2>2 DEF IInv, TypeOK
  <2>6. ASSUME NEW p \in Objects PROVE Coherent(row'[p]) /\ RowOK(p)' /\ StaysClosed(p)
    <3>1. CASE p = o
      BY <2>2, <2>3, <3>1
    <3>2. CASE p # o
      BY <1>3, <2>4, <3>2 DEF IInv, TypeOK, RowOK, StaysClosed, Closed
    <3>. QED
      BY <3>1, <3>2
  <2>7. ASSUME NEW v \in Workers \ {w}, NEW p \in Objects,
               worker[v].left > 0, p \in Undeleted(worker[v])
        PROVE  SameLease(p)
    <3>1. row[p].holder = v
      BY <2>7 DEF IInv, HoldsOK
    <3>. QED
      BY <1>7, <2>4, <3>1 DEF SameLease
  <2>8. WorksOK(w)'
    BY <1>1, <1>2, <1>3, <1>5, <2>6 DEF IInv, WorksOK, InHand, StaysClosed
  <2>9. HoldsOK(w)'
    BY <1>1, <1>2, <1>3, <1>4, <1>5, <2>4 DEF IInv, HoldsOK, Undeleted
  <2>. QED
    BY <1>2, <1>3, <2>5, <2>6, <2>7, <2>8, <2>9, RowsKeep
<1>8. CASE ~(row[o].holder = w /\ ~row[o].collected)
  <2>1. row' = row
    BY <1>4, <1>8 DEF Finish
  <2>2. WorksOK(w)'
    BY <1>1, <1>2, <1>3, <2>1 DEF IInv, WorksOK, InHand, Closed
  <2>3. HoldsOK(w)'
    BY <1>1, <1>2, <1>3, <2>1 DEF IInv, HoldsOK, Undeleted
  <2>. QED
    BY <1>2, <1>3, <2>1, <2>2, <2>3, WorkerKeeps DEF IInv, TypeOK
<1>. QED
  BY <1>7, <1>8

-----------------------------------------------------------------------------
(* A tick spends leases and clocks alike, and a delete under way has some  *)
(* of its margin left to spend.                                            *)
LEMMA TickKeeps == ASSUME IInv, Tick PROVE IInv'
<1>1. /\ row' = [o \in Objects |->
           IF row[o].state = "none" THEN row[o]
           ELSE [row[o] EXCEPT !.age = IF @ < Horizon THEN @ + 1 ELSE @, !.lease = Less(@)]]
      /\ worker' = [w \in Workers |->
           [worker[w] EXCEPT !.left = Less(@),
                             !.spent = IF worker[w].at = "delete" THEN @ + 1 ELSE 0]]
      /\ bytes' = bytes /\ asking' = asking /\ faults' = faults
  BY DEF Tick
<1>2. ASSUME NEW o \in Objects
      PROVE  /\ row[o] \in RowRecord /\ row'[o] \in RowRecord
             /\ row'[o].state = row[o].state /\ row'[o].completed = row[o].completed
             /\ row'[o].verified = row[o].verified /\ row'[o].holder = row[o].holder
             /\ row'[o].collected = row[o].collected
             /\ row[o].age > Ttl + Grace => row'[o].age > Ttl + Grace
             /\ row'[o].lease \in {row[o].lease, Less(row[o].lease)}
             /\ row[o].state # "none" => row'[o].lease = Less(row[o].lease)
  <2>1. row[o] \in RowRecord
    BY DEF IInv, TypeOK
  <2>2. CASE row[o].state = "none"
    <3>1. row'[o] = row[o]
      BY <1>1, <2>2
    <3>. QED
      BY <2>1, <2>2, <3>1
  <2>3. CASE row[o].state # "none"
    <3>. DEFINE age == IF row[o].age < Horizon THEN row[o].age + 1 ELSE row[o].age
    <3>1. row'[o] = [row[o] EXCEPT !.age = age, !.lease = Less(row[o].lease)]
      BY <1>1, <2>3
    <3>2. age \in 0..Horizon /\ (row[o].age > Ttl + Grace => age > Ttl + Grace)
      BY <2>1 DEF RowRecord, Horizon
    <3>3. Less(row[o].lease) \in 0..Lease + 1
      BY <2>1 DEF RowRecord, Less
    <3>. HIDE DEF age
    <3>. QED
      BY <2>1, <2>3, <3>1, <3>2, <3>3 DEF RowRecord
  <2>. QED
    BY <2>2, <2>3
<1>3. ASSUME NEW w \in Workers
      PROVE  /\ worker[w] \in WorkerRecord /\ worker'[w] \in WorkerRecord
             /\ worker'[w].at = worker[w].at /\ worker'[w].todo = worker[w].todo
             /\ worker'[w].object = worker[w].object
             /\ worker'[w].left = Less(worker[w].left)
             /\ worker[w].at = "delete" => worker'[w].spent = worker[w].spent + 1
  <2>. DEFINE spent == IF worker[w].at = "delete" THEN worker[w].spent + 1 ELSE 0
  <2>1. worker[w] \in WorkerRecord
    BY DEF IInv, TypeOK
  <2>2. worker'[w] = [worker[w] EXCEPT !.left = Less(worker[w].left), !.spent = spent]
    BY <1>1
  <2>3. worker[w].at = "delete" => worker[w].spent < Margin
    BY DEF Tick
  <2>4. spent \in 0..Margin /\ Less(worker[w].left) \in 0..Lease
    BY <2>1, <2>3 DEF WorkerRecord, Less
  <2>5. worker[w].at = "delete" => spent = worker[w].spent + 1
    OBVIOUS
  <2>. HIDE DEF spent
  <2>. QED
    BY <2>1, <2>2, <2>4, <2>5 DEF WorkerRecord
<1>4. ASSUME NEW o \in Objects
      PROVE  Coherent(row'[o]) /\ RowOK(o)' /\ StaysClosed(o)
  <2>1. Coherent(row[o]) /\ RowOK(o)
    BY DEF IInv, TypeOK
  <2>. QED
    BY <1>1, <1>2, <2>1 DEF RowRecord, Coherent, RowOK, StaysClosed, Closed
<1>5. TypeOK'
  <2>1. row' \in [Objects -> RowRecord]
    BY <1>1, <1>2
  <2>2. worker' \in [Workers -> WorkerRecord]
    BY <1>1, <1>3
  <2>. QED
    BY <1>1, <1>4, <2>1, <2>2 DEF IInv, TypeOK, Coherent
<1>6. ASSUME NEW w \in Workers PROVE WorksOK(w)'
  <2>1. InHand(worker[w]) \subseteq Objects /\ InHand(worker'[w]) = InHand(worker[w])
    BY <1>3 DEF IInv, WorksOK, InHand, WorkerRecord
  <2>. QED
    BY <1>1, <1>3, <1>4, <2>1 DEF IInv, WorksOK, InHand, StaysClosed
<1>7. ASSUME NEW w \in Workers PROVE HoldsOK(w)'
  <2>1. /\ worker[w].left \in Nat /\ worker[w].spent \in Nat
        /\ Undeleted(worker[w]) \subseteq Objects
        /\ Undeleted(worker[w]) \subseteq InHand(worker[w])
        /\ Undeleted(worker'[w]) = Undeleted(worker[w])
    BY <1>3 DEF IInv, WorksOK, Undeleted, InHand, WorkerRecord
  <2>2. ASSUME worker'[w].at = "delete"
        PROVE  worker'[w].left > Margin - worker'[w].spent
    <3>1. /\ worker[w].at = "delete" /\ worker[w].left > Margin - worker[w].spent
          /\ worker[w].spent < Margin
      BY <2>2, <1>3 DEF IInv, HoldsOK, Tick
    <3>. QED
      BY <1>3, <2>1, <3>1 DEF Less
  <2>3. ASSUME worker'[w].left > 0, NEW o \in Undeleted(worker'[w])
        PROVE  row'[o].holder = w /\ row'[o].lease > worker'[w].left
    <3>1. worker[w].left > 0 /\ worker'[w].left = worker[w].left - 1
      BY <1>3, <2>1, <2>3 DEF Less
    <3>2. o \in Objects /\ row[o].holder = w /\ row[o].lease > worker[w].left
          /\ row[o].state # "none" /\ row[o].lease \in Nat
      BY <1>2, <2>1, <2>3, <3>1 DEF IInv, HoldsOK, WorksOK, Closed, RowRecord
    <3>. QED
      BY <1>2, <2>1, <3>1, <3>2 DEF Less
  <2>. QED
    BY <2>2, <2>3 DEF HoldsOK
<1>. QED
  BY <1>4, <1>5, <1>6, <1>7 DEF IInv

-----------------------------------------------------------------------------
(* The theorems.                                                           *)

LEMMA StepIInv == IInv /\ [Next]_vars => IInv'
<1>. SUFFICES ASSUME IInv, [Next]_vars PROVE IInv'
  OBVIOUS
<1>1. ASSUME NEW o \in Objects, Request(o) PROVE IInv'
  BY <1>1, CreateIntentKeeps, PutKeeps, AskKeyKeeps, HeadKeeps, CompleteKeeps, GiveUpKeeps,
     TombstoneKeeps DEF Request
<1>2. ASSUME NEW w \in Workers, Sweep(w) \/ DeleteFails(w) \/ Die(w) PROVE IInv'
  BY <1>2, ExpireKeeps, ClaimKeeps, BeginDeleteKeeps, EndSweepKeeps, DeleteKeeps, FinishKeeps,
     DeleteFailsKeeps, DieKeeps DEF Sweep
<1>3. ASSUME UNCHANGED vars PROVE IInv'
  BY <1>3 DEF vars, IInv, TypeOK, RowOK, WorksOK, HoldsOK
<1>. QED
  BY <1>1, <1>2, <1>3, TickKeeps DEF Next

LEMMA Invariant == Spec => []IInv
BY InitIInv, StepIInv, PTL DEF Spec

(* The rows keep the table's CHECKs, and every step its types.             *)
THEOREM StorageTypeCorrect == Spec => []TypeOK
<1>1. IInv => TypeOK
  BY DEF IInv
<1>. QED
  BY <1>1, Invariant, PTL

(* What can be downloaded is there, as it was verified, within the bound   *)
(* (storage_complete_upload, storage_claim_cleanup_batch).                 *)
THEOREM WhatIsAvailableIsThere == Spec => []AvailableHasBytes
<1>1. IInv => AvailableHasBytes
  BY DEF IInv, TypeOK, RowRecord, RowOK, AvailableHasBytes
<1>. QED
  BY <1>1, Invariant, PTL

(* An upload that never completed is gone with its row, when the leeway of *)
(* the provider's clock is within the grace (storage_claim_cleanup_batch). *)
THEOREM NothingOrphaned == Spec => []NoOrphanedUpload
<1>1. IInv => NoOrphanedUpload
  BY DEF IInv, RowOK, NoOrphanedUpload
<1>. QED
  BY <1>1, Invariant, PTL

(* The margin is enough: whoever deletes still holds the row's lease       *)
(* (CleanupWorker.sweep).                                                  *)
THEOREM DeletesUnderLease == Spec => []DeletesItsOwn
<1>1. IInv => DeletesItsOwn
  <2>. SUFFICES ASSUME IInv, NEW w \in Workers, worker[w].at = "delete"
                PROVE  row[worker[w].object].holder = w
    BY DEF DeletesItsOwn
  <2>1. worker[w].left > Margin - worker[w].spent /\ worker[w].left \in Nat
        /\ worker[w].spent \in 0..Margin
    BY DEF IInv, HoldsOK, TypeOK, WorkerRecord
  <2>2. worker[w].left > 0
    BY <2>1
  <2>. QED
    BY <2>2 DEF IInv, HoldsOK, Undeleted
<1>. QED
  BY <1>1, Invariant, PTL
=============================================================================
