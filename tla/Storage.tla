------------------------------- MODULE Storage -------------------------------
(***************************************************************************)
(* The object plane: an upload intent reserves a key and mints a URL that  *)
(* may write it once; a completion asks the provider what arrived and      *)
(* compare-and-sets the row; a tombstone takes it out of use, and a sweep  *)
(* deletes the bytes under a lease (migrations 0014 to 0016,               *)
(* storage_service.py, storage_cleanup.py).  No transaction is open across *)
(* a call to the provider, and nothing ever lists its keys: bytes whose    *)
(* row is collected are never found again.                                 *)
(*                                                                         *)
(* Time is counted in ticks.  A statement is atomic; a row that another    *)
(* statement has locked is skipped by a sweep and found by the next.       *)
(***************************************************************************)
EXTENDS Integers, FiniteSets

CONSTANTS
  Objects,   \* upload intents; each has a key of its own
  Workers,   \* processes that sweep, each with its holder name
  MaxUpload, \* max_upload_bytes
  Sizes,     \* the sizes a client may send
  Ttl,       \* an intent's and its URL's life
  Grace,     \* WRITE_GRACE_SECONDS
  Late,      \* how long past its TTL the provider may still take a PUT
  Lease,     \* a claim's lease
  Margin,    \* lease_margin_seconds: the longest one delete takes
  Batch,     \* --limit: rows one sweep expires, and rows it claims
  MaxFaults, \* bound: failed deletes and deaths of a worker
  None       \* no bytes, no holder, no object

ASSUME SizesAssumption == Sizes \subseteq Nat /\ MaxUpload \in Nat
ASSUME TimesAssumption == Ttl \in Nat /\ Grace \in Nat /\ Late \in Nat
ASSUME GraceAssumption == Late <= Grace
ASSUME LeaseAssumption == Lease \in Nat /\ Margin \in Nat /\ Margin < Lease
ASSUME BatchAssumption == Batch \in Nat \ {0} /\ MaxFaults \in Nat
ASSUME NoneAssumption == None \notin Objects /\ None \notin Workers /\ None \notin Nat

VARIABLES
  row,     \* storage_objects
  bytes,   \* the provider: the size of what each key holds, or None
  asking,  \* each object's completion under way
  worker,  \* each sweep
  faults   \* failed deletes and deaths so far

vars == <<row, bytes, asking, worker, faults>>

Horizon == Ttl + Grace + 1     \* an age beyond every deadline

RowRecord ==
  [state: {"none", "pending", "available", "tombstoned"}, age: 0..Horizon,
   completed: BOOLEAN, verified: 0..MaxUpload, holder: Workers \cup {None},
   lease: 0..Lease + 1, collected: BOOLEAN]

WorkerRecord ==
  [at: {"off", "claim", "loop", "delete", "finish"}, todo: SUBSET Objects,
   object: Objects \cup {None}, spent: 0..Margin, left: 0..Lease]

(* The table's CHECKs.                                                     *)
Coherent(r) ==
  /\ r.state = "available" => r.completed /\ r.verified > 0
  /\ r.state = "pending" => ~r.completed
  /\ r.state # "tombstoned" => r.holder = None /\ ~r.collected

TypeOK ==
  /\ row \in [Objects -> RowRecord]
  /\ bytes \in [Objects -> Sizes \cup {None}]
  /\ asking \in [Objects -> [at: {"no", "key", "head"}, seen: 0..MaxUpload]]
  /\ worker \in [Workers -> WorkerRecord]
  /\ faults \in Nat
  /\ \A o \in Objects : Coherent(row[o])

Unborn == [state |-> "none", age |-> 0, completed |-> FALSE, verified |-> 0, holder |-> None,
           lease |-> 0, collected |-> FALSE]

NotAsking == [at |-> "no", seen |-> 0]

Off == [at |-> "off", todo |-> {}, object |-> None, spent |-> 0, left |-> 0]

Init ==
  /\ row = [o \in Objects |-> Unborn]
  /\ bytes = [o \in Objects |-> None]
  /\ asking = [o \in Objects |-> NotAsking]
  /\ worker = [w \in Workers |-> Off]
  /\ faults = 0

-----------------------------------------------------------------------------
(* The owner's requests.                                                   *)

(* create_upload_intent: a pending row, and a URL that lives as long.      *)
CreateIntent(o) ==
  /\ row[o].state = "none"
  /\ row' = [row EXCEPT ![o].state = "pending"]
  /\ UNCHANGED <<bytes, asking, worker, faults>>

(* The URL is signed with If-None-Match: *: it writes an absent key only.  *)
(* A signature bounds no length; the provider's clock may run late.        *)
Put(o) ==
  /\ row[o].state # "none"
  /\ row[o].age <= Ttl + Late
  /\ bytes[o] = None
  /\ \E size \in Sizes : bytes' = [bytes EXCEPT ![o] = size]
  /\ UNCHANGED <<row, asking, worker, faults>>

(* storage_completion_key: a pending object, or one already available.     *)
AskKey(o) ==
  /\ asking[o].at = "no"
  /\ row[o].state \in {"pending", "available"}
  /\ asking' = [asking EXCEPT ![o].at = "key"]
  /\ UNCHANGED <<row, bytes, worker, faults>>

HeadUnbounded(o) ==
  /\ asking[o].at = "key"
  /\ asking' = [asking EXCEPT ![o] =
       IF bytes[o] = None THEN NotAsking ELSE [at |-> "head", seen |-> bytes[o]]]
  /\ UNCHANGED <<row, bytes, worker, faults>>

(* verify_uploaded_bytes: nothing there, or too much, ends the request.    *)
Head(o) ==
  /\ asking[o].at = "key"
  /\ asking' = [asking EXCEPT ![o] =
       IF bytes[o] = None \/ bytes[o] > MaxUpload THEN NotAsking
       ELSE [at |-> "head", seen |-> bytes[o]]]
  /\ UNCHANGED <<row, bytes, worker, faults>>

CompletableAnyState(r) == r.state # "none"

Completable(r) == r.state = "pending"

(* storage_complete_upload, after the subject is authenticated again: the  *)
(* row's CHECK refuses a size of zero, another state is left as it is.     *)
Complete(o) ==
  /\ asking[o].at = "head"
  /\ row' = IF Completable(row[o]) /\ asking[o].seen > 0
            THEN [row EXCEPT ![o].state = "available", ![o].completed = TRUE,
                             ![o].verified = asking[o].seen]
            ELSE row
  /\ asking' = [asking EXCEPT ![o] = NotAsking]
  /\ UNCHANGED <<bytes, worker, faults>>

(* The provider failed, the client went, or the subject is refused now.    *)
GiveUp(o) ==
  /\ asking[o].at # "no"
  /\ asking' = [asking EXCEPT ![o] = NotAsking]
  /\ UNCHANGED <<row, bytes, worker, faults>>

Tombstoned(r) == [r EXCEPT !.state = "tombstoned"]

(* storage_tombstone                                                       *)
Tombstone(o) ==
  /\ row[o].state \in {"pending", "available"}
  /\ row' = [row EXCEPT ![o] = Tombstoned(@)]
  /\ UNCHANGED <<bytes, asking, worker, faults>>

-----------------------------------------------------------------------------
(* A sweep.                                                                *)

Expired == {o \in Objects : row[o].state = "pending" /\ row[o].age > Ttl}

(* At most Batch of a set, those of the lowest rank taken first.           *)
Oldest(set, rank) ==
  {chosen \in SUBSET set :
     /\ Cardinality(chosen) <= Batch
     /\ chosen = set \/ Cardinality(chosen) = Batch
     /\ \A o \in set \ chosen, c \in chosen : rank[c] <= rank[o]}

ElderFirst == [o \in Objects |-> Horizon - row[o].age]

(* storage_expire_intents, at the start of a sweep.                        *)
Expire(w) ==
  /\ worker[w].at = "off"
  /\ \E chosen \in Oldest(Expired, ElderFirst) :
       row' = [o \in Objects |-> IF o \in chosen THEN Tombstoned(row[o]) ELSE row[o]]
  /\ worker' = [worker EXCEPT ![w].at = "claim"]
  /\ UNCHANGED <<bytes, asking, faults>>

CollectableAtOnce(r) ==
  r.state = "tombstoned" /\ ~r.collected /\ r.lease = 0

CollectableOnce(r) ==
  /\ r.state = "tombstoned" /\ ~r.collected /\ r.holder = None
  /\ r.completed \/ r.age > Ttl + Grace

(* Not collected, not leased, and the key closed to a first write: because *)
(* it completed, or because its URL is past its grace.                     *)
Collectable(r) ==
  /\ r.state = "tombstoned" /\ ~r.collected /\ r.lease = 0
  /\ r.completed \/ r.age > Ttl + Grace

FreshFirst == [o \in Objects |-> IF row[o].holder = None THEN 0 ELSE 1]

(* storage_claim_cleanup_batch; the worker's own clock starts with the     *)
(* answer.                                                                 *)
Claim(w) ==
  /\ worker[w].at = "claim"
  /\ \E chosen \in Oldest({o \in Objects : Collectable(row[o])}, FreshFirst) :
       /\ row' = [o \in Objects |->
                    IF o \in chosen THEN [row[o] EXCEPT !.holder = w, !.lease = Lease + 1]
                    ELSE row[o]]
       /\ worker' = [worker EXCEPT ![w].at = "loop", ![w].todo = chosen, ![w].left = Lease]
  /\ UNCHANGED <<bytes, asking, faults>>

InTimeAlways(wk) == TRUE

(* now() < deadline                                                        *)
InTime(wk) == wk.left > Margin

BeginDelete(w) ==
  /\ worker[w].at = "loop" /\ InTime(worker[w])
  /\ \E o \in worker[w].todo :
       worker' = [worker EXCEPT ![w].at = "delete", ![w].object = o,
                                ![w].spent = 0, ![w].todo = @ \ {o}]
  /\ UNCHANGED <<row, bytes, asking, faults>>

(* The batch is done, or the rest of it is abandoned to its lease.         *)
EndSweep(w) ==
  /\ worker[w].at = "loop"
  /\ worker[w].todo = {} \/ ~InTime(worker[w])
  /\ worker' = [worker EXCEPT ![w] = Off]
  /\ UNCHANGED <<row, bytes, asking, faults>>

(* The provider deletes; a key that is absent is a success.                *)
Delete(w) ==
  /\ worker[w].at = "delete"
  /\ bytes' = [bytes EXCEPT ![worker[w].object] = None]
  /\ worker' = [worker EXCEPT ![w].at = "finish"]
  /\ UNCHANGED <<row, asking, faults>>

(* A failed delete leaves the row to its lease.                            *)
AfterFailure(wk) == [wk EXCEPT !.at = "loop", !.object = None]

(* It failed, or its answer was lost.                                      *)
DeleteFails(w) ==
  /\ worker[w].at = "delete"
  /\ faults < MaxFaults
  /\ faults' = faults + 1
  /\ bytes' \in {bytes, [bytes EXCEPT ![worker[w].object] = None]}
  /\ worker' = [worker EXCEPT ![w] = AfterFailure(@)]
  /\ UNCHANGED <<row, asking>>

(* storage_finish_cleanup: only the row's holder marks it collected.       *)
Finished(r) == [r EXCEPT !.collected = TRUE, !.holder = None, !.lease = 0]

Finish(w) ==
  LET o == worker[w].object IN
  /\ worker[w].at = "finish"
  /\ row' = IF row[o].holder = w /\ ~row[o].collected
            THEN [row EXCEPT ![o] = Finished(@)] ELSE row
  /\ worker' = [worker EXCEPT ![w].at = "loop", ![w].object = None]
  /\ UNCHANGED <<bytes, asking, faults>>

(* A worker dies; a delete it had sent lands or not.  Its successor has    *)
(* another holder name, but the rows of a dead one are never finished by   *)
(* it, so the name may serve again.                                        *)
Die(w) ==
  /\ worker[w].at # "off"
  /\ faults < MaxFaults
  /\ faults' = faults + 1
  /\ IF worker[w].at = "delete"
     THEN bytes' \in {bytes, [bytes EXCEPT ![worker[w].object] = None]}
     ELSE UNCHANGED bytes
  /\ worker' = [worker EXCEPT ![w] = Off]
  /\ UNCHANGED <<row, asking>>

Less(n) == IF n > 0 THEN n - 1 ELSE 0

(* Time passes, but a delete under way ends within the client's timeouts.  *)
Tick ==
  /\ \A w \in Workers : worker[w].at = "delete" => worker[w].spent < Margin
  /\ row' = [o \in Objects |->
       IF row[o].state = "none" THEN row[o]
       ELSE [row[o] EXCEPT !.age = IF @ < Horizon THEN @ + 1 ELSE @, !.lease = Less(@)]]
  /\ worker' = [w \in Workers |->
       [worker[w] EXCEPT !.left = Less(@),
                         !.spent = IF worker[w].at = "delete" THEN @ + 1 ELSE 0]]
  /\ UNCHANGED <<bytes, asking, faults>>

-----------------------------------------------------------------------------

Request(o) ==
  CreateIntent(o) \/ Put(o) \/ AskKey(o) \/ Head(o) \/ Complete(o) \/ GiveUp(o) \/ Tombstone(o)

Sweep(w) ==
  Expire(w) \/ Claim(w) \/ BeginDelete(w) \/ EndSweep(w) \/ Delete(w) \/ Finish(w)

Next ==
  \/ \E o \in Objects : Request(o)
  \/ \E w \in Workers : Sweep(w) \/ DeleteFails(w) \/ Die(w)
  \/ Tick

Spec == Init /\ [][Next]_vars

(* The operator runs the sweep again and again, time passes, and a sweep   *)
(* is not every time slower than its lease.                                *)
Fairness ==
  /\ WF_vars(Tick)
  /\ \A w \in Workers :
       /\ WF_vars(Sweep(w))
       /\ SF_vars(BeginDelete(w))
       /\ SF_vars(Finish(w) /\ row[worker[w].object].holder = w)

FairSpec == Spec /\ Fairness

-----------------------------------------------------------------------------
(* Properties.                                                             *)

(* What an owner can be given a download of is at the provider, with the   *)
(* size that was verified, within the published bound: no sweep, late      *)
(* completion or expiry takes it away or brings a deleted one back.        *)
AvailableHasBytes ==
  \A o \in Objects :
    row[o].state = "available" => bytes[o] = row[o].verified /\ bytes[o] <= MaxUpload

(* An upload that never completed leaves nothing behind once its row is    *)
(* collected, although its URL cannot be taken back: the claim waits out   *)
(* the URL and the provider's leeway (ADR 0111).                           *)
NoOrphanedUpload ==
  \A o \in Objects : row[o].collected /\ ~row[o].completed => bytes[o] = None

(* A worker deletes only what it still holds: it stops before its lease    *)
(* does, so no two of them delete one key ("Stop before the lease does").  *)
DeletesItsOwn ==
  \A w \in Workers : worker[w].at = "delete" => row[worker[w].object].holder = w

(* Every intent leaves pending, abandoned or not, and every tombstone is   *)
(* collected, whatever died or failed on the way.                          *)
EveryRowSettles ==
  \A o \in Objects :
    /\ row[o].state = "pending" ~> row[o].state # "pending"
    /\ row[o].state = "tombstoned" ~> row[o].collected

(* What migration 0016 says of its claim, "An object is collectable only   *)
(* once nothing can still write to its key": so a collected object, ever   *)
(* completed or not, has no bytes that nobody would find again.            *)
NoOrphan == \A o \in Objects : row[o].collected => bytes[o] = None
=============================================================================
