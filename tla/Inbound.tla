------------------------------- MODULE Inbound -------------------------------
(***************************************************************************)
(* Accepting signed deliveries: a sender signs a delivery id and a time,   *)
(* the route checks the signature against its own clock, and one           *)
(* transaction writes the receipt that refuses a replay and starts a run   *)
(* (connector_routes.py, connector_signature.py, migration 0036).  The     *)
(* receipt lasts as long as the run: an operator's prune of ended runs     *)
(* deletes both (migration 0039).                                          *)
(*                                                                         *)
(* Time is a number of ticks.  The database reads it as it is; the route   *)
(* reads it truncated to a whole second.  Between the check of a signature *)
(* and the transaction any time may pass.                                  *)
(***************************************************************************)
EXTENDS Integers, FiniteSets

CONSTANTS
  Ids,        \* delivery ids
  Runs,       \* the runs that may be started
  Second,     \* ticks in a second
  Tolerance,  \* TIMESTAMP_TOLERANCE_SECONDS, in ticks
  Floor,      \* the youngest horizon a prune accepts, in ticks
  MaxTime,    \* bound: the last tick
  MaxWaiting, \* bound: distinct verified requests waiting at once
  None        \* no run

ASSUME SecondAssumption == Second \in Nat \ {0}
ASSUME TimeAssumption == MaxTime \in Nat
ASSUME NoneAssumption == None \notin Runs
ASSUME WindowAssumption ==
  /\ Tolerance \in Nat /\ Floor \in Nat
  /\ Floor >= 2 * Tolerance

Time == 0..MaxTime

(* What is signed: a delivery id and a time, in whole seconds.             *)
Requests == [id: Ids, stamp: {t \in Time : t % Second = 0}]

VARIABLES
  now,       \* the time
  verified,  \* requests whose signature held, not yet answered
  receipt,   \* connector_receipt: the run each accepted id started
  run,       \* workflow_run: who started it, when, and when it finished
  open,      \* the connector is enabled, its agent bound with exact scopes
  able       \* the enqueue would be served: agent active, definition there

vars == <<now, verified, receipt, run, open, able>>

Unstarted == [status |-> "none", id |-> None, stamp |-> 0, at |-> 0, finished |-> 0]

RunRecord == [status: {"none", "going", "ended", "pruned"},
              id: Ids \cup {None}, stamp: Time, at: Time, finished: Time]

TypeOK ==
  /\ now \in Time
  /\ verified \subseteq Requests
  /\ receipt \in [Ids -> Runs \cup {None}]
  /\ run \in [Runs -> RunRecord]
  /\ \A r \in Runs : run[r].status \in {"ended", "pruned"} => run[r].at <= run[r].finished
  /\ open \in BOOLEAN /\ able \in BOOLEAN

Init ==
  /\ now = 0
  /\ verified = {}
  /\ receipt = [i \in Ids |-> None]
  /\ run = [r \in Runs |-> Unstarted]
  /\ open = FALSE /\ able = TRUE

-----------------------------------------------------------------------------

(* int(time.time())                                                        *)
WholeSecond(t) == t - (t % Second)

InWindow(request) == /\ WholeSecond(now) - request.stamp <= Tolerance
                     /\ request.stamp - WholeSecond(now) <= Tolerance

(* A signed request reaches the route, for the first time or again.        *)
Verify(request) ==
  /\ InWindow(request)
  /\ Cardinality(verified \cup {request}) <= MaxWaiting
  /\ verified' = verified \cup {request}
  /\ UNCHANGED <<now, receipt, run, open, able>>

(* connector_accept: the receipt, the run and the receipt's run in one     *)
(* transaction.  Other copies of the request may still be on their way.    *)
Accept(request, r) ==
  /\ request \in verified
  /\ open /\ able
  /\ receipt[request.id] = None
  /\ run[r].status = "none"
  /\ receipt' = [receipt EXCEPT ![request.id] = r]
  /\ run' = [run EXCEPT ![r] = [status |-> "going", id |-> request.id,
                                stamp |-> request.stamp, at |-> now, finished |-> 0]]
  /\ UNCHANGED <<now, verified, open, able>>

(* The last copy is answered: 202, or a refusal, which leaves no receipt.  *)
Answer(request) ==
  /\ request \in verified
  /\ verified' = verified \ {request}
  /\ UNCHANGED <<now, receipt, run, open, able>>

EndedNow(old) == [old EXCEPT !.status = "ended", !.finished = now]

(* The worker ends the run.                                                *)
Finish(r) ==
  /\ run[r].status = "going"
  /\ run' = [run EXCEPT ![r] = EndedNow(@)]
  /\ UNCHANGED <<now, verified, receipt, open, able>>

PrunableSoon(r) == run[r].status = "ended" /\ run[r].finished + Tolerance < now

(* finished_at < p_before, and p_before no later than now - 600 s.         *)
Prunable(r) == run[r].status = "ended" /\ run[r].finished + Floor < now

ForgottenEnded(victims) ==
  [i \in Ids |-> IF receipt[i] \in Runs /\ run[receipt[i]].status = "ended"
                 THEN None ELSE receipt[i]]

Forgotten(victims) == [i \in Ids |-> IF receipt[i] \in victims THEN None ELSE receipt[i]]

(* workflow_run_prune: any of the runs its horizon and its limit admit.    *)
Prune(victims) ==
  /\ victims # {}
  /\ \A r \in victims : Prunable(r)
  /\ receipt' = Forgotten(victims)
  /\ run' = [r \in Runs |-> IF r \in victims THEN [run[r] EXCEPT !.status = "pruned"]
                                             ELSE run[r]]
  /\ UNCHANGED <<now, verified, open, able>>

(* connector_enable, connector_disable, a change of the agent's scopes.    *)
SetOpen ==
  /\ open' = ~open
  /\ UNCHANGED <<now, verified, receipt, run, able>>

(* The agent is revoked or made active again.                              *)
SetAble ==
  /\ able' = ~able
  /\ UNCHANGED <<now, verified, receipt, run, open>>

Tick ==
  /\ now < MaxTime
  /\ now' = now + 1
  /\ UNCHANGED <<verified, receipt, run, open, able>>

Next ==
  \/ \E request \in Requests : Verify(request) \/ Answer(request)
  \/ \E request \in Requests, r \in Runs : Accept(request, r)
  \/ \E r \in Runs : Finish(r)
  \/ \E victims \in SUBSET Runs : Prune(victims)
  \/ SetOpen \/ SetAble \/ Tick

Spec == Init /\ [][Next]_vars

-----------------------------------------------------------------------------
(* Properties.                                                             *)

(* A run that is still stored keeps the receipt of its delivery id, and a  *)
(* receipt names a stored run: neither is deleted without the other, so no *)
(* accepted delivery starts a second run while its first is stored.        *)
ReceiptMatchesRun ==
  /\ \A r \in Runs : run[r].status \in {"going", "ended"} => receipt[run[r].id] = r
  /\ \A i \in Ids : receipt[i] # None => /\ run[receipt[i]].status \in {"going", "ended"}
                                         /\ run[receipt[i]].id = i

Started(r) == run[r].status # "none"

(* One signed request starts at most one run within the tolerance of its   *)
(* time, though its run may end and be pruned with its receipt meanwhile:  *)
(* a second acceptance can only come after the window, from a copy whose   *)
(* signature was checked in time (D1988's horizon).                        *)
OnceInsideWindow ==
  \A r, s \in Runs :
    /\ r # s /\ Started(r) /\ Started(s)
    /\ run[r].id = run[s].id /\ run[r].stamp = run[s].stamp
    => \/ run[r].at > run[r].stamp + Tolerance
       \/ run[s].at > run[s].stamp + Tolerance

=============================================================================
