--------------------------- MODULE InboundProofs ---------------------------
(***************************************************************************)
(* Inbound's receipts, for every number of ids and runs and for every      *)
(* second, tolerance and horizon with Floor >= 2 * Tolerance.  No bound on *)
(* how long a verified request waits for its transaction is needed.        *)
(***************************************************************************)
EXTENDS Inbound, TLAPS

(* What is known of the times: a request that was verified is not from     *)
(* beyond the window; a run keeps the order signed, accepted, pruned.      *)
Times ==
  /\ \A q \in verified : q.stamp <= now + Tolerance
  /\ \A r \in Runs : Started(r) =>
       /\ run[r].id \in Ids
       /\ run[r].stamp <= run[r].at + Tolerance
       /\ run[r].at <= now
  /\ \A r \in Runs : run[r].status = "pruned" => run[r].finished + Floor < now

IInv == TypeOK /\ ReceiptMatchesRun /\ Times /\ OnceInsideWindow

(* The route's clock is never ahead of the time.                           *)
LEMMA Truncated == \A t \in Time : WholeSecond(t) \in Int /\ WholeSecond(t) <= t
BY SecondAssumption, TimeAssumption DEF WholeSecond, Time

LEMMA InitIInv == Init => IInv
<1>. SUFFICES ASSUME Init PROVE IInv
  OBVIOUS
<1>1. TypeOK
  <2>1. 0 \in Time
    BY TimeAssumption DEF Time
  <2>2. Unstarted \in RunRecord /\ Unstarted.status = "none"
    BY <2>1 DEF RunRecord, Unstarted
  <2>. QED
    BY <2>1, <2>2 DEF Init, TypeOK
<1>2. ReceiptMatchesRun /\ Times /\ OnceInsideWindow
  BY DEF Init, ReceiptMatchesRun, Times, OnceInsideWindow, Started, Unstarted
<1>. QED
  BY <1>1, <1>2 DEF IInv

(* A request whose signature holds now is not from beyond the window.      *)
LEMMA VerifyKeeps ==
  ASSUME IInv, NEW request \in Requests, Verify(request)
  PROVE  IInv'
<1>1. TypeOK'
  BY DEF IInv, TypeOK, Verify
<1>2. ReceiptMatchesRun' /\ OnceInsideWindow'
  BY DEF IInv, ReceiptMatchesRun, OnceInsideWindow, Started, Verify
<1>3. request.stamp <= now + Tolerance
  <2>1. request.stamp - WholeSecond(now) <= Tolerance
    BY DEF Verify, InWindow
  <2>2. WholeSecond(now) \in Int /\ WholeSecond(now) <= now /\ now \in Int
    BY Truncated, TimeAssumption DEF IInv, TypeOK, Time
  <2>3. request.stamp \in Int
    BY TimeAssumption DEF Requests, Time
  <2>. QED
    BY <2>1, <2>2, <2>3, WindowAssumption
<1>4. Times'
  BY <1>3 DEF IInv, Times, Verify, Started
<1>. QED
  BY <1>1, <1>2, <1>4 DEF IInv

(* The step the theorem is about: an earlier run of the same request is    *)
(* pruned by now, and that is beyond the window.                           *)
LEMMA AcceptKeeps ==
  ASSUME IInv, NEW request \in Requests, NEW r \in Runs, Accept(request, r)
  PROVE  IInv'
<1>. USE WindowAssumption, TimeAssumption
<1>1. /\ now \in Int /\ request.id \in Ids
      /\ request.stamp \in Time /\ request.stamp <= now + Tolerance
  BY DEF IInv, TypeOK, Times, Accept, Requests, Time
<1>2. /\ run' = [run EXCEPT ![r] = run'[r]]
      /\ run'[r] = [status |-> "going", id |-> request.id, stamp |-> request.stamp,
                    at |-> now, finished |-> 0]
      /\ now' = now /\ verified' = verified
  BY DEF Accept, IInv, TypeOK
<1>3. TypeOK'
  BY <1>1 DEF IInv, TypeOK, Accept, RunRecord, Time
<1>4. ReceiptMatchesRun'
  BY <1>1, NoneAssumption DEF IInv, TypeOK, ReceiptMatchesRun, Times, Started, Accept
<1>5. Times'
  BY <1>1, <1>2 DEF IInv, TypeOK, Times, Started
<1>6. ASSUME NEW s \in Runs, s # r, Started(s),
             run[s].id = request.id, run[s].stamp = request.stamp
      PROVE  now > request.stamp + Tolerance
  <2>1. run[s].status = "pruned"
    BY <1>6, NoneAssumption
    DEF IInv, TypeOK, RunRecord, ReceiptMatchesRun, Started, Accept
  <2>2. /\ run[s].finished + Floor < now
        /\ run[s].at <= run[s].finished
        /\ request.stamp <= run[s].at + Tolerance
    BY <2>1, <1>6 DEF IInv, TypeOK, Times
  <2>3. run[s].at \in Int /\ run[s].finished \in Int /\ request.stamp \in Int
    BY <1>1 DEF IInv, TypeOK, RunRecord, Time
  <2>. QED
    BY <2>2, <2>3, <1>1
<1>7. OnceInsideWindow'
  <2>. SUFFICES ASSUME NEW s \in Runs, NEW t \in Runs, s # t,
                       Started(s)', Started(t)',
                       run'[s].id = run'[t].id, run'[s].stamp = run'[t].stamp
                PROVE  \/ run'[s].at > run'[s].stamp + Tolerance
                       \/ run'[t].at > run'[t].stamp + Tolerance
    BY DEF OnceInsideWindow
  <2>1. CASE s = r
    BY <2>1, <1>2, <1>6 DEF Started, IInv, TypeOK
  <2>2. CASE t = r
    BY <2>2, <1>2, <1>6 DEF Started, IInv, TypeOK
  <2>3. CASE s # r /\ t # r
    BY <2>3, <1>2 DEF Started, IInv, TypeOK, OnceInsideWindow
  <2>. QED
    BY <2>1, <2>2, <2>3
<1>. QED
  BY <1>3, <1>4, <1>5, <1>7 DEF IInv

LEMMA FinishKeeps ==
  ASSUME IInv, NEW r \in Runs, Finish(r)
  PROVE  IInv'
<1>. USE WindowAssumption, TimeAssumption
<1>1. /\ run' = [run EXCEPT ![r] = run'[r]]
      /\ run'[r] = [run[r] EXCEPT !.status = "ended", !.finished = now]
      /\ now' = now /\ verified' = verified /\ receipt' = receipt
      /\ run[r].status = "going"
  BY DEF Finish, EndedNow, IInv, TypeOK
<1>2. TypeOK'
  <2>1. run[r] \in RunRecord /\ run[r].at <= now /\ now \in Time
    BY <1>1 DEF IInv, TypeOK, Times, Started
  <2>2. run'[r] \in RunRecord /\ run'[r].at <= run'[r].finished
    BY <1>1, <2>1 DEF RunRecord
  <2>3. \A s \in Runs : s # r => run'[s] = run[s]
    BY <1>1 DEF IInv, TypeOK
  <2>4. run' \in [Runs -> RunRecord]
    BY <1>1, <2>2 DEF IInv, TypeOK
  <2>5. open' = open /\ able' = able
    BY DEF Finish
  <2>. QED
    BY <1>1, <2>2, <2>3, <2>4, <2>5 DEF IInv, TypeOK
<1>3. \A s \in Runs : /\ run'[s].id = run[s].id /\ run'[s].stamp = run[s].stamp
                      /\ run'[s].at = run[s].at
                      /\ Started(s)' <=> Started(s)
                      /\ run'[s].status \in {"going", "ended"}
                           <=> run[s].status \in {"going", "ended"}
  BY <1>1 DEF IInv, TypeOK, RunRecord, Started
<1>4. ReceiptMatchesRun'
  BY <1>1, <1>3 DEF IInv, TypeOK, ReceiptMatchesRun
<1>5. Times'
  <2>1. \A s \in Runs : s # r => run'[s] = run[s]
    BY <1>1 DEF IInv, TypeOK
  <2>2. run'[r].status = "ended"
    BY <1>1 DEF IInv, TypeOK, RunRecord
  <2>3. \A s \in Runs : run'[s].status = "pruned" => run'[s].finished + Floor < now
    BY <2>1, <2>2 DEF IInv, Times
  <2>4. \A s \in Runs : Started(s)' =>
          /\ run'[s].id \in Ids
          /\ run'[s].stamp <= run'[s].at + Tolerance
          /\ run'[s].at <= now
    BY <1>3 DEF IInv, Times
  <2>. QED
    BY <1>1, <2>3, <2>4 DEF IInv, Times
<1>6. OnceInsideWindow'
  BY <1>3 DEF IInv, OnceInsideWindow
<1>. QED
  BY <1>2, <1>4, <1>5, <1>6 DEF IInv

(* The prune deletes a run's receipt with the run, and no other.           *)
LEMMA PruneKeeps ==
  ASSUME IInv, NEW victims \in SUBSET Runs, Prune(victims)
  PROVE  IInv'
<1>. USE WindowAssumption, TimeAssumption
<1>1. /\ \A s \in Runs : run'[s] = IF s \in victims
                                   THEN [run[s] EXCEPT !.status = "pruned"] ELSE run[s]
      /\ now' = now /\ verified' = verified
      /\ \A s \in victims : run[s].status = "ended" /\ run[s].finished + Floor < now
  BY DEF Prune, Prunable
<1>2. TypeOK'
  <2>1. run' \in [Runs -> RunRecord]
    BY DEF IInv, TypeOK, Prune, RunRecord
  <2>2. \A s \in Runs : run'[s].status \in {"ended", "pruned"} =>
                          run'[s].at <= run'[s].finished
    BY <1>1 DEF IInv, TypeOK, RunRecord
  <2>3. receipt' \in [Ids -> Runs \cup {None}]
    BY DEF IInv, TypeOK, Prune, Forgotten
  <2>. QED
    BY <2>1, <2>2, <2>3 DEF IInv, TypeOK, Prune
<1>3. \A s \in Runs : /\ run'[s].id = run[s].id /\ run'[s].stamp = run[s].stamp
                      /\ run'[s].at = run[s].at /\ run'[s].finished = run[s].finished
                      /\ run'[s].status = IF s \in victims THEN "pruned"
                                                           ELSE run[s].status
                      /\ Started(s)' <=> Started(s)
  BY <1>1 DEF IInv, TypeOK, RunRecord, Started
<1>4. ReceiptMatchesRun'
  <2>1. \A i \in Ids : receipt'[i] = IF receipt[i] \in victims THEN None ELSE receipt[i]
    BY DEF Prune, Forgotten
  <2>2. ASSUME NEW s \in Runs, run'[s].status \in {"going", "ended"}
        PROVE  receipt'[run'[s].id] = s
    <3>1. s \notin victims /\ run[s].status \in {"going", "ended"} /\ run'[s].id = run[s].id
      BY <2>2, <1>3
    <3>2. receipt[run[s].id] = s /\ run[s].id \in Ids
      BY <3>1 DEF IInv, ReceiptMatchesRun, Times, Started
    <3>. QED
      BY <3>1, <3>2, <2>1
  <2>3. ASSUME NEW i \in Ids, receipt'[i] # None
        PROVE  /\ run'[receipt'[i]].status \in {"going", "ended"}
               /\ run'[receipt'[i]].id = i
    <3>1. receipt'[i] = receipt[i] /\ receipt[i] \notin victims /\ receipt[i] \in Runs
      BY <2>1, <2>3 DEF IInv, TypeOK
    <3>. QED
      BY <3>1, <1>3, <2>3 DEF IInv, ReceiptMatchesRun
  <2>. QED
    BY <2>2, <2>3 DEF ReceiptMatchesRun
<1>5. Times'
  BY <1>1, <1>3 DEF IInv, TypeOK, Times
<1>6. OnceInsideWindow'
  BY <1>3 DEF IInv, OnceInsideWindow
<1>. QED
  BY <1>2, <1>4, <1>5, <1>6 DEF IInv

LEMMA TickKeeps == IInv /\ Tick => IInv'
<1>. SUFFICES ASSUME IInv, Tick PROVE IInv'
  OBVIOUS
<1>. USE WindowAssumption, TimeAssumption
<1>1. TypeOK'
  BY DEF IInv, TypeOK, Tick, Time
<1>2. ReceiptMatchesRun' /\ OnceInsideWindow'
  BY DEF IInv, ReceiptMatchesRun, OnceInsideWindow, Started, Tick
<1>3. Times'
  <2>1. now \in Int /\ now' = now + 1 /\ verified' = verified /\ run' = run
    BY DEF IInv, TypeOK, Tick, Time
  <2>2. /\ \A q \in verified : q.stamp \in Int
        /\ \A r \in Runs : run[r].at \in Int /\ run[r].finished \in Int
    BY DEF IInv, TypeOK, Requests, RunRecord, Time
  <2>. QED
    BY <2>1, <2>2 DEF IInv, Times, Started
<1>. QED
  BY <1>1, <1>2, <1>3 DEF IInv

LEMMA NextKeepsIInv == IInv /\ [Next]_vars => IInv'
<1>. SUFFICES ASSUME IInv, [Next]_vars PROVE IInv'
  OBVIOUS
<1>1. ASSUME NEW request \in Requests, Verify(request) PROVE IInv'
  BY <1>1, VerifyKeeps
<1>2. ASSUME NEW request \in Requests, Answer(request) PROVE IInv'
  BY <1>2 DEF IInv, TypeOK, ReceiptMatchesRun, Times, OnceInsideWindow, Started, Answer
<1>3. ASSUME NEW request \in Requests, NEW r \in Runs, Accept(request, r) PROVE IInv'
  BY <1>3, AcceptKeeps
<1>4. ASSUME NEW r \in Runs, Finish(r) PROVE IInv'
  BY <1>4, FinishKeeps
<1>5. ASSUME NEW victims \in SUBSET Runs, Prune(victims) PROVE IInv'
  BY <1>5, PruneKeeps
<1>6. CASE SetOpen \/ SetAble
  <2>1. open' \in BOOLEAN /\ able' \in BOOLEAN
    BY <1>6 DEF IInv, TypeOK, SetOpen, SetAble
  <2>2. /\ now' = now /\ verified' = verified
        /\ receipt' = receipt /\ run' = run
    BY <1>6 DEF SetOpen, SetAble
  <2>. QED
    BY <2>1, <2>2
    DEF IInv, TypeOK, ReceiptMatchesRun, Times, OnceInsideWindow, Started
<1>7. CASE Tick
  BY <1>7, TickKeeps
<1>8. CASE UNCHANGED vars
  BY <1>8 DEF IInv, TypeOK, ReceiptMatchesRun, Times, OnceInsideWindow, Started, vars
<1>. QED
  BY <1>1, <1>2, <1>3, <1>4, <1>5, <1>6, <1>7, <1>8 DEF Next

(* The invariant holds of every state of every run of the specification.   *)
THEOREM InboundInvariance == Spec => []IInv
<1>1. Init => IInv
  BY InitIInv
<1>2. IInv /\ [Next]_vars => IInv'
  BY NextKeepsIInv
<1>. QED
  BY <1>1, <1>2, PTL DEF Spec

(* Type correctness.                                                       *)
THEOREM InboundTypeCorrect == Spec => []TypeOK
<1>1. IInv => TypeOK
  BY DEF IInv
<1>. QED
  BY <1>1, InboundInvariance, PTL

(* Receipts and stored runs come and go together (connector_accept and     *)
(* workflow_run_prune).                                                    *)
THEOREM ReceiptAndRun == Spec => []ReceiptMatchesRun
<1>1. IInv => ReceiptMatchesRun
  BY DEF IInv
<1>. QED
  BY <1>1, InboundInvariance, PTL

(* A horizon of twice the tolerance is enough: within the tolerance of its *)
(* time a signed request starts at most one run, whatever is pruned.       *)
THEOREM WindowAcceptsOnce == Spec => []OnceInsideWindow
<1>1. IInv => OnceInsideWindow
  BY DEF IInv
<1>. QED
  BY <1>1, InboundInvariance, PTL
=============================================================================
