---------------------------- MODULE OutboxProofs ----------------------------
(***************************************************************************)
(* The outbox, for any connectors, events, numbers of retries to 10,       *)
(* holders, and number of recorded events: its types, its safety           *)
(* invariants, and that it implements Promise.  Nothing is assumed of      *)
(* leases: they lapse at any time, in the middle of a POST included.       *)
(***************************************************************************)
EXTENDS Outbox, TLAPS

(* What is true of one row and of the POSTs made of it.                    *)
RowOK(r, made) ==
  /\ r \in DeliveryRecord
  /\ r.status # "absent" => r.max \in 1..11
  /\ r.status = "absent" => r.attempts = 0 /\ made = 0 /\ r.holder = None
  /\ r.attempts <= r.max
  /\ r.status = "pending" /\ r.holder = None => r.attempts < r.max
  /\ r.rehearsal => made = 0

RowsOK == \A d \in Deliveries : RowOK(delivery[d], posts[d])

(* A row is written when its event is, and not before.                     *)
Unwritten == \A d \in Deliveries : d.event > emitted => delivery[d].status = "absent"

(* A loop in deliver() has a claim of its delivery behind it, and a 2xx it *)
(* saw was the receiver's answer.                                          *)
Busy == \A h \in Holders :
          /\ work[h].pc \in {"post", "record"} =>
               /\ work[h].delivery \in Deliveries
               /\ delivery[work[h].delivery].attempts > 0
          /\ work[h].pc = "record" /\ work[h].delivered =>
               work[h].delivery \in answered

IInv == TypeOK /\ RowsOK /\ Unwritten /\ Busy

-----------------------------------------------------------------------------
(* One row at a time: what the claim and the finish make of it, and how    *)
(* Promise reads that.                                                     *)

LEMMA RetiredRow ==
  ASSUME NEW r, NEW made, RowOK(r, made), NEW heard \in BOOLEAN
  PROVE  /\ RowOK(Retired(r), made)
         /\ Promised!Moves(Reading(r, heard), Reading(Retired(r), heard))
         /\ Retired(r).attempts = r.attempts
         /\ r.status = "absent" => Retired(r).status = "absent"
         /\ Retired(r).status = "pending" => Retired(r) = r
<1>1. CASE Lapsed(r) /\ r.attempts >= r.max
  <2>1. Retired(r) = [r EXCEPT !.status = "dead", !.holder = None, !.live = FALSE]
    BY <1>1 DEF Retired, Released
  <2>2. r.status = "pending" /\ r.attempts = r.max
    BY <1>1 DEF Lapsed, RowOK, DeliveryRecord
  <2>3. RowOK(Retired(r), made)
    BY <2>1, <2>2 DEF RowOK, DeliveryRecord, Ended
  <2>4. Promised!Die(Reading(r, heard), Reading(Retired(r), heard))
    BY <2>1, <2>2 DEF RowOK, DeliveryRecord, Reading, Promised!Die
  <2>. QED
    BY <2>1, <2>2, <2>3, <2>4 DEF Promised!Moves, RowOK, DeliveryRecord
<1>2. CASE ~(Lapsed(r) /\ r.attempts >= r.max)
  BY <1>2 DEF Retired, Promised!Moves
<1>. QED
  BY <1>1, <1>2

LEMMA ClaimedRow ==
  ASSUME NEW r, NEW made, RowOK(r, made), NEW heard \in BOOLEAN, NEW h \in Holders,
         r.status = "pending", r.attempts < r.max
  PROVE  /\ RowOK(Claimed(r, h), made)
         /\ Promised!Moves(Reading(r, heard), Reading(Claimed(r, h), heard))
         /\ Claimed(r, h).attempts = r.attempts + 1
<1>1. Claimed(r, h) = [r EXCEPT !.holder = h, !.live = TRUE, !.attempts = r.attempts + 1]
  BY DEF Claimed
<1>2. h # None
  BY NoneAssumption
<1>3. RowOK(Claimed(r, h), made)
  <2>1. r.attempts + 1 \in Nat /\ r.attempts + 1 <= r.max
    BY DEF RowOK, DeliveryRecord
  <2>2. Claimed(r, h) \in DeliveryRecord
    BY <1>1, <2>1 DEF RowOK, DeliveryRecord
  <2>3. /\ Claimed(r, h).status = "pending" /\ Claimed(r, h).holder = h
        /\ Claimed(r, h).attempts = r.attempts + 1 /\ Claimed(r, h).max = r.max
        /\ Claimed(r, h).rehearsal = r.rehearsal
    BY <1>1 DEF RowOK, DeliveryRecord
  <2>. QED
    BY <1>2, <2>1, <2>2, <2>3 DEF RowOK
<1>4. Promised!Try(Reading(r, heard), Reading(Claimed(r, h), heard))
  BY <1>1 DEF RowOK, DeliveryRecord, Reading, Promised!Try
<1>. QED
  BY <1>1, <1>3, <1>4 DEF Promised!Moves, RowOK, DeliveryRecord

LEMMA SettledRow ==
  ASSUME NEW r, NEW made, RowOK(r, made), NEW heard \in BOOLEAN, NEW delivered \in BOOLEAN,
         r.status = "pending", delivered => heard
  PROVE  /\ RowOK(Settled(r, delivered), made)
         /\ Promised!Moves(Reading(r, heard), Reading(Settled(r, delivered), heard))
         /\ Settled(r, delivered).attempts = r.attempts
<1>1. CASE delivered
  <2>1. Settled(r, delivered) =
          [r EXCEPT !.status = "delivered", !.holder = None, !.live = FALSE]
    BY <1>1 DEF Settled, Released
  <2>2. RowOK(Settled(r, delivered), made)
    BY <2>1 DEF RowOK, DeliveryRecord, Ended
  <2>3. Reading(r, heard).answered
    BY <1>1, Zenon DEF Reading
  <2>4. /\ Reading(r, heard).fate = "pending"
        /\ Reading(Settled(r, delivered), heard) =
             [Reading(r, heard) EXCEPT !.fate = "delivered"]
    BY <2>1 DEF RowOK, DeliveryRecord, Reading
  <2>5. Promised!Deliver(Reading(r, heard), Reading(Settled(r, delivered), heard))
    BY <2>3, <2>4 DEF Promised!Deliver
  <2>. QED
    BY <2>1, <2>2, <2>5 DEF Promised!Moves, RowOK, DeliveryRecord
<1>2. CASE ~delivered /\ r.attempts >= r.max
  <2>1. Settled(r, delivered) =
          [r EXCEPT !.status = "dead", !.holder = None, !.live = FALSE]
    BY <1>2 DEF Settled, Released
  <2>2. RowOK(Settled(r, delivered), made)
    BY <2>1 DEF RowOK, DeliveryRecord, Ended
  <2>3. Promised!Die(Reading(r, heard), Reading(Settled(r, delivered), heard))
    BY <1>2, <2>1 DEF RowOK, DeliveryRecord, Reading, Promised!Die
  <2>. QED
    BY <2>1, <2>2, <2>3 DEF Promised!Moves, RowOK, DeliveryRecord
<1>3. CASE ~delivered /\ ~(r.attempts >= r.max)
  <2>1. Settled(r, delivered) =
          [r EXCEPT !.due = FALSE, !.holder = None, !.live = FALSE]
    BY <1>3 DEF Settled, Released
  <2>0. r.attempts < r.max
    BY <1>3 DEF RowOK, DeliveryRecord
  <2>2. RowOK(Settled(r, delivered), made)
    BY <2>0, <2>1 DEF RowOK, DeliveryRecord, Ended
  <2>3. Reading(Settled(r, delivered), heard) = Reading(r, heard)
    BY <2>1 DEF RowOK, DeliveryRecord, Reading
  <2>. QED
    BY <2>1, <2>2, <2>3 DEF Promised!Moves, RowOK, DeliveryRecord
<1>. QED
  BY <1>1, <1>2, <1>3

LEMMA NewRow ==
  ASSUME NEW r, RowOK(r, 0), r.status = "absent", NEW heard \in BOOLEAN,
         NEW max \in 1..11, NEW rehearsal \in BOOLEAN
  PROVE  /\ RowOK(New(max, rehearsal), 0)
         /\ Promised!Moves(Reading(r, heard), Reading(New(max, rehearsal), heard))
<1>1. New(max, rehearsal) =
        [status |-> "pending", attempts |-> 0, max |-> max, due |-> TRUE,
         holder |-> None, live |-> FALSE, rehearsal |-> rehearsal]
  BY DEF New
<1>2. RowOK(New(max, rehearsal), 0)
  BY <1>1 DEF RowOK, DeliveryRecord
<1>3. Promised!Offer(Reading(r, heard), Reading(New(max, rehearsal), heard))
  BY <1>1 DEF RowOK, Reading, Promised!Offer
<1>. QED
  BY <1>2, <1>3 DEF Promised!Moves
-----------------------------------------------------------------------------
(* A step of the outbox is a step of Promise when every row's reading      *)
(* makes one.                                                              *)

StepOK == IInv' /\ Promised!Next

LEMMA ByReading ==
  ASSUME \A d \in Deliveries :
           Promised!Moves(Reading(delivery[d], d \in answered),
                          Reading(delivery'[d], d \in answered'))
  PROVE  Promised!Next
<1>1. \A d \in Deliveries : /\ Item[d] = Reading(delivery[d], d \in answered)
                            /\ Item'[d] = Reading(delivery'[d], d \in answered')
  BY Zenon DEF Item
<1>2. Item' = [d \in Deliveries |-> Item'[d]]
  BY Zenon DEF Item
<1>. QED
  BY <1>1, <1>2, Zenon DEF Promised!Next

LEMMA ByStutter ==
  ASSUME UNCHANGED <<delivery, answered>>
  PROVE  Promised!Next
BY ByReading, Zenon DEF Promised!Moves

LEMMA InitIInv == Init => IInv
<1>. SUFFICES ASSUME Init PROVE IInv
  OBVIOUS
<1>1. Absent \in DeliveryRecord /\ Absent.status = "absent" /\ Absent.attempts = 0
      /\ Absent.holder = None
      /\ Absent.max = 0 /\ ~Absent.rehearsal
  BY DEF Absent, DeliveryRecord
<1>2. RowOK(Absent, 0)
  BY <1>1 DEF RowOK
<1>3. \A h \in Holders : /\ work[h] \in WorkRecord
                         /\ work[h].pc = "unborn"
  BY DEF Init, Idle, WorkRecord
<1>4. \A c \in Connectors : connector[c] \in ConnectorRecord /\ connector[c].event = None
  BY DEF Init, ConnectorRecord
<1>5. TypeOK
  <2>1. connector \in [Connectors -> ConnectorRecord]
    BY <1>4 DEF Init
  <2>2. work \in [Holders -> WorkRecord]
    BY <1>3 DEF Init
  <2>3. /\ delivery \in [Deliveries -> DeliveryRecord]
        /\ \A d \in Deliveries : delivery[d].status = "absent"
    BY <1>1 DEF Init
  <2>4. emitted \in 0..MaxEmits /\ posts \in [Deliveries -> Nat] /\ answered = {}
    BY EmitsAssumption DEF Init
  <2>. QED
    BY <2>1, <2>2, <2>3, <2>4 DEF TypeOK
<1>6. RowsOK /\ Unwritten
  BY <1>1, <1>2 DEF Init, RowsOK, Unwritten
<1>7. Busy
  BY <1>3, <1>4 DEF Busy
<1>. QED
  BY <1>5, <1>6, <1>7 DEF IInv

-----------------------------------------------------------------------------
(* The deploy and the administrator change no row.                         *)

LEMMA ConnectorOnly ==
  ASSUME IInv, UNCHANGED <<delivery, emitted, work, posts, answered>>,
         connector' \in [Connectors -> ConnectorRecord]
  PROVE  StepOK
<1>1. TypeOK'
  BY DEF IInv, TypeOK
<1>2. RowsOK' /\ Unwritten' /\ Busy'
  BY DEF IInv, RowsOK, Unwritten, Busy
<1>. QED
  BY <1>1, <1>2, ByStutter DEF StepOK, IInv

LEMMA InstallKeeps ==
  ASSUME IInv, NEW c \in Connectors, NEW event \in Events \cup {None},
         NEW endpoint \in BOOLEAN, NEW retries \in Retries \cup {0},
         Install(c, event, endpoint, retries)
  PROVE  StepOK
<1>1. PICK enabled \in BOOLEAN :
        connector' = [connector EXCEPT ![c] =
          [event |-> event, endpoint |-> endpoint, retries |-> retries,
           enabled |-> enabled]]
  <2>1. (connector[c].enabled /\ connector[c].event = event) \in BOOLEAN
    OBVIOUS
  <2>. QED
    BY <2>1, Zenon DEF Install
<1>2. connector' \in [Connectors -> ConnectorRecord]
  BY <1>1 DEF IInv, TypeOK, ConnectorRecord
<1>. QED
  BY <1>2, ConnectorOnly DEF Install

LEMMA EnableKeeps ==
  ASSUME IInv, NEW c \in Connectors, Enable(c) \/ Disable(c)
  PROVE  StepOK
<1>1. PICK enabled \in BOOLEAN :
        connector' = [connector EXCEPT ![c].enabled = enabled]
  BY Zenon DEF Enable, Disable
<1>2. connector' \in [Connectors -> ConnectorRecord]
  BY <1>1 DEF IInv, TypeOK, ConnectorRecord
<1>. QED
  BY <1>2, ConnectorOnly DEF Enable, Disable

-----------------------------------------------------------------------------
(* Rows that change while the loops stand still.                           *)

LEMMA RowsOnly ==
  ASSUME IInv, UNCHANGED <<connector, work, posts, answered>>,
         emitted' \in 0..MaxEmits,
         delivery' = [d \in Deliveries |-> delivery'[d]],
         \A d \in Deliveries :
           /\ RowOK(delivery'[d], posts[d])
           /\ Promised!Moves(Reading(delivery[d], d \in answered),
                             Reading(delivery'[d], d \in answered))
           /\ delivery'[d].attempts = delivery[d].attempts
                \/ delivery[d].status = "absent"
           /\ d.event > emitted' => delivery'[d].status = "absent"
  PROVE  StepOK
<1>1. TypeOK'
  BY DEF IInv, TypeOK, RowOK
<1>2. RowsOK' /\ Unwritten'
  BY DEF IInv, RowsOK, Unwritten
<1>3. Busy'
  BY DEF IInv, Busy, RowsOK, RowOK
<1>4. Promised!Next
  BY ByReading, Zenon
<1>. QED
  BY <1>1, <1>2, <1>3, <1>4 DEF StepOK, IInv
LEMMA EmitKeeps ==
  ASSUME IInv, NEW event \in Events, Emit(event)
  PROVE  StepOK
<1>1. emitted' = emitted + 1 /\ emitted' \in 0..MaxEmits /\ emitted \in Nat
  BY EmitsAssumption DEF Emit, IInv, TypeOK
<1>2. \A d \in Deliveries :
        delivery'[d] = IF d.event = emitted' /\ d.to \in Subscribers(event)
                       THEN New(Attempts(d.to), FALSE) ELSE delivery[d]
  BY Zenon DEF Emit
<1>3. \A d \in Deliveries : d.event \in Nat
  BY EmitsAssumption DEF Deliveries
<1>4. ASSUME NEW d \in Deliveries, d.event = emitted', d.to \in Subscribers(event)
      PROVE  /\ RowOK(delivery'[d], posts[d])
             /\ Promised!Moves(Reading(delivery[d], d \in answered),
                               Reading(delivery'[d], d \in answered))
             /\ delivery[d].status = "absent"
  <2>1. delivery[d].status = "absent"
    BY <1>1, <1>3, <1>4 DEF IInv, Unwritten
  <2>2. RowOK(delivery[d], 0) /\ posts[d] = 0
    BY <2>1 DEF IInv, RowsOK, RowOK
  <2>3. Attempts(d.to) \in 1..11
    <3>1. connector[d.to] \in ConnectorRecord
      BY <1>4 DEF IInv, TypeOK, Subscribers
    <3>2. connector[d.to].retries \in Retries \cup {0}
      BY <3>1 DEF ConnectorRecord
    <3>3. \A n \in Retries \cup {0} : n + 1 \in 1..11
      BY RetriesAssumption
    <3>. QED
      BY <3>2, <3>3 DEF Attempts
  <2>4. delivery'[d] = New(Attempts(d.to), FALSE)
    BY <1>2, <1>4
  <2>5. (d \in answered) \in BOOLEAN /\ FALSE \in BOOLEAN
    OBVIOUS
  <2>. QED
    BY <2>1, <2>2, <2>3, <2>4, <2>5, NewRow, Zenon
<1>5. ASSUME NEW d \in Deliveries, ~(d.event = emitted' /\ d.to \in Subscribers(event))
      PROVE  /\ RowOK(delivery'[d], posts[d])
             /\ delivery'[d] = delivery[d]
  BY <1>2, <1>5 DEF IInv, RowsOK
<1>6. \A d \in Deliveries : d.event > emitted' => delivery'[d].status = "absent"
  <2>. SUFFICES ASSUME NEW d \in Deliveries, d.event > emitted'
                PROVE  delivery'[d].status = "absent"
    OBVIOUS
  <2>1. d.event # emitted' /\ d.event > emitted
    BY <1>1, <1>3
  <2>. QED
    BY <1>5, <2>1 DEF IInv, Unwritten
<1>7. \A d \in Deliveries :
        /\ RowOK(delivery'[d], posts[d])
        /\ Promised!Moves(Reading(delivery[d], d \in answered),
                          Reading(delivery'[d], d \in answered))
        /\ delivery'[d].attempts = delivery[d].attempts
             \/ delivery[d].status = "absent"
  BY <1>4, <1>5, Zenon DEF Promised!Moves
<1>8. delivery' = [d \in Deliveries |-> delivery'[d]]
  BY Zenon DEF Emit
<1>. QED
  BY <1>1, <1>6, <1>7, <1>8, RowsOnly DEF Emit

LEMMA RehearseKeeps ==
  ASSUME IInv, NEW c \in Connectors, Rehearse(c)
  PROVE  StepOK
<1> DEFINE new == [event |-> emitted', to |-> c]
<1>1. /\ emitted' = emitted + 1 /\ emitted' \in 0..MaxEmits
      /\ emitted' \in 1..MaxEmits /\ emitted \in Nat
  BY EmitsAssumption DEF Rehearse, IInv, TypeOK
<1>2. new \in Deliveries /\ new.event = emitted'
  BY <1>1 DEF Deliveries
<1>3. delivery[new].status = "absent"
  BY <1>1, <1>2 DEF IInv, Unwritten
<1> HIDE DEF new
<1>4. delivery' = [delivery EXCEPT ![new] = New(3, TRUE)]
  BY DEF Rehearse, RehearsalAttempts, new
<1>5. RowOK(delivery[new], 0) /\ posts[new] = 0
  BY <1>2, <1>3 DEF IInv, RowsOK, RowOK
<1>6. /\ RowOK(delivery'[new], posts[new])
      /\ Promised!Moves(Reading(delivery[new], new \in answered),
                        Reading(delivery'[new], new \in answered))
  <2>1. delivery'[new] = New(3, TRUE)
    BY <1>2, <1>4 DEF IInv, TypeOK
  <2>2. (new \in answered) \in BOOLEAN /\ TRUE \in BOOLEAN
    OBVIOUS
  <2>3. 3 \in 1..11
    OBVIOUS
  <2>. QED
    BY <1>3, <1>5, <2>1, <2>2, <2>3, NewRow, Zenon
<1>7. \A d \in Deliveries : d # new => /\ delivery'[d] = delivery[d]
                                       /\ RowOK(delivery'[d], posts[d])
  BY <1>4 DEF IInv, TypeOK, RowsOK
<1>8. \A d \in Deliveries : d.event \in Nat
  BY EmitsAssumption DEF Deliveries
<1>9. \A d \in Deliveries : d.event > emitted' => delivery'[d].status = "absent"
  BY <1>1, <1>2, <1>7, <1>8 DEF IInv, Unwritten
<1>10. \A d \in Deliveries :
        /\ RowOK(delivery'[d], posts[d])
        /\ Promised!Moves(Reading(delivery[d], d \in answered),
                          Reading(delivery'[d], d \in answered))
        /\ delivery'[d].attempts = delivery[d].attempts
             \/ delivery[d].status = "absent"
  BY <1>3, <1>6, <1>7, Zenon DEF Promised!Moves
<1>11. delivery' = [d \in Deliveries |-> delivery'[d]]
  BY <1>4 DEF IInv, TypeOK
<1>. QED
  BY <1>1, <1>9, <1>10, <1>11, RowsOnly DEF Rehearse

(* A row that changes by itself, its attempts untouched.                   *)
LEMMA OneRow ==
  ASSUME IInv, UNCHANGED <<connector, emitted, work, posts, answered>>,
         NEW d \in Deliveries, NEW row,
         delivery' = [delivery EXCEPT ![d] = row],
         RowOK(row, posts[d]),
         Promised!Moves(Reading(delivery[d], d \in answered),
                        Reading(row, d \in answered)),
         row.attempts = delivery[d].attempts, delivery[d].status # "absent"
  PROVE  StepOK
<1>1. delivery'[d] = row /\ \A e \in Deliveries : e # d => delivery'[e] = delivery[e]
  BY DEF IInv, TypeOK
<1>2. delivery' = [e \in Deliveries |-> delivery'[e]] /\ emitted' \in 0..MaxEmits
  BY DEF IInv, TypeOK
<1>3. \A e \in Deliveries :
        /\ RowOK(delivery'[e], posts[e])
        /\ Promised!Moves(Reading(delivery[e], e \in answered),
                          Reading(delivery'[e], e \in answered))
        /\ delivery'[e].attempts = delivery[e].attempts
        /\ e.event > emitted' => delivery'[e].status = "absent"
  <2>. SUFFICES ASSUME NEW e \in Deliveries
                PROVE  /\ RowOK(delivery'[e], posts[e])
                       /\ Promised!Moves(Reading(delivery[e], e \in answered),
                                         Reading(delivery'[e], e \in answered))
                       /\ delivery'[e].attempts = delivery[e].attempts
                       /\ e.event > emitted' => delivery'[e].status = "absent"
    OBVIOUS
  <2>1. CASE e = d
    <3>1. ~(d.event > emitted')
      BY DEF IInv, Unwritten
    <3>. QED
      BY <1>1, <2>1, <3>1, Zenon
  <2>2. CASE e # d
    BY <1>1, <2>2, Zenon DEF IInv, RowsOK, Unwritten, Promised!Moves
  <2>. QED
    BY <2>1, <2>2
<1>. QED
  BY <1>2, <1>3, RowsOnly

LEMMA PruneKeeps ==
  ASSUME IInv, NEW d \in Deliveries, Prune(d)
  PROVE  StepOK
<1> DEFINE row == [delivery[d] EXCEPT !.status = "pruned"]
<1>1. delivery[d].status \in {"delivered", "dead"} /\ RowOK(delivery[d], posts[d])
  BY DEF IInv, RowsOK, Prune, Ended
<1>2. RowOK(row, posts[d]) /\ row.attempts = delivery[d].attempts
  BY <1>1 DEF RowOK, DeliveryRecord
<1>3. Promised!Forget(Reading(delivery[d], d \in answered),
                      Reading(row, d \in answered))
  BY <1>1 DEF RowOK, DeliveryRecord, Reading, Promised!Forget
<1>4. delivery' = [delivery EXCEPT ![d] = row]
  BY DEF Prune
<1> HIDE DEF row
<1>. QED
  BY <1>1, <1>2, <1>3, <1>4, OneRow DEF Prune, Promised!Moves

LEMMA LeaseLapsesKeeps ==
  ASSUME IInv, NEW d \in Deliveries, LeaseLapses(d)
  PROVE  StepOK
<1> DEFINE row == [delivery[d] EXCEPT !.live = FALSE]
<1>1. RowOK(delivery[d], posts[d]) /\ delivery[d].status # "absent"
  BY DEF IInv, RowsOK, RowOK, LeaseLapses
<1>2. RowOK(row, posts[d]) /\ row.attempts = delivery[d].attempts
  BY <1>1 DEF RowOK, DeliveryRecord
<1>3. Reading(row, d \in answered) = Reading(delivery[d], d \in answered)
  BY <1>1 DEF RowOK, DeliveryRecord, Reading
<1>4. delivery' = [delivery EXCEPT ![d] = row]
  BY DEF LeaseLapses
<1> HIDE DEF row
<1>. QED
  BY <1>1, <1>2, <1>3, <1>4, OneRow DEF LeaseLapses, Promised!Moves

LEMMA BackoffPassesKeeps ==
  ASSUME IInv, NEW d \in Deliveries, BackoffPasses(d)
  PROVE  StepOK
<1> DEFINE row == [delivery[d] EXCEPT !.due = TRUE]
<1>1. RowOK(delivery[d], posts[d]) /\ delivery[d].status # "absent"
  BY DEF IInv, RowsOK, BackoffPasses
<1>2. RowOK(row, posts[d]) /\ row.attempts = delivery[d].attempts
  BY <1>1 DEF RowOK, DeliveryRecord
<1>3. Reading(row, d \in answered) = Reading(delivery[d], d \in answered)
  BY <1>1 DEF RowOK, DeliveryRecord, Reading
<1>4. delivery' = [delivery EXCEPT ![d] = row]
  BY DEF BackoffPasses
<1> HIDE DEF row
<1>. QED
  BY <1>1, <1>2, <1>3, <1>4, OneRow DEF BackoffPasses, Promised!Moves

-----------------------------------------------------------------------------
(* The loops.                                                              *)

(* What the claim's first statement leaves of the rows.                    *)
LEMMA SweptRows ==
  ASSUME IInv
  PROVE  /\ Swept = [d \in Deliveries |-> Swept[d]]
         /\ \A d \in Deliveries :
              /\ RowOK(Swept[d], posts[d])
              /\ Promised!Moves(Reading(delivery[d], d \in answered),
                                Reading(Swept[d], d \in answered))
              /\ Swept[d].attempts = delivery[d].attempts
              /\ delivery[d].status = "absent" => Swept[d].status = "absent"
              /\ Swept[d].status = "pending" => Swept[d] = delivery[d]
<1>1. Swept = [d \in Deliveries |-> Swept[d]]
  BY Zenon DEF Swept
<1>2. \A d \in Deliveries : Swept[d] = Retired(delivery[d])
  BY Zenon DEF Swept
<1>3. \A d \in Deliveries : RowOK(delivery[d], posts[d]) /\ (d \in answered) \in BOOLEAN
  BY DEF IInv, RowsOK
<1>. QED
  BY <1>1, <1>2, <1>3, RetiredRow, Zenon

LEMMA ClaimNothingKeeps ==
  ASSUME IInv, NEW h \in Holders, ClaimNothing(h)
  PROVE  StepOK
<1>1. delivery' = Swept /\ emitted' \in 0..MaxEmits /\ emitted' = emitted
  BY DEF ClaimNothing, IInv, TypeOK
<1>2. \A d \in Deliveries : d.event > emitted' => delivery'[d].status = "absent"
  BY <1>1, SweptRows DEF IInv, Unwritten
<1>. QED
  BY <1>1, <1>2, SweptRows, RowsOnly DEF ClaimNothing

LEMMA ClaimDeliveryKeeps ==
  ASSUME IInv, NEW h \in Holders, ClaimDelivery(h)
  PROVE  StepOK
<1>1. PICK d \in Claimable(Swept) :
        /\ delivery' = [Swept EXCEPT ![d] = Claimed(Swept[d], h)]
        /\ work' = [work EXCEPT ![h] = [Idle EXCEPT !.pc = "post", !.delivery = d]]
  BY Zenon DEF ClaimDelivery
<1>2. /\ d \in Deliveries /\ Swept[d].status = "pending"
      /\ Swept[d].attempts < Swept[d].max
  BY <1>1 DEF Claimable, Due, Lapsed
<1>3. UNCHANGED <<connector, emitted, posts, answered>>
  BY DEF ClaimDelivery
<1>4. /\ delivery'[d] = Claimed(Swept[d], h)
      /\ \A e \in Deliveries : e # d => delivery'[e] = Swept[e]
      /\ delivery' = [e \in Deliveries |-> delivery'[e]]
  BY <1>1, <1>2 DEF Swept
<1>5. /\ RowOK(delivery'[d], posts[d])
      /\ Promised!Moves(Reading(delivery[d], d \in answered),
                        Reading(delivery'[d], d \in answered))
      /\ delivery'[d].attempts = delivery[d].attempts + 1
  <2>1. (d \in answered) \in BOOLEAN
    OBVIOUS
  <2>2. RowOK(Swept[d], posts[d]) /\ Swept[d] = delivery[d]
    BY <1>2, SweptRows
  <2>. QED
    BY <1>2, <1>4, <2>1, <2>2, ClaimedRow
<1>6. \A e \in Deliveries :
        /\ RowOK(delivery'[e], posts[e])
        /\ Promised!Moves(Reading(delivery[e], e \in answered),
                          Reading(delivery'[e], e \in answered))
        /\ delivery'[e].attempts >= delivery[e].attempts
        /\ delivery[e].attempts \in Nat /\ delivery'[e].attempts \in Nat
  <2>1. \A e \in Deliveries : delivery[e].attempts \in Nat
    BY DEF IInv, TypeOK, DeliveryRecord
  <2>. QED
    BY <1>4, <1>5, <2>1, SweptRows
<1>7. work' \in [Holders -> WorkRecord]
  <2>1. [Idle EXCEPT !.pc = "post", !.delivery = d] \in WorkRecord
    BY <1>2 DEF Idle, WorkRecord
  <2>. QED
    BY <1>1, <2>1 DEF IInv, TypeOK
<1>8. TypeOK'
  BY <1>3, <1>4, <1>6, <1>7 DEF IInv, TypeOK, RowOK
<1>9. RowsOK'
  BY <1>3, <1>6 DEF IInv, RowsOK
<1>10. Unwritten'
  BY <1>2, <1>3, <1>4, SweptRows DEF IInv, Unwritten
<1>11. Busy'
  <2>1. work'[h].pc = "post" /\ work'[h].delivery = d
    BY <1>1 DEF IInv, TypeOK, Idle
  <2>2. \A k \in Holders : k # h => work'[k] = work[k]
    BY <1>1 DEF IInv, TypeOK
  <2>3. \A e \in Deliveries : delivery[e].attempts > 0 => delivery'[e].attempts > 0
    BY <1>6
  <2>4. delivery'[d].attempts > 0
    BY <1>2, <1>5, <1>6
  <2>. QED
    BY <1>2, <1>3, <2>1, <2>2, <2>3, <2>4 DEF IInv, Busy
<1>12. Promised!Next
  BY <1>3, <1>6, ByReading
<1>. QED
  BY <1>8, <1>9, <1>10, <1>11, <1>12 DEF StepOK, IInv

LEMMA AnswerRow ==
  ASSUME NEW r, NEW made, RowOK(r, made), r.attempts > 0,
         NEW heard \in BOOLEAN, NEW hears \in BOOLEAN, hears
  PROVE  Promised!Moves(Reading(r, heard), Reading(r, hears))
<1>1. Reading(r, heard).tries > 0
  BY DEF Reading
<1>2. /\ Reading(r, hears).fate = Reading(r, heard).fate
      /\ Reading(r, hears).tries = Reading(r, heard).tries
      /\ Reading(r, hears).budget = Reading(r, heard).budget
  BY Zenon DEF Reading
<1>3. Reading(r, hears).answered = hears
  BY Zenon DEF Reading
<1>. QED
  BY <1>1, <1>2, <1>3 DEF Promised!Moves, Promised!Answer

(* The POST of a rehearsal does not leave; another is one of the attempts. *)
LEMMA PostKeeps ==
  ASSUME IInv, NEW h \in Holders, Post(h)
  PROVE  StepOK
<1> DEFINE d == work[h].delivery
<1>1. d \in Deliveries /\ delivery[d].attempts > 0 /\ RowOK(delivery[d], posts[d])
  BY DEF IInv, Busy, RowsOK, Post
<1>2. UNCHANGED <<connector, delivery, emitted>>
  BY DEF Post
<1> HIDE DEF d
<1>3. PICK delivered \in BOOLEAN :
        /\ work' = [work EXCEPT ![h].pc = "record", ![h].delivered = delivered]
        /\ delivered => d \in answered'
  BY Zenon DEF Post, d
<1>4. /\ answered' = answered \/ answered' = answered \cup {d}
      /\ \/ posts' = posts
         \/ posts' = [posts EXCEPT ![d] = @ + 1] /\ ~delivery[d].rehearsal
  BY Zenon DEF Post, Leaves, d
<1>5. TypeOK'
  <2>1. work' \in [Holders -> WorkRecord]
    BY <1>3 DEF IInv, TypeOK, WorkRecord
  <2>2. posts' \in [Deliveries -> Nat] /\ answered' \subseteq Deliveries
    BY <1>1, <1>4 DEF IInv, TypeOK
  <2>. QED
    BY <1>2, <2>1, <2>2 DEF IInv, TypeOK
<1>6. RowsOK'
  <2>1. \A e \in Deliveries : e # d => posts'[e] = posts[e]
    BY <1>4 DEF IInv, TypeOK
  <2>2. RowOK(delivery[d], posts'[d])
    BY <1>1, <1>4 DEF RowOK, DeliveryRecord
  <2>. QED
    BY <1>2, <2>1, <2>2 DEF IInv, RowsOK
<1>7. Unwritten'
  BY <1>2 DEF IInv, Unwritten
<1>8. Busy'
  <2>1. work'[h].delivery = d /\ work'[h].delivered = delivered
    BY <1>3 DEF IInv, TypeOK, WorkRecord, d
  <2>2. \A k \in Holders : k # h => work'[k] = work[k]
    BY <1>3 DEF IInv, TypeOK
  <2>3. answered \subseteq answered'
    BY <1>4
  <2>. QED
    BY <1>1, <1>2, <1>3, <2>1, <2>2, <2>3 DEF IInv, Busy
<1>9. \A e \in Deliveries : Promised!Moves(Reading(delivery[e], e \in answered),
                                           Reading(delivery'[e], e \in answered'))
  <2>1. CASE answered' = answered
    BY <1>2, <2>1, Zenon DEF Promised!Moves
  <2>2. CASE answered' = answered \cup {d}
    <3>. SUFFICES ASSUME NEW e \in Deliveries
                  PROVE  Promised!Moves(Reading(delivery[e], e \in answered),
                                        Reading(delivery[e], e \in answered'))
      BY <1>2
    <3>1. CASE e = d
      <4>1. /\ e \in answered'
            /\ (e \in answered') \in BOOLEAN /\ (e \in answered) \in BOOLEAN
        BY <2>2, <3>1
      <4>. QED
        BY <1>1, <3>1, <4>1, AnswerRow
    <3>2. CASE e # d
      <4>1. (e \in answered') = (e \in answered)
        BY <2>2, <3>2
      <4>. QED
        BY <4>1 DEF Promised!Moves
    <3>. QED
      BY <3>1, <3>2
  <2>. QED
    BY <1>4, <2>1, <2>2
<1>10. Promised!Next
  BY <1>9, ByReading
<1>. QED
  BY <1>5, <1>6, <1>7, <1>8, <1>10 DEF StepOK, IInv

(* A row is settled only by the holder of its claim, with what it saw.     *)
LEMMA FinishDeliveryKeeps ==
  ASSUME IInv, NEW h \in Holders, FinishDelivery(h)
  PROVE  StepOK
<1> DEFINE d == work[h].delivery
           delivered == work[h].delivered
<1>1. d \in Deliveries /\ RowOK(delivery[d], posts[d]) /\ delivered \in BOOLEAN
      /\ (delivered => d \in answered)
  BY DEF IInv, TypeOK, WorkRecord, Busy, RowsOK, FinishDelivery
<1>2. UNCHANGED <<connector, emitted, posts, answered>>
  BY DEF FinishDelivery
<1>3. /\ delivery' = IF Holds(h, d)
                     THEN [delivery EXCEPT ![d] = Settled(delivery[d], delivered)]
                     ELSE delivery
      /\ work' = [work EXCEPT ![h] = Idle]
  BY Zenon DEF FinishDelivery
<1> HIDE DEF d, delivered
<1>4. \A e \in Deliveries : e # d => delivery'[e] = delivery[e]
  BY <1>3 DEF IInv, TypeOK
<1>5. /\ RowOK(delivery'[d], posts[d])
      /\ Promised!Moves(Reading(delivery[d], d \in answered),
                        Reading(delivery'[d], d \in answered))
      /\ delivery'[d].attempts = delivery[d].attempts
      /\ delivery[d].status = "absent" => delivery'[d].status = "absent"
  <2>1. CASE Holds(h, d)
    <3>1. delivery'[d] = Settled(delivery[d], delivered) /\ delivery[d].status = "pending"
      BY <1>1, <1>3, <2>1 DEF IInv, TypeOK, Holds
    <3>2. (d \in answered) \in BOOLEAN
      OBVIOUS
    <3>. QED
      BY <1>1, <3>1, <3>2, SettledRow
  <2>2. CASE ~Holds(h, d)
    BY <1>1, <1>3, <2>2 DEF Promised!Moves
  <2>. QED
    BY <2>1, <2>2
<1>6. \A e \in Deliveries :
        /\ RowOK(delivery'[e], posts[e])
        /\ Promised!Moves(Reading(delivery[e], e \in answered),
                          Reading(delivery'[e], e \in answered))
        /\ delivery'[e].attempts = delivery[e].attempts
        /\ delivery[e].status = "absent" => delivery'[e].status = "absent"
  BY <1>4, <1>5, Zenon DEF IInv, RowsOK, Promised!Moves
<1>7. delivery' = [e \in Deliveries |-> delivery'[e]]
  BY <1>3 DEF IInv, TypeOK
<1>8. Idle \in WorkRecord /\ Idle.pc = "idle"
  BY DEF Idle, WorkRecord
<1>9. TypeOK'
  <2>1. work' \in [Holders -> WorkRecord]
    BY <1>3, <1>8 DEF IInv, TypeOK
  <2>. QED
    BY <1>2, <1>6, <1>7, <2>1 DEF IInv, TypeOK, RowOK
<1>10. RowsOK' /\ Unwritten'
  BY <1>2, <1>6 DEF IInv, RowsOK, Unwritten
<1>11. Busy'
  <2>1. work'[h].pc = "idle" /\ \A k \in Holders : k # h => work'[k] = work[k]
    BY <1>3, <1>8 DEF IInv, TypeOK
  <2>. QED
    BY <1>2, <1>6, <2>1 DEF IInv, Busy
<1>12. Promised!Next
  BY <1>2, <1>6, ByReading
<1>. QED
  BY <1>9, <1>10, <1>11, <1>12 DEF StepOK, IInv

LEMMA LifeKeeps ==
  ASSUME IInv, NEW h \in Holders, Start(h) \/ Crash(h) \/ PassRaises(h)
  PROVE  StepOK
<1>1. UNCHANGED <<connector, delivery, emitted, posts, answered>>
  BY DEF Start, Crash, PassRaises
<1>2. PICK new \in WorkRecord : /\ work' = [work EXCEPT ![h] = new]
                                /\ new.pc \in {"idle", "dead"}
  <2>1. /\ Idle \in WorkRecord /\ Idle.pc = "idle"
        /\ [Idle EXCEPT !.pc = "dead"] \in WorkRecord
        /\ [Idle EXCEPT !.pc = "dead"].pc = "dead"
    BY DEF Idle, WorkRecord
  <2>. QED
    BY <2>1 DEF Start, Crash, PassRaises
<1>4. /\ work' \in [Holders -> WorkRecord] /\ work'[h].pc \notin {"post", "record"}
      /\ \A k \in Holders : k # h => work'[k] = work[k]
  BY <1>2 DEF IInv, TypeOK
<1>5. TypeOK' /\ RowsOK' /\ Unwritten'
  BY <1>1, <1>4 DEF IInv, TypeOK, RowsOK, Unwritten
<1>6. Busy'
  BY <1>1, <1>4 DEF IInv, Busy
<1>. QED
  BY <1>1, <1>5, <1>6, ByStutter DEF StepOK, IInv

-----------------------------------------------------------------------------

LEMMA NextStepOK ==
  ASSUME IInv, Next
  PROVE  StepOK
<1>1. ASSUME NEW c \in Connectors, Administer(c) PROVE StepOK
  BY <1>1, InstallKeeps, EnableKeeps, RehearseKeeps DEF Administer
<1>2. ASSUME NEW event \in Events, Emit(event) PROVE StepOK
  BY <1>2, EmitKeeps
<1>3. ASSUME NEW d \in Deliveries, Prune(d) \/ LeaseLapses(d) \/ BackoffPasses(d)
      PROVE  StepOK
  BY <1>3, PruneKeeps, LeaseLapsesKeeps, BackoffPassesKeeps
<1>4. ASSUME NEW h \in Holders, Start(h) \/ Crash(h) \/ PassRaises(h) \/ Work(h)
      PROVE  StepOK
  BY <1>4, LifeKeeps, ClaimDeliveryKeeps, ClaimNothingKeeps, PostKeeps,
     FinishDeliveryKeeps DEF Work
<1>. QED
  BY <1>1, <1>2, <1>3, <1>4 DEF Next

LEMMA StutterKeeps == IInv /\ UNCHANGED vars => IInv'
BY DEF IInv, TypeOK, RowsOK, Unwritten, Busy, vars

(* The invariant holds of every state of every run of the specification.   *)
THEOREM OutboxInvariance == Spec => []IInv
<1>1. IInv /\ [Next]_vars => IInv'
  BY NextStepOK, StutterKeeps DEF StepOK
<1>. QED
  BY <1>1, InitIInv, PTL DEF Spec

(* Type correctness.                                                       *)
THEOREM OutboxTypeCorrect == Spec => []TypeOK
<1>1. IInv => TypeOK
  BY DEF IInv
<1>. QED
  BY <1>1, OutboxInvariance, PTL

(* A pending delivery nobody holds has an attempt left (the claim's guard  *)
(* attempts < max_attempts and the two ways a claim ends).                 *)
THEOREM NeverStranded == Spec => []NoneStranded
<1>1. IInv => NoneStranded
  BY DEF IInv, RowsOK, RowOK, NoneStranded
<1>. QED
  BY <1>1, OutboxInvariance, PTL

(* A rehearsal never reaches the connector's endpoint.                     *)
THEOREM RehearsalInside == Spec => []RehearsalStaysInside
<1>1. IInv => RehearsalStaysInside
  BY DEF IInv, RowsOK, RowOK, RehearsalStaysInside
<1>. QED
  BY <1>1, OutboxInvariance, PTL

(* The outbox implements Promise, initial states and steps: a delivery is  *)
(* delivered only if it was answered, dead only when its budget is spent,  *)
(* and what ended stays so, whatever its workers do.                       *)
THEOREM OutboxKeepsPromise == Spec => KeepsPromise
<1>1. Init => Promised!Init
  <2>. SUFFICES ASSUME Init PROVE Promised!Init
    OBVIOUS
  <2>1. \A d \in Deliveries : Reading(delivery[d], d \in answered) =
          [fate |-> "absent", tries |-> 0, budget |-> 0, answered |-> FALSE]
    <3>. SUFFICES ASSUME NEW d \in Deliveries
                  PROVE  Reading(delivery[d], d \in answered) =
                    [fate |-> "absent", tries |-> 0, budget |-> 0, answered |-> FALSE]
      OBVIOUS
    <3>1. /\ delivery[d].status = "absent" /\ delivery[d].status # "pruned"
          /\ delivery[d].attempts = 0 /\ delivery[d].max = 0
      BY DEF Init, Absent
    <3>2. (d \in answered) = FALSE
      BY DEF Init
    <3>. QED
      BY <3>1, <3>2, Zenon DEF Reading
  <2>. QED
    BY <2>1, Zenon DEF Promised!Init, Item
<1>2. IInv /\ [Next]_vars => [Promised!Next]_Item
  <2>1. ASSUME UNCHANGED vars PROVE UNCHANGED Item
    BY <2>1, Zenon DEF vars, Item
  <2>. QED
    BY <2>1, NextStepOK DEF StepOK
<1>. QED
  BY <1>1, <1>2, OutboxInvariance, PTL DEF Spec, KeepsPromise, Promised!Spec
=============================================================================
