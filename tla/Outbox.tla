------------------------------- MODULE Outbox -------------------------------
(***************************************************************************)
(* The outbox: an event emitted by the project's own SQL is recorded with  *)
(* one delivery per outbound connector that subscribes to it, and the      *)
(* worker loop's second pass POSTs each, at least once, under a lease and  *)
(* a fixed budget of attempts (migration 0036, connector_delivery.py,      *)
(* 0039's prune).                                                          *)
(*                                                                         *)
(* A connector here is what the outbox reads of its row: the event it      *)
(* subscribes to (None: not installed, or installed as another kind),      *)
(* whether it has an endpoint, whether it is enabled, its retries.  Times  *)
(* are Booleans turned by actions of their own, as in Workflow, and the    *)
(* claim takes any due delivery where the code takes the one due longest.  *)
(***************************************************************************)
EXTENDS Naturals, FiniteSets

CONSTANTS
  Connectors,  \* the connectors of the project's set
  Events,      \* versioned event names
  Retries,     \* the values of retry_max
  Holders,     \* worker identities: one per incarnation of the loop
  MaxEmits,    \* bound: events recorded
  MaxLive,     \* bound: incarnations alive at once (1 as deployed)
  None         \* no holder, no delivery, no subscription

ASSUME RetriesAssumption == Retries \subseteq 0..10
ASSUME EmitsAssumption == MaxEmits \in Nat
ASSUME NoneAssumption == None \notin Holders \cup Events

RehearsalAttempts == 3

(* One delivery per recorded event and subscriber.                         *)
Deliveries == [event: 1..MaxEmits, to: Connectors]

VARIABLES
  connector,  \* connector
  delivery,   \* connector_delivery
  emitted,    \* how many rows connector_event was given
  work,       \* the loop of each holder: where deliver() is
  posts,      \* history: the POSTs made of each delivery
  answered    \* history: the deliveries the receiver answered with a 2xx

vars == <<connector, delivery, emitted, work, posts, answered>>

Ended == {"delivered", "dead"}

ConnectorRecord == [event: Events \cup {None}, endpoint: BOOLEAN,
                    enabled: BOOLEAN, retries: Retries \cup {0}]
DeliveryRecord == [status: {"absent", "pending", "pruned"} \cup Ended,
                   attempts: Nat, max: 0..11, due: BOOLEAN,
                   holder: Holders \cup {None}, live: BOOLEAN,
                   rehearsal: BOOLEAN]
WorkRecord == [pc: {"unborn", "idle", "post", "record", "dead"},
               delivery: Deliveries \cup {None}, delivered: BOOLEAN]

TypeOK ==
  /\ connector \in [Connectors -> ConnectorRecord]
  /\ delivery \in [Deliveries -> DeliveryRecord]
  /\ \A d \in Deliveries : delivery[d].status # "absent" => delivery[d].max \in 1..11
  /\ emitted \in 0..MaxEmits
  /\ work \in [Holders -> WorkRecord]
  /\ posts \in [Deliveries -> Nat]
  /\ answered \subseteq Deliveries

Absent == [status |-> "absent", attempts |-> 0, max |-> 0, due |-> FALSE,
           holder |-> None, live |-> FALSE, rehearsal |-> FALSE]
New(max, rehearsal) ==
  [status |-> "pending", attempts |-> 0, max |-> max, due |-> TRUE,
   holder |-> None, live |-> FALSE, rehearsal |-> rehearsal]
Idle == [pc |-> "idle", delivery |-> None, delivered |-> FALSE]

Init ==
  /\ connector = [c \in Connectors |-> [event |-> None, endpoint |-> FALSE,
                                        enabled |-> FALSE, retries |-> 0]]
  /\ delivery = [d \in Deliveries |-> Absent]
  /\ emitted = 0
  /\ work = [h \in Holders |-> [Idle EXCEPT !.pc = "unborn"]]
  /\ posts = [d \in Deliveries |-> 0]
  /\ answered = {}

-----------------------------------------------------------------------------
(* The deploy and the administrator.                                       *)

(* connector_install of a higher version, or of the same one with another  *)
(* endpoint: a connector whose event changed is left disabled.  Only an    *)
(* outbound connector has an endpoint and retries.                         *)
Install(c, event, endpoint, retries) ==
  /\ event = None => ~endpoint /\ retries = 0
  /\ connector' = [connector EXCEPT ![c] =
       [event |-> event, endpoint |-> endpoint, retries |-> retries,
        enabled |-> @.enabled /\ @.event = event]]
  /\ UNCHANGED <<delivery, emitted, work, posts, answered>>

Enable(c) ==
  /\ connector[c].event # None /\ connector[c].endpoint
  /\ connector' = [connector EXCEPT ![c].enabled = TRUE]
  /\ UNCHANGED <<delivery, emitted, work, posts, answered>>

(* What is pending stays pending: held, not sent.                          *)
Disable(c) ==
  /\ connector' = [connector EXCEPT ![c].enabled = FALSE]
  /\ UNCHANGED <<delivery, emitted, work, posts, answered>>

-----------------------------------------------------------------------------
(* Recording.                                                              *)

Sending(c) == connector[c].enabled /\ connector[c].endpoint

Subscribers(event) == {c \in Connectors : Sending(c) /\ connector[c].event = event}

AttemptsOfRetries(c) == connector[c].retries

(* retry_max counts what follows the first attempt.                        *)
Attempts(c) == connector[c].retries + 1

(* emit_event: no row when nothing listens.                                *)
Emit(event) ==
  /\ emitted < MaxEmits
  /\ Subscribers(event) # {}
  /\ emitted' = emitted + 1
  /\ delivery' = [d \in Deliveries |->
                    IF d.event = emitted' /\ d.to \in Subscribers(event)
                    THEN New(Attempts(d.to), FALSE) ELSE delivery[d]]
  /\ UNCHANGED <<connector, work, posts, answered>>

(* connector_rehearse_delivery: of any outbound connector, enabled or not. *)
Rehearse(c) ==
  /\ emitted < MaxEmits
  /\ connector[c].event # None
  /\ emitted' = emitted + 1
  /\ delivery' = [delivery EXCEPT ![[event |-> emitted', to |-> c]] =
                    New(RehearsalAttempts, TRUE)]
  /\ UNCHANGED <<connector, work, posts, answered>>

(* connector_delivery_prune: what ended long enough ago, never a pending.  *)
Prune(d) ==
  /\ delivery[d].status \in Ended
  /\ delivery' = [delivery EXCEPT ![d].status = "pruned"]
  /\ UNCHANGED <<connector, emitted, work, posts, answered>>

-----------------------------------------------------------------------------
(* Claiming: first the leases that lapsed on a last attempt, then at most  *)
(* one delivery.                                                           *)

Lapsed(r) == r.status = "pending" /\ r.holder # None /\ ~r.live

Released(r, status) == [r EXCEPT !.status = status, !.holder = None, !.live = FALSE]

RetiredEarly(r) == IF Lapsed(r) THEN Released(r, "dead") ELSE r

Retired(r) == IF Lapsed(r) /\ r.attempts >= r.max THEN Released(r, "dead") ELSE r

Swept == [d \in Deliveries |-> Retired(delivery[d])]

DueUnlessClaimed(r) == r.status = "pending" /\ r.holder = None /\ r.due

Due(r) == \/ r.status = "pending" /\ r.holder = None /\ r.due
          \/ Lapsed(r)

(* What a claim may take: a rehearsal whatever its connector's state.      *)
Claimable(rows) == {d \in Deliveries : /\ Due(rows[d])
                                       /\ rows[d].attempts < rows[d].max
                                       /\ rows[d].rehearsal \/ Sending(d.to)}

Claimed(r, h) == [r EXCEPT !.holder = h, !.live = TRUE, !.attempts = r.attempts + 1]

ClaimDelivery(h) ==
  /\ work[h].pc = "idle"
  /\ \E d \in Claimable(Swept) :
       /\ delivery' = [Swept EXCEPT ![d] = Claimed(@, h)]
       /\ work' = [work EXCEPT ![h] = [Idle EXCEPT !.pc = "post", !.delivery = d]]
  /\ UNCHANGED <<connector, emitted, posts, answered>>

ClaimNothing(h) ==
  /\ work[h].pc = "idle"
  /\ Claimable(Swept) = {}
  /\ delivery' = Swept
  /\ UNCHANGED <<connector, emitted, work, posts, answered>>

-----------------------------------------------------------------------------
(* deliver(): one POST, then its result.                                   *)

(* A rehearsal goes to the container's discard port, not to the endpoint.  *)
Leaves(d) == ~delivery[d].rehearsal

(* The receiver answers a 2xx or does not, and the answer may be lost.     *)
Post(h) ==
  LET d == work[h].delivery IN
  /\ work[h].pc = "post"
  /\ \/ /\ Leaves(d)
        /\ posts' = [posts EXCEPT ![d] = @ + 1]
        /\ \/ /\ answered' = answered \cup {d}
              /\ \E seen \in BOOLEAN :
                   work' = [work EXCEPT ![h].pc = "record", ![h].delivered = seen]
           \/ /\ answered' = answered
              /\ work' = [work EXCEPT ![h].pc = "record", ![h].delivered = FALSE]
     \/ /\ ~Leaves(d)
        /\ work' = [work EXCEPT ![h].pc = "record", ![h].delivered = FALSE]
        /\ UNCHANGED <<posts, answered>>
  /\ UNCHANGED <<connector, delivery, emitted>>

Holds(h, d) == delivery[d].status = "pending" /\ delivery[d].holder = h

SettledLate(r, delivered) ==
  IF delivered THEN Released(r, "delivered")
  ELSE IF r.attempts > r.max THEN Released(r, "dead")
  ELSE [r EXCEPT !.due = FALSE, !.holder = None, !.live = FALSE]

(* delivered, or dead once the budget is spent, or due after the backoff.  *)
Settled(r, delivered) ==
  IF delivered THEN Released(r, "delivered")
  ELSE IF r.attempts >= r.max THEN Released(r, "dead")
  ELSE [r EXCEPT !.due = FALSE, !.holder = None, !.live = FALSE]

(* connector_finish_delivery: a holder that lost its lease to another      *)
(* claim, or its row to a retirement or a prune, writes nothing.           *)
FinishDelivery(h) ==
  LET d == work[h].delivery IN
  /\ work[h].pc = "record"
  /\ delivery' = IF Holds(h, d)
                 THEN [delivery EXCEPT ![d] = Settled(@, work[h].delivered)]
                 ELSE delivery
  /\ work' = [work EXCEPT ![h] = Idle]
  /\ UNCHANGED <<connector, emitted, posts, answered>>

(* _connector_passes catches what deliver() raises, the database's errors  *)
(* included, and goes on under the same identity: the claim stays.         *)
PassRaises(h) ==
  /\ work[h].pc \in {"post", "record"}
  /\ work' = [work EXCEPT ![h] = Idle]
  /\ UNCHANGED <<connector, delivery, emitted, posts, answered>>

-----------------------------------------------------------------------------
(* Deadlines, and the life of the loop.                                    *)

LeaseLapses(d) ==
  /\ delivery[d].holder # None /\ delivery[d].live
  /\ delivery' = [delivery EXCEPT ![d].live = FALSE]
  /\ UNCHANGED <<connector, emitted, work, posts, answered>>

BackoffPasses(d) ==
  /\ delivery[d].status = "pending" /\ ~delivery[d].due
  /\ delivery' = [delivery EXCEPT ![d].due = TRUE]
  /\ UNCHANGED <<connector, emitted, work, posts, answered>>

Alive == {h \in Holders : work[h].pc \notin {"unborn", "dead"}}

Start(h) ==
  /\ work[h].pc = "unborn"
  /\ Cardinality(Alive) < MaxLive
  /\ work' = [work EXCEPT ![h] = Idle]
  /\ UNCHANGED <<connector, delivery, emitted, posts, answered>>

(* The process dies anywhere; the last identity of the model does not.     *)
Crash(h) ==
  /\ h \in Alive
  /\ \E other \in Holders \ {h} : work[other].pc # "dead"
  /\ work' = [work EXCEPT ![h] = [Idle EXCEPT !.pc = "dead"]]
  /\ UNCHANGED <<connector, delivery, emitted, posts, answered>>

-----------------------------------------------------------------------------

Work(h) == ClaimDelivery(h) \/ ClaimNothing(h) \/ Post(h) \/ FinishDelivery(h)

Administer(c) ==
  \/ \E event \in Events \cup {None}, endpoint \in BOOLEAN, retries \in Retries \cup {0} :
        Install(c, event, endpoint, retries)
  \/ Enable(c) \/ Disable(c) \/ Rehearse(c)

Next ==
  \/ \E c \in Connectors : Administer(c)
  \/ \E event \in Events : Emit(event)
  \/ \E d \in Deliveries : Prune(d) \/ LeaseLapses(d) \/ BackoffPasses(d)
  \/ \E h \in Holders : Start(h) \/ Crash(h) \/ PassRaises(h) \/ Work(h)

(* The loop is restarted and goes round, and time passes; no administrator *)
(* has to act, and no receiver has to answer.                              *)
Fairness ==
  /\ \A h \in Holders : WF_vars(Start(h)) /\ WF_vars(Work(h))
  /\ \A d \in Deliveries : WF_vars(BackoffPasses(d)) /\ WF_vars(LeaseLapses(d))

Spec == Init /\ [][Next]_vars
FairSpec == Spec /\ Fairness

-----------------------------------------------------------------------------
(* Properties.                                                             *)

(* How a row of the outbox reads as a delivery of Promise.                 *)
Reading(r, heard) ==
  [fate |-> IF r.status = "pruned" THEN "forgotten" ELSE r.status,
   tries |-> r.attempts, budget |-> r.max, answered |-> heard]

Item == [d \in Deliveries |-> Reading(delivery[d], d \in answered)]

Promised == INSTANCE Promise WITH item <- Item

(* The outbox implements Promise: over crashes, lapsed leases, late and    *)
(* overlapping workers and lost answers, a delivery is delivered only if   *)
(* the receiver answered it, dies only with its budget spent, and stays    *)
(* ended (0036's claim and finish).                                        *)
KeepsPromise == Promised!Spec

(* No delivery is stranded: a pending one nobody holds still has an        *)
(* attempt left, so the claim's attempts < max_attempts never hides it.    *)
NoneStranded ==
  \A d \in Deliveries :
    /\ delivery[d].status = "pending"
    /\ delivery[d].holder = None
    => delivery[d].attempts < delivery[d].max

(* A rehearsal's delivery never reaches the connector's endpoint.          *)
RehearsalStaysInside ==
  \A d \in Deliveries : delivery[d].rehearsal => posts[d] = 0

(* A pending delivery ends, unless its connector stops sending.            *)
EveryDeliveryEnds ==
  \A d \in Deliveries :
    (delivery[d].status = "pending")
      ~> (delivery[d].status # "pending" \/ ~(delivery[d].rehearsal \/ Sending(d.to)))
=============================================================================
