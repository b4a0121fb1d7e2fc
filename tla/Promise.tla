------------------------------- MODULE Promise -------------------------------
(***************************************************************************)
(* What the outbox promises of one delivery, whatever workers, leases and  *)
(* connectors do: it is tried at most its budget of times, it is delivered *)
(* only if the receiver answered it, it is dead only when every try is     *)
(* spent, and what ended is only ever forgotten.                           *)
(***************************************************************************)
EXTENDS Naturals

CONSTANT Deliveries

VARIABLE item   \* per delivery: its fate, its tries, its budget, its answer

Fates == {"absent", "pending", "delivered", "dead", "forgotten"}

Init == item = [d \in Deliveries |->
                  [fate |-> "absent", tries |-> 0, budget |-> 0, answered |-> FALSE]]

(* A delivery is offered with a budget of at least one try.                *)
Offer(old, new) ==
  /\ old.fate = "absent" /\ new.fate = "pending"
  /\ new.budget \in Nat \ {0}
  /\ new.tries = old.tries /\ new.answered = old.answered

Try(old, new) ==
  /\ old.fate = "pending" /\ old.tries < old.budget
  /\ new = [old EXCEPT !.tries = @ + 1]

(* The receiver answers a try, perhaps long after the delivery ended.      *)
Answer(old, new) ==
  /\ old.tries > 0 /\ new.answered
  /\ new.fate = old.fate /\ new.tries = old.tries /\ new.budget = old.budget

Deliver(old, new) ==
  /\ old.fate = "pending" /\ old.answered
  /\ new = [old EXCEPT !.fate = "delivered"]

Die(old, new) ==
  /\ old.fate = "pending" /\ old.tries = old.budget
  /\ new = [old EXCEPT !.fate = "dead"]

Forget(old, new) ==
  /\ old.fate \in {"delivered", "dead"}
  /\ new = [old EXCEPT !.fate = "forgotten"]

(* Several deliveries may take a step of theirs at once.                   *)
Moves(old, new) ==
  \/ new = old
  \/ Offer(old, new) \/ Try(old, new) \/ Answer(old, new)
  \/ Deliver(old, new) \/ Die(old, new) \/ Forget(old, new)

Next == /\ item' = [d \in Deliveries |-> item'[d]]
        /\ \A d \in Deliveries : Moves(item[d], item'[d])

Spec == Init /\ [][Next]_item
=============================================================================
