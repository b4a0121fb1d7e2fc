----------------------------- MODULE AgentProofs -----------------------------
(***************************************************************************)
(* What the agent plane keeps of AgentCalls, for every finite number of    *)
(* calls, every set of keys and of what may be asked, every quota and      *)
(* every number of slots.                                                  *)
(***************************************************************************)
EXTENDS AgentCalls, FiniteSetTheorems, TLAPS

Answered(c) == write[c].at \in {"row", "replayed", "rehearsed"}

(* One call: its record says served only of an answer, and its answer is   *)
(* what its data record and its key's claim say.                           *)
CallOK(c) ==
  /\ call[c].at # "idle" => call[c].ask \in Asks /\ call[c].key \in Keys
  /\ call[c].at \in {"idle", "begin", "queued", "tool"} => write[c].at = "no"
  /\ call[c].at = "close" => call[c].outcome \in {"served", "refused", "failed"}
  /\ call[c].outcome = "served" \/ audit[c] = "served" => Answered(c)
  /\ write[c].at \in {"no", "sent"} => data[c] = "none"
  /\ c \in notes => Committed(c)
  /\ Committed(c) =>
       write[c].at = "row" /\ ~call[c].dry /\ claim[call[c].key] # NoClaim
  /\ write[c].at = "row" /\ IsWrite(c) => Committed(c)
  /\ write[c].at = "replayed" =>
       ~call[c].dry /\ claim[call[c].key] # NoClaim /\ SameCall(c)
  /\ write[c].at = "rehearsed" => call[c].dry

(* A key is claimed only by a call that committed under it.                *)
KeyOK(k) ==
  claim[k] # NoClaim =>
    \E d \in Calls : Committed(d) /\ call[d].key = k /\ call[d].ask = claim[k].ask

Working == {c \in Calls : call[c].at = "work"}
InTool(t) == {c \in Calls : call[c].at \in {"tool", "work"} /\ call[c].ask.tool = t}

(* Every slot is free or held by a call that will give it back.            *)
NoSlotLost ==
  /\ free.all = Slots - Cardinality(Working)
  /\ \A t \in Tools : free.tool[t] = ToolSlots - Cardinality(InTool(t))

IInv ==
  /\ TypeOK /\ NoSlotLost /\ WriteOnce
  /\ \A c \in Calls : CallOK(c)
  /\ \A k \in Keys : KeyOK(k)

FreeType == [all : 0..Slots, tool : [Tools -> 0..ToolSlots]]

USE BoundsAssumption

LEMMA InitIInv == Init => IInv
<1>. SUFFICES ASSUME Init PROVE IInv
  OBVIOUS
<1>1. TypeOK
  BY DEF Init, TypeOK, CallRecord, BeginRecord, WriteRecord, Rows, NoClaim, Tools
<1>2. NoSlotLost
  <2>1. Working = {} /\ \A t \in Tools : InTool(t) = {}
    BY DEF Init, Working, InTool
  <2>2. free.all = Slots /\ \A t \in Tools : free.tool[t] = ToolSlots
    BY DEF Init
  <2>3. Cardinality({}) = 0
    BY FS_EmptySet
  <2>. QED
    BY <2>1, <2>2, <2>3 DEF NoSlotLost
<1>3. WriteOnce
  BY DEF Init, WriteOnce, Committed
<1>4. \A c \in Calls : CallOK(c)
  BY DEF Init, CallOK, Committed, Answered, SameCall
<1>5. \A k \in Keys : KeyOK(k)
  BY DEF Init, KeyOK
<1>. QED
  BY <1>1, <1>2, <1>3, <1>4, <1>5 DEF IInv

-----------------------------------------------------------------------------
(* The slots.                                                              *)

LEMMA Finite == \A S \in SUBSET Calls : IsFiniteSet(S) /\ Cardinality(S) \in Nat
BY CallsAssumption, FS_Subset, FS_CardinalityType

LEMMA Added == \A S \in SUBSET Calls, c \in Calls : c \notin S =>
                 Cardinality(S \cup {c}) = Cardinality(S) + 1
BY Finite, FS_AddElement

LEMMA Taken == \A S \in SUBSET Calls : \A c \in S :
                 Cardinality(S \ {c}) = Cardinality(S) - 1
BY Finite, FS_RemoveElement

(* A call that does not hold a slot afterwards has released what it held.  *)
LEMMA ReleasedKeeps ==
  ASSUME TypeOK, NoSlotLost, NEW c \in Calls, NEW r,
         call' = [call EXCEPT ![c] = r], r.at \notin {"tool", "work"},
         call[c].at \in {"tool", "work"} => call[c].ask.tool \in Tools,
         free' = Released(c)
  PROVE  free' \in FreeType /\ NoSlotLost'
<1>0. PICK t : t = call[c].ask.tool
  OBVIOUS
<1>1. call'[c] = r /\ \A d \in Calls : d # c => call'[d] = call[d]
  BY DEF TypeOK
<1>2. /\ Working \in SUBSET Calls /\ \A u \in Tools : InTool(u) \in SUBSET Calls
      /\ Working' = Working \ {c} /\ \A u \in Tools : InTool(u)' = InTool(u) \ {c}
  BY <1>1 DEF Working, InTool
<1>3. /\ free.all \in 0..Slots /\ free.all = Slots - Cardinality(Working)
      /\ \A u \in Tools : /\ free.tool[u] \in 0..ToolSlots
                          /\ free.tool[u] = ToolSlots - Cardinality(InTool(u))
      /\ free \in FreeType
  BY DEF TypeOK, NoSlotLost, FreeType
<1>4. \A S \in SUBSET Calls : Cardinality(S) \in Nat
  BY Finite
<1>5. CASE call[c].at = "work"
  <2>1. c \in Working /\ t \in Tools /\ c \in InTool(t)
    BY <1>0, <1>5 DEF Working, InTool
  <2>2. \A u \in Tools : u # t => c \notin InTool(u)
    BY <1>0 DEF InTool
  <2>3. free' = [all |-> free.all + 1, tool |-> [free.tool EXCEPT ![t] = @ + 1]]
    BY <1>0, <1>5 DEF Released
  <2>4. Cardinality(Working') = Cardinality(Working) - 1
    BY <1>2, <2>1, Taken
  <2>5. Cardinality(InTool(t)') = Cardinality(InTool(t)) - 1
    BY <1>2, <2>1, Taken
  <2>6. \A u \in Tools : u # t => InTool(u)' = InTool(u)
    BY <1>2, <2>2
  <2>7. Working' \in SUBSET Calls /\ \A u \in Tools : InTool(u)' \in SUBSET Calls
    BY <1>2
  <2>. QED
    BY <1>2, <1>3, <1>4, <2>1, <2>3, <2>4, <2>5, <2>6, <2>7 DEF FreeType, NoSlotLost
<1>6. CASE call[c].at = "tool"
  <2>1. c \notin Working /\ t \in Tools /\ c \in InTool(t)
    BY <1>0, <1>6 DEF Working, InTool
  <2>2. \A u \in Tools : u # t => c \notin InTool(u)
    BY <1>0 DEF InTool
  <2>3. free' = [free EXCEPT !.tool[t] = @ + 1]
    BY <1>0, <1>6 DEF Released
  <2>4. Working' = Working
    BY <1>2, <2>1
  <2>5. Cardinality(InTool(t)') = Cardinality(InTool(t)) - 1
    BY <1>2, <2>1, Taken
  <2>6. \A u \in Tools : u # t => InTool(u)' = InTool(u)
    BY <1>2, <2>2
  <2>7. Cardinality(InTool(t)') \in Nat /\ Cardinality(InTool(t)) \in Nat
    BY <1>2, <1>4, <2>1
  <2>8. free.tool[t] + 1 \in 0..ToolSlots
        /\ free.tool[t] + 1 = ToolSlots - Cardinality(InTool(t)')
    BY <1>3, <2>1, <2>5, <2>7
  <2>9. /\ free'.all = free.all /\ free'.tool[t] = free.tool[t] + 1
        /\ \A u \in Tools : u # t => free'.tool[u] = free.tool[u]
        /\ free' \in FreeType
    BY <1>3, <2>1, <2>3, <2>8 DEF FreeType
  <2>. QED
    BY <1>3, <2>4, <2>6, <2>8, <2>9 DEF NoSlotLost
<1>7. CASE call[c].at \notin {"tool", "work"}
  <2>1. free' = free
    BY <1>7 DEF Released
  <2>2. Working' = Working /\ \A u \in Tools : InTool(u)' = InTool(u)
    BY <1>2, <1>7 DEF Working, InTool
  <2>. QED
    BY <1>3, <2>1, <2>2 DEF NoSlotLost
<1>. QED
  BY <1>5, <1>6, <1>7

(* A call that takes a slot took one that was free.                        *)
LEMMA TakeToolSlotSlots ==
  ASSUME TypeOK, NoSlotLost, NEW c \in Calls, TakeToolSlot(c), call[c].ask.tool \in Tools
  PROVE  free' \in FreeType /\ NoSlotLost'
<1>0. PICK t \in Tools : t = call[c].ask.tool
  OBVIOUS
<1>1. /\ call[c].at = "queued" /\ free.tool[t] > 0
      /\ free' = [free EXCEPT !.tool[t] = @ - 1]
      /\ call'[c] = [call[c] EXCEPT !.at = "tool"]
      /\ \A d \in Calls : d # c => call'[d] = call[d]
      /\ call[c] \in CallRecord
  BY <1>0 DEF TakeToolSlot, TypeOK
<1>2. call'[c].at = "tool" /\ call'[c].ask = call[c].ask
  BY <1>1 DEF CallRecord
<1>3. /\ Working' = Working /\ InTool(t)' = InTool(t) \cup {c} /\ c \notin InTool(t)
      /\ \A u \in Tools : InTool(u) \in SUBSET Calls /\ (u # t => InTool(u)' = InTool(u))
  <2>1. Working' = Working
    BY <1>1, <1>2 DEF Working
  <2>2. InTool(t)' = InTool(t) \cup {c} /\ c \notin InTool(t)
    BY <1>0, <1>1, <1>2 DEF InTool
  <2>3. ASSUME NEW u \in Tools, u # t PROVE InTool(u)' = InTool(u)
    BY <1>0, <1>1, <1>2, <2>3 DEF InTool
  <2>4. \A u \in Tools : InTool(u) \in SUBSET Calls
    BY DEF InTool
  <2>. QED
    BY <2>1, <2>2, <2>3, <2>4
<1>4. Cardinality(InTool(t)') = Cardinality(InTool(t)) + 1
  BY <1>3, Added
<1>5. Cardinality(InTool(t)) \in Nat
  BY <1>3, Finite
<1>6. free \in FreeType /\ free.all = Slots - Cardinality(Working)
      /\ \A u \in Tools : free.tool[u] = ToolSlots - Cardinality(InTool(u))
  BY DEF TypeOK, FreeType, NoSlotLost
<1>7. free.tool[t] - 1 \in 0..ToolSlots
      /\ free.tool[t] - 1 = ToolSlots - Cardinality(InTool(t)')
  BY <1>1, <1>4, <1>5, <1>6 DEF FreeType
<1>8. /\ free'.all = free.all /\ free'.tool[t] = free.tool[t] - 1
      /\ \A u \in Tools : u # t => free'.tool[u] = free.tool[u]
      /\ free' \in FreeType
  BY <1>1, <1>6, <1>7 DEF FreeType
<1>. QED
  BY <1>3, <1>6, <1>7, <1>8 DEF NoSlotLost

LEMMA TakeSlotSlots ==
  ASSUME TypeOK, NoSlotLost, NEW c \in Calls, TakeSlot(c)
  PROVE  free' \in FreeType /\ NoSlotLost'
<1>1. /\ call[c].at = "tool" /\ free.all > 0
      /\ free' = [free EXCEPT !.all = @ - 1]
      /\ call'[c] = [call[c] EXCEPT !.at = "work"]
      /\ \A d \in Calls : d # c => call'[d] = call[d]
      /\ call[c] \in CallRecord
  BY DEF TakeSlot, TypeOK
<1>2. call'[c].at = "work" /\ call'[c].ask = call[c].ask
  BY <1>1 DEF CallRecord
<1>3. /\ Working' = Working \cup {c} /\ c \notin Working /\ Working \in SUBSET Calls
      /\ \A u \in Tools : InTool(u)' = InTool(u)
  BY <1>1, <1>2 DEF Working, InTool
<1>4. Cardinality(Working') = Cardinality(Working) + 1
  BY <1>3, Added
<1>5. Cardinality(Working) \in Nat
  BY <1>3, Finite
<1>. QED
  BY <1>1, <1>3, <1>4, <1>5 DEF TypeOK, FreeType, NoSlotLost

-----------------------------------------------------------------------------
(* The runtime's steps.                                                    *)

(* A step of one call in the runtime leaves the rows alone.                *)
LEMMA RuntimeKeeps ==
  ASSUME IInv, NEW c \in Calls, NEW r \in CallRecord,
         call' = [call EXCEPT ![c] = r],
         call[c].at # "idle" => r.ask = call[c].ask /\ r.key = call[c].key /\ r.dry = call[c].dry,
         begin' \in [Calls -> BeginRecord],
         write' = [write EXCEPT ![c] = write'[c]], write'[c] \in WriteRecord,
         write'[c] = write[c] \/ (write[c].at = "no" /\ write'[c].at = "sent"),
         audit' = [audit EXCEPT ![c] = audit'[c]],
         audit'[c] \in {"none", "started", "served", "refused", "failed"},
         UNCHANGED <<data, quota, now, claim, notes, task>>,
         free' \in FreeType, NoSlotLost', CallOK(c)'
  PROVE  IInv'
<1>1. /\ call'[c] = r
      /\ \A d \in Calls : d # c =>
           call'[d] = call[d] /\ write'[d] = write[d] /\ audit'[d] = audit[d]
      /\ data' = data /\ quota' = quota /\ now' = now /\ claim' = claim /\ notes' = notes
      /\ task' = task
  BY DEF IInv, TypeOK
<1>2. TypeOK'
  BY <1>1 DEF IInv, TypeOK, FreeType
<1>3. ASSUME NEW d \in Calls PROVE CallOK(d)'
  <2>1. CASE d = c
    BY <2>1
  <2>2. CASE d # c
    BY <1>1, <2>2 DEF IInv, CallOK, Committed, Answered, IsWrite, SameCall
  <2>. QED
    BY <2>1, <2>2
<1>4. \A d \in Calls : Committed(d) =>
        /\ Committed(d)' /\ call'[d].key = call[d].key /\ call'[d].ask = call[d].ask
  BY <1>1 DEF IInv, CallOK, Committed
<1>5. \A d \in Calls : Committed(d)' => Committed(d)
  BY <1>1 DEF Committed
<1>6. WriteOnce'
  BY <1>4, <1>5 DEF IInv, WriteOnce
<1>7. \A k \in Keys : KeyOK(k)'
  BY <1>1, <1>4 DEF IInv, KeyOK
<1>. QED
  BY <1>2, <1>3, <1>6, <1>7 DEF IInv

LEMMA CallKeeps == ASSUME IInv, NEW c \in Calls, Call(c) PROVE IInv'
<1>1. PICK a \in Asks, k \in Keys, dry \in BOOLEAN :
        call' = [call EXCEPT ![c].at = "begin", ![c].ask = a, ![c].key = k, ![c].dry = dry]
  BY DEF Call
<1>. DEFINE r == [call[c] EXCEPT !.at = "begin", !.ask = a, !.key = k, !.dry = dry]
<1>2. call[c] \in CallRecord /\ call[c].at = "idle" /\ CallOK(c)
  BY DEF IInv, TypeOK, Call
<1>3. /\ r \in CallRecord /\ r.at = "begin" /\ r.ask = a /\ r.key = k
      /\ r.outcome = call[c].outcome
  BY <1>2 DEF CallRecord
<1>4. call' = [call EXCEPT ![c] = r] /\ call'[c] = r
  BY <1>1 DEF IInv, TypeOK
<1>5. /\ write' = write /\ audit' = audit /\ data' = data /\ quota' = quota /\ now' = now
      /\ claim' = claim /\ notes' = notes /\ task' = task /\ free' = free
      /\ begin' \in [Calls -> BeginRecord]
  BY DEF Call, IInv, TypeOK, BeginRecord
<1>6. free' = Released(c)
  BY <1>2, <1>5 DEF Released
<1>. HIDE DEF r
<1>7. free' \in FreeType /\ NoSlotLost'
  BY <1>2, <1>3, <1>4, <1>6, ReleasedKeeps DEF IInv
<1>8. CallOK(c)'
  BY <1>2, <1>3, <1>4, <1>5 DEF CallOK, Answered, Committed, IsWrite, SameCall
<1>. QED
  BY <1>2, <1>3, <1>4, <1>5, <1>7, <1>8, RuntimeKeeps DEF IInv, TypeOK

(* The other steps move a call on, with what it asked unchanged.           *)
LEMMA MovesKeep ==
  ASSUME IInv, NEW c \in Calls, call[c].at # "idle", NEW r \in CallRecord,
         call' = [call EXCEPT ![c] = r],
         r.ask = call[c].ask, r.key = call[c].key, r.dry = call[c].dry,
         r.at \notin {"tool", "work"}, free' = Released(c),
         r.at \in {"idle", "begin", "queued", "tool"} => call[c].at \in {"begin", "queued", "tool"},
         r.at = "close" => r.outcome \in {"served", "refused", "failed"},
         r.outcome = "served" => Answered(c),
         audit' = [audit EXCEPT ![c] = audit'[c]],
         audit'[c] \in {"none", "started", "served", "refused", "failed"},
         audit'[c] = "served" => Answered(c),
         UNCHANGED <<begin, write, data, quota, now, claim, notes, task>>
  PROVE  IInv'
<1>1. CallOK(c) /\ call'[c] = r
  BY DEF IInv, TypeOK
<1>2. r.ask.tool \in Tools /\ r.ask \in Asks /\ r.key \in Keys
  BY <1>1, AsksAssumption DEF CallOK
<1>3. free' \in FreeType /\ NoSlotLost'
  BY <1>2, ReleasedKeeps DEF IInv
<1>4. CallOK(c)'
  BY <1>1, <1>2 DEF CallOK, Answered, Committed, IsWrite, SameCall
<1>5. /\ write' = [write EXCEPT ![c] = write'[c]] /\ write'[c] \in WriteRecord
      /\ begin' \in [Calls -> BeginRecord] /\ write'[c] = write[c]
  BY DEF IInv, TypeOK
<1>. QED
  BY <1>3, <1>4, <1>5, RuntimeKeeps

LEMMA EndsKeep ==
  ASSUME IInv, NEW c \in Calls, call[c].at # "idle",
         NEW o \in {"refused", "cancelled"}, Ends(c, o), free' = Released(c),
         UNCHANGED <<begin, write, audit, data, quota, now, claim, notes, task>>
  PROVE  IInv'
<1>. DEFINE r == [call[c] EXCEPT !.at = "done", !.outcome = o]
<1>1. call[c] \in CallRecord /\ CallOK(c)
  BY DEF IInv, TypeOK
<1>2. /\ r \in CallRecord /\ r.at = "done" /\ r.outcome = o
      /\ r.ask = call[c].ask /\ r.key = call[c].key /\ r.dry = call[c].dry
  BY <1>1 DEF CallRecord
<1>3. call' = [call EXCEPT ![c] = r]
  BY DEF Ends, IInv, TypeOK
<1>4. /\ audit' = [audit EXCEPT ![c] = audit'[c]]
      /\ audit'[c] \in {"none", "started", "served", "refused", "failed"}
      /\ audit'[c] = audit[c]
  BY DEF IInv, TypeOK
<1>. HIDE DEF r
<1>. QED
  BY <1>1, <1>2, <1>3, <1>4, MovesKeep DEF CallOK

(* Going on to wait for the tool's slot.                                   *)
LEMMA QueuesKeep ==
  ASSUME IInv, NEW c \in Calls, call[c].at = "begin", NEW recorded \in BOOLEAN,
         call' = [call EXCEPT ![c].at = "queued", ![c].recorded = recorded],
         UNCHANGED <<begin, write, audit, data, quota, now, claim, notes, task, free>>
  PROVE  IInv'
<1>. DEFINE r == [call[c] EXCEPT !.at = "queued", !.recorded = recorded]
<1>1. call[c] \in CallRecord /\ CallOK(c)
  BY DEF IInv, TypeOK
<1>2. /\ r \in CallRecord /\ r.at = "queued" /\ r.outcome = call[c].outcome
      /\ r.ask = call[c].ask /\ r.key = call[c].key /\ r.dry = call[c].dry
  BY <1>1 DEF CallRecord
<1>3. call' = [call EXCEPT ![c] = r]
  BY DEF IInv, TypeOK
<1>4. /\ audit' = [audit EXCEPT ![c] = audit'[c]]
      /\ audit'[c] \in {"none", "started", "served", "refused", "failed"}
      /\ audit'[c] = audit[c]
  BY DEF IInv, TypeOK
<1>5. free' = Released(c)
  BY DEF Released
<1>. HIDE DEF r
<1>. QED
  BY <1>1, <1>2, <1>3, <1>4, <1>5, MovesKeep DEF CallOK

LEMMA OpenedKeeps == ASSUME IInv, NEW c \in Calls, Opened(c) PROVE IInv'
BY QueuesKeep DEF Opened

LEMMA QuotaSpentKeeps == ASSUME IInv, NEW c \in Calls, QuotaSpent(c) PROVE IInv'
BY EndsKeep DEF QuotaSpent, Released

LEMMA CancelledKeeps == ASSUME IInv, NEW c \in Calls, Cancelled(c) PROVE IInv'
BY EndsKeep DEF Cancelled

LEMMA NotOpenedKeeps == ASSUME IInv, NEW c \in Calls, NotOpened(c) PROVE IInv'
<1>1. CASE IsWrite(c)
  <2>1. Ends(c, "refused") /\ call[c].at = "begin" /\ free' = Released(c)
        /\ UNCHANGED <<begin, write, audit, data, quota, now, claim, notes, task>>
    BY <1>1 DEF NotOpened, Released
  <2>. QED
    BY <2>1, EndsKeep
<1>2. CASE ~IsWrite(c)
  <2>1. call' = [call EXCEPT ![c].at = "queued", ![c].recorded = call[c].recorded]
    BY <1>2 DEF NotOpened, IInv, TypeOK, CallRecord
  <2>2. call[c].recorded \in BOOLEAN
    BY DEF IInv, TypeOK, CallRecord
  <2>. QED
    BY <2>1, <2>2, QueuesKeep DEF NotOpened
<1>. QED
  BY <1>1, <1>2

(* A call leaves its work as served only with an answer.                   *)
LEMMA LeavesKeep ==
  ASSUME IInv, NEW c \in Calls, NEW outcomes,
         outcomes \subseteq {"served", "refused", "failed"}, Leaves(c, outcomes),
         "served" \in outcomes => Answered(c)
  PROVE  IInv'
<1>1. PICK o \in outcomes : call' = [call EXCEPT ![c].at = "close", ![c].outcome = o]
  BY DEF Leaves
<1>. DEFINE r == [call[c] EXCEPT !.at = "close", !.outcome = o]
<1>2. call[c] \in CallRecord /\ CallOK(c) /\ call[c].at = "work"
  BY DEF IInv, TypeOK, Leaves
<1>3. /\ r \in CallRecord /\ r.at = "close" /\ r.outcome = o
      /\ r.ask = call[c].ask /\ r.key = call[c].key /\ r.dry = call[c].dry
  BY <1>2 DEF CallRecord
<1>4. call' = [call EXCEPT ![c] = r]
  BY <1>1 DEF IInv, TypeOK
<1>5. /\ audit' = [audit EXCEPT ![c] = audit'[c]]
      /\ audit'[c] \in {"none", "started", "served", "refused", "failed"}
      /\ audit'[c] = audit[c]
      /\ free' = Released(c)
      /\ UNCHANGED <<begin, write, data, quota, now, claim, notes, task>>
  BY DEF Leaves, IInv, TypeOK
<1>. HIDE DEF r
<1>. QED
  BY <1>2, <1>3, <1>4, <1>5, MovesKeep DEF CallOK

LEMMA CloseKeeps == ASSUME IInv, NEW c \in Calls, Close(c) PROVE IInv'
<1>. DEFINE r == [call[c] EXCEPT !.at = "done"]
<1>1. call[c] \in CallRecord /\ CallOK(c) /\ call[c].at = "close"
  BY DEF IInv, TypeOK, Close
<1>2. /\ r \in CallRecord /\ r.at = "done" /\ r.outcome = call[c].outcome
      /\ r.ask = call[c].ask /\ r.key = call[c].key /\ r.dry = call[c].dry
  BY <1>1 DEF CallRecord
<1>3. call' = [call EXCEPT ![c] = r]
  BY DEF Close, IInv, TypeOK
<1>4. /\ audit' = [audit EXCEPT ![c] = audit'[c]]
      /\ audit'[c] \in {audit[c], call[c].outcome}
      /\ audit[c] \in {"none", "started", "served", "refused", "failed"}
  BY DEF Close, IInv, TypeOK
<1>5. free' = Released(c) /\ UNCHANGED <<begin, write, data, quota, now, claim, notes, task>>
  BY <1>1 DEF Close, Released
<1>. HIDE DEF r
<1>. QED
  BY <1>1, <1>2, <1>3, <1>4, <1>5, MovesKeep DEF CallOK

LEMMA TakeToolSlotKeeps == ASSUME IInv, NEW c \in Calls, TakeToolSlot(c) PROVE IInv'
<1>. DEFINE r == [call[c] EXCEPT !.at = "tool"]
<1>1. call[c] \in CallRecord /\ CallOK(c) /\ call[c].at = "queued"
  BY DEF IInv, TypeOK, TakeToolSlot
<1>2. /\ r \in CallRecord /\ r.at = "tool" /\ r.outcome = call[c].outcome
      /\ r.ask = call[c].ask /\ r.key = call[c].key /\ r.dry = call[c].dry
  BY <1>1 DEF CallRecord
<1>3. call' = [call EXCEPT ![c] = r] /\ call'[c] = r
  BY DEF TakeToolSlot, IInv, TypeOK
<1>4. /\ UNCHANGED <<begin, write, audit, data, quota, now, claim, notes, task>>
      /\ write' = [write EXCEPT ![c] = write'[c]] /\ write'[c] \in WriteRecord
      /\ audit' = [audit EXCEPT ![c] = audit'[c]]
      /\ audit'[c] \in {"none", "started", "served", "refused", "failed"}
      /\ begin' \in [Calls -> BeginRecord]
  BY DEF TakeToolSlot, IInv, TypeOK
<1>5. free' \in FreeType /\ NoSlotLost'
  BY <1>1, TakeToolSlotSlots, AsksAssumption DEF IInv, CallOK
<1>. HIDE DEF r
<1>6. CallOK(c)'
  BY <1>1, <1>2, <1>3, <1>4 DEF CallOK, Answered, Committed, IsWrite, SameCall
<1>. QED
  BY <1>2, <1>3, <1>4, <1>5, <1>6, RuntimeKeeps

LEMMA TakeSlotKeeps == ASSUME IInv, NEW c \in Calls, TakeSlot(c) PROVE IInv'
<1>. DEFINE r == [call[c] EXCEPT !.at = "work"]
<1>1. call[c] \in CallRecord /\ CallOK(c) /\ call[c].at = "tool" /\ write[c] \in WriteRecord
  BY DEF IInv, TypeOK, TakeSlot
<1>2. /\ r \in CallRecord /\ r.at = "work" /\ r.outcome = call[c].outcome
      /\ r.ask = call[c].ask /\ r.key = call[c].key /\ r.dry = call[c].dry
  BY <1>1 DEF CallRecord
<1>3. call' = [call EXCEPT ![c] = r] /\ call'[c] = r
  BY DEF TakeSlot, IInv, TypeOK
<1>4. /\ UNCHANGED <<begin, audit, data, quota, now, claim, notes, task>>
      /\ write' = [write EXCEPT ![c] = write'[c]]
      /\ write'[c] = [write[c] EXCEPT !.at = "sent"]
      /\ audit' = [audit EXCEPT ![c] = audit'[c]]
      /\ audit'[c] \in {"none", "started", "served", "refused", "failed"}
      /\ begin' \in [Calls -> BeginRecord]
  BY DEF TakeSlot, IInv, TypeOK
<1>5. free' \in FreeType /\ NoSlotLost'
  BY TakeSlotSlots DEF IInv
<1>6. write'[c] \in WriteRecord /\ write'[c].at = "sent" /\ write[c].at = "no"
  BY <1>1, <1>4 DEF WriteRecord, CallOK
<1>. HIDE DEF r
<1>7. CallOK(c)'
  BY <1>1, <1>2, <1>3, <1>4, <1>6 DEF CallOK, Answered, Committed, IsWrite, SameCall
<1>. QED
  BY <1>2, <1>3, <1>4, <1>5, <1>6, <1>7, RuntimeKeeps

LEMMA RuntimeStep == ASSUME IInv, NEW c \in Calls, Runtime(c) PROVE IInv'
<1>1. CASE Served(c)
  BY <1>1, LeavesKeep DEF Served, Answered
<1>2. CASE Refused(c)
  BY <1>2, LeavesKeep DEF Refused
<1>3. CASE Unanswered(c)
  BY <1>3, LeavesKeep DEF Unanswered
<1>. QED
  BY <1>1, <1>2, <1>3, CallKeeps, OpenedKeeps, QuotaSpentKeeps, NotOpenedKeeps,
     TakeToolSlotKeeps, TakeSlotKeeps, CloseKeeps, CancelledKeeps DEF Runtime

-----------------------------------------------------------------------------
(* The database's steps.                                                   *)

(* Slots are the runtime's, so no statement moves one.                     *)
LEMMA SlotsUntouched ==
  ASSUME NoSlotLost, call' = call, free' = free
  PROVE  NoSlotLost'
BY DEF NoSlotLost, Working, InTool

LEMMA ReadWindowKeeps == ASSUME IInv, NEW c \in Calls, ReadWindow(c) PROVE IInv'
<1>1. TypeOK'
  BY DEF IInv, TypeOK, ReadWindow, BeginRecord
<1>2. NoSlotLost'
  BY SlotsUntouched DEF IInv, ReadWindow
<1>. QED
  BY <1>1, <1>2 DEF IInv, ReadWindow, WriteOnce, CallOK, KeyOK, Committed, Answered, IsWrite,
                    SameCall

LEMMA CountKeeps == ASSUME IInv, NEW c \in Calls, Count(c) PROVE IInv'
<1>1. begin[c] \in BeginRecord /\ quota \in [window : 0..MaxWindow, calls : Nat]
  BY DEF IInv, TypeOK
<1>2. Counted(begin[c].seen) \in [window : 0..MaxWindow, calls : Nat]
  BY <1>1 DEF Counted, BeginRecord
<1>3. audit'[c] # "served" /\ \A d \in Calls : d # c => audit'[d] = audit[d]
  BY DEF IInv, TypeOK, Count
<1>4. TypeOK'
  BY <1>1, <1>2 DEF IInv, TypeOK, Count, BeginRecord
<1>5. NoSlotLost'
  BY SlotsUntouched DEF IInv, Count
<1>6. ASSUME NEW d \in Calls PROVE CallOK(d)'
  BY <1>3 DEF IInv, Count, CallOK, Committed, Answered, IsWrite, SameCall
<1>. QED
  BY <1>4, <1>5, <1>6 DEF IInv, Count, WriteOnce, KeyOK, Committed

(* An answer that commits nothing.                                         *)
LEMMA AnswersKeep ==
  ASSUME IInv, NEW c \in Calls, write[c].at = "sent",
         NEW at \in {"row", "replayed", "rehearsed", "conflict", "bound"}, NEW r \in Rows,
         Answers(c, at, r), data' = [data EXCEPT ![c] = data'[c]],
         data'[c] \in {"none", "replayed", "dry_run"},
         at = "row" => ~IsWrite(c),
         at = "replayed" => ~call[c].dry /\ claim[call[c].key] # NoClaim /\ SameCall(c),
         at = "rehearsed" => call[c].dry,
         UNCHANGED <<call, begin, audit, quota, now, claim, notes, task, free>>
  PROVE  IInv'
<1>1. /\ write'[c] = [at |-> at, row |-> r] /\ write' \in [Calls -> WriteRecord]
      /\ \A d \in Calls : d # c => write'[d] = write[d] /\ data'[d] = data[d]
  BY DEF Answers, IInv, TypeOK, WriteRecord
<1>2. CallOK(c) /\ data[c] = "none" /\ ~Committed(c) /\ ~Committed(c)'
  BY DEF IInv, TypeOK, CallOK, Committed
<1>3. TypeOK'
  <2>1. data' \in [Calls -> {"none", "committed", "replayed", "dry_run"}]
    BY DEF IInv, TypeOK
  <2>. QED
    BY <1>1, <2>1 DEF IInv, TypeOK
<1>4. NoSlotLost'
  BY SlotsUntouched DEF IInv
<1>5. \A d \in Calls : Committed(d)' <=> Committed(d)
  BY <1>1, <1>2 DEF Committed
<1>6. ASSUME NEW d \in Calls PROVE CallOK(d)'
  <2>1. CASE d = c
    BY <1>1, <1>2, <2>1 DEF CallOK, Committed, Answered, IsWrite, SameCall
  <2>2. CASE d # c
    BY <1>1, <2>2 DEF IInv, CallOK, Committed, Answered, IsWrite, SameCall
  <2>. QED
    BY <2>1, <2>2
<1>7. WriteOnce' /\ \A k \in Keys : KeyOK(k)'
  BY <1>5 DEF IInv, WriteOnce, KeyOK
<1>. QED
  BY <1>3, <1>4, <1>6, <1>7 DEF IInv

LEMMA QueryKeeps == ASSUME IInv, NEW c \in Calls, Query(c) PROVE IInv'
<1>1. /\ write[c].at = "sent" /\ ~IsWrite(c) /\ None \in Rows
      /\ Answers(c, "row", None)
      /\ UNCHANGED <<call, begin, audit, data, quota, now, claim, notes, task, free>>
  BY DEF Query, Sent, IsWrite, Writes, Rows
<1>2. data' = [data EXCEPT ![c] = data'[c]] /\ data'[c] = "none"
  BY <1>1 DEF IInv, TypeOK, CallOK
<1>. QED
  BY <1>1, <1>2, AnswersKeep

LEMMA RehearseKeeps == ASSUME IInv, NEW c \in Calls, Rehearse(c) PROVE IInv'
<1>1. /\ write[c].at = "sent" /\ call[c].dry
      /\ UNCHANGED <<call, begin, audit, quota, now, claim, notes, task, free>>
      /\ data' = [data EXCEPT ![c] = data'[c]] /\ data'[c] = "dry_run"
  BY DEF Rehearse, Sent, IInv, TypeOK
<1>2. PICK r \in Rows : Answers(c, "rehearsed", r)
  BY DEF Rehearse, Rows
<1>. QED
  BY <1>1, <1>2, AnswersKeep

LEMMA Asked ==
  ASSUME IInv, NEW c \in Calls, write[c].at = "sent"
  PROVE  call[c].ask \in Asks /\ call[c].key \in Keys /\ call[c].ask # None
BY NoneElsewhere DEF IInv, CallOK

LEMMA ReplayKeeps == ASSUME IInv, NEW c \in Calls, Replay(c) PROVE IInv'
<1>1. /\ write[c].at = "sent" /\ ~call[c].dry /\ claim[call[c].key] # NoClaim /\ SameCall(c)
      /\ Answers(c, "replayed", claim[call[c].key].row)
      /\ UNCHANGED <<call, begin, audit, quota, now, claim, notes, task, free>>
      /\ data' = [data EXCEPT ![c] = data'[c]] /\ data'[c] = "replayed"
  BY DEF Replay, Sent, Spent, IInv, TypeOK
<1>2. claim[call[c].key].row \in Rows
  BY <1>1, Asked DEF IInv, TypeOK
<1>. QED
  BY <1>1, <1>2, AnswersKeep

LEMMA RefusalsKeep ==
  ASSUME IInv, NEW c \in Calls, BoundElsewhere(c) \/ Conflict(c)
  PROVE  IInv'
<1>1. /\ write[c].at = "sent" /\ None \in Rows
      /\ UNCHANGED <<call, begin, audit, data, quota, now, claim, notes, task, free>>
  BY DEF BoundElsewhere, Conflict, Sent, Rows
<1>2. PICK at \in {"bound", "conflict"} : Answers(c, at, None)
  BY DEF BoundElsewhere, Conflict
<1>3. data' = [data EXCEPT ![c] = data'[c]] /\ data'[c] = "none"
  BY <1>1 DEF IInv, TypeOK, CallOK
<1>. QED
  BY <1>1, <1>2, <1>3, AnswersKeep

(* A write commits under a key that no other has: everything a key was     *)
(* claimed by before is another key's.                                     *)
LEMMA CommitKeeps == ASSUME IInv, NEW c \in Calls, Commit(c) PROVE IInv'
<1>1. PICK k \in Keys, a \in Asks : k = call[c].key /\ a = call[c].ask
  BY Asked DEF Commit, Sent
<1>2. /\ write[c].at = "sent" /\ ~call[c].dry /\ claim[k] = NoClaim
      /\ call' = call /\ begin' = begin /\ audit' = audit /\ quota' = quota
      /\ now' = now /\ free' = free
  BY <1>1 DEF Commit, Sent, Spent
<1>3. /\ write'[c] = [at |-> "row", row |-> RowOf(c)] /\ write' \in [Calls -> WriteRecord]
      /\ data'[c] = "committed"
      /\ \A d \in Calls : d # c => write'[d] = write[d] /\ data'[d] = data[d]
  <2>1. RowOf(c) \in Rows
    BY DEF RowOf, Rows
  <2>. QED
    BY <2>1 DEF Commit, Answers, IInv, TypeOK, WriteRecord
<1>4. /\ claim'[k] = [ask |-> a, row |-> RowOf(c)]
      /\ \A l \in Keys : l # k => claim'[l] = claim[l]
      /\ claim' \in [Keys -> [ask : Asks \cup {None}, row : Rows]]
  <2>1. RowOf(c) \in Rows
    BY DEF RowOf, Rows
  <2>. QED
    BY <1>1, <2>1 DEF Commit, Claims, IInv, TypeOK
<1>5. claim'[k] # NoClaim /\ claim'[k].ask = a
  BY <1>4, NoneElsewhere DEF NoClaim
<1>6. TypeOK'
  <2>1. notes' \subseteq Calls
    BY DEF Commit, IInv, TypeOK
  <2>2. task' \in Statuses
    <3>1. call[c].ask.tool # "create_note" => call[c].ask.tool = "update_task_status"
      BY DEF Commit, Sent, Writes
    <3>. QED
      BY <1>1, <3>1, AsksAssumption DEF Commit, IInv, TypeOK
  <2>3. data' \in [Calls -> {"none", "committed", "replayed", "dry_run"}]
    BY DEF Commit, IInv, TypeOK
  <2>. QED
    BY <1>2, <1>3, <1>4, <2>1, <2>2, <2>3 DEF IInv, TypeOK
<1>7. NoSlotLost'
  BY <1>2, SlotsUntouched DEF IInv
<1>8. ASSUME NEW d \in Calls, d # c
      PROVE  /\ Committed(d)' <=> Committed(d)
             /\ Committed(d) \/ write[d].at = "replayed" => call[d].key \in Keys \ {k}
  <2>1. call[d].at # "idle" \/ write[d].at = "no"
    BY DEF IInv, CallOK
  <2>2. CallOK(d)
    BY DEF IInv
  <2>. QED
    BY <1>2, <1>3, <1>8, <2>1, <2>2 DEF CallOK, Committed
<1>9. ASSUME NEW d \in Calls PROVE CallOK(d)'
  <2>1. CASE d = c
    <3>1. CallOK(c) /\ IsWrite(c)
      BY DEF IInv, Commit, Sent, IsWrite
    <3>. QED
      BY <1>1, <1>2, <1>3, <1>5, <2>1, <3>1 DEF CallOK, Committed, Answered, IsWrite, SameCall
  <2>2. CASE d # c
    <3>1. CallOK(d)
      BY DEF IInv
    <3>2. d \in notes' <=> d \in notes
      BY <2>2 DEF Commit
    <3>. QED
      BY <1>2, <1>3, <1>4, <1>8, <2>2, <3>1, <3>2
      DEF CallOK, Committed, Answered, IsWrite, SameCall
  <2>. QED
    BY <2>1, <2>2
<1>10. WriteOnce'
  <2>1. \A d \in Calls : d # c /\ Committed(d)' => call'[d].key # k
    BY <1>2, <1>8
  <2>. QED
    BY <1>1, <1>2, <1>8, <2>1 DEF IInv, WriteOnce
<1>11. ASSUME NEW l \in Keys PROVE KeyOK(l)'
  <2>1. CASE l = k
    BY <1>1, <1>2, <1>3, <1>5, <2>1 DEF KeyOK, Committed
  <2>2. CASE l # k
    <3>1. KeyOK(l) /\ ~Committed(c)
      BY <1>2 DEF IInv, CallOK, Committed
    <3>. QED
      BY <1>2, <1>4, <1>8, <2>2, <3>1 DEF KeyOK
  <2>. QED
    BY <2>1, <2>2
<1>. QED
  BY <1>6, <1>7, <1>9, <1>10, <1>11 DEF IInv

LEMMA DatabaseStep == ASSUME IInv, NEW c \in Calls, Database(c) PROVE IInv'
BY ReadWindowKeeps, CountKeeps, QueryKeeps, RehearseKeeps, ReplayKeeps, RefusalsKeep, CommitKeeps
   DEF Database

-----------------------------------------------------------------------------
(* The theorems.                                                           *)

LEMMA StepIInv == IInv /\ [Next]_vars => IInv'
<1>. SUFFICES ASSUME IInv, [Next]_vars PROVE IInv'
  OBVIOUS
<1>1. ASSUME UNCHANGED <<call, begin, write, audit, data, quota, claim, notes, free>>,
             now' \in 0..MaxWindow, task' \in Statuses
      PROVE  IInv'
  <2>1. TypeOK'
    BY <1>1 DEF IInv, TypeOK
  <2>2. NoSlotLost'
    BY <1>1, SlotsUntouched DEF IInv
  <2>. QED
    BY <1>1, <2>1, <2>2
    DEF IInv, WriteOnce, CallOK, KeyOK, Committed, Answered, IsWrite, SameCall
<1>2. CASE Person
  BY <1>1, <1>2 DEF Person, IInv, TypeOK
<1>3. CASE NextWindow
  BY <1>1, <1>3 DEF NextWindow, IInv, TypeOK
<1>4. CASE UNCHANGED vars
  BY <1>1, <1>4 DEF vars, IInv, TypeOK
<1>. QED
  BY <1>2, <1>3, <1>4, RuntimeStep, DatabaseStep DEF Next

LEMMA Invariant == Spec => []IInv
BY InitIInv, StepIInv, PTL DEF Spec

(* The rows, the records and the calls keep their types: no more slots are *)
(* ever free than there are.                                               *)
THEOREM AgentTypeCorrect == Spec => []TypeOK
<1>1. IInv => TypeOK
  BY DEF IInv
<1>. QED
  BY <1>1, Invariant, PTL

(* Every slot is free or held by a call under way, however calls end       *)
(* (mcp_budgets.slot and bounded's async with).                            *)
THEOREM SlotsAreKept == Spec => []NoSlotLost
<1>1. IInv => NoSlotLost
  BY DEF IInv
<1>. QED
  BY <1>1, Invariant, PTL

(* One call of a key writes, whatever is repeated, late or lost            *)
(* (agent_idempotency_begin).                                              *)
THEOREM OneWritePerKey == Spec => []WriteOnce
<1>1. IInv => WriteOnce
  BY DEF IInv
<1>. QED
  BY <1>1, Invariant, PTL

(* A record closed as served describes a write that is committed, or a     *)
(* rehearsal that is not (agent_audit_complete).                           *)
THEOREM RecordsAreTrue == Spec => []ServedIsTrue
<1>1. IInv => ServedIsTrue
  <2>. SUFFICES ASSUME IInv, NEW c \in Calls, audit[c] = "served", IsWrite(c)
                PROVE  IF call[c].dry THEN ~Committed(c) /\ c \notin notes
                       ELSE \E d \in Calls : Committed(d) /\ SameIntent(c, d) /\ ~call[d].dry
    BY DEF ServedIsTrue
  <2>1. CallOK(c) /\ Answered(c) /\ \A d \in Calls : Committed(d) => ~call[d].dry
    BY DEF IInv, CallOK
  <2>2. CASE call[c].dry
    BY <2>1, <2>2 DEF CallOK
  <2>3. CASE ~call[c].dry /\ write[c].at = "row"
    BY <2>1, <2>3 DEF CallOK, SameIntent
  <2>4. CASE ~call[c].dry /\ write[c].at = "replayed"
    <3>1. call[c].key \in Keys /\ claim[call[c].key] # NoClaim /\ SameCall(c)
      BY <2>1, <2>4 DEF CallOK
    <3>2. PICK d \in Calls : /\ Committed(d) /\ call[d].key = call[c].key
                             /\ call[d].ask = claim[call[c].key].ask
      BY <3>1 DEF IInv, KeyOK
    <3>. QED
      BY <2>1, <2>4, <3>1, <3>2 DEF SameCall, SameIntent
  <2>. QED
    BY <2>1, <2>2, <2>3, <2>4 DEF CallOK, Answered
<1>. QED
  BY <1>1, Invariant, PTL

(* A repeat that is answered is answered by a replay.                      *)
LEMMA OnlyReplayed ==
  ASSUME IInv, Next, NEW c \in Calls, Sent(c, Writes), ~call[c].dry,
         claim[call[c].key].ask = call[c].ask, write'[c].at # "sent"
  PROVE  write'[c].at = "replayed" /\ write'[c].row = claim[call[c].key].row
<1>1. call[c].ask # None /\ Spent(c) /\ SameCall(c)
  BY Asked DEF Sent, Spent, SameCall, NoClaim
<1>2. write[c].at = "sent" /\ write'[c] # write[c]
  BY DEF Sent
<1>3. ASSUME NEW d \in Calls, Runtime(d) PROVE write'[c] = write[c] \/ write'[c].at = "sent"
  <2>1. CASE TakeSlot(d)
    BY <2>1 DEF TakeSlot, IInv, TypeOK, WriteRecord
  <2>2. CASE ~TakeSlot(d)
    BY <1>3, <2>2 DEF Runtime, Call, Opened, QuotaSpent, NotOpened, TakeToolSlot, Served,
                      Refused, Unanswered, Leaves, Close, Cancelled
  <2>. QED
    BY <2>1, <2>2
<1>4. ASSUME NEW d \in Calls, d # c, Database(d) PROVE write'[c] = write[c]
  BY <1>4 DEF Database, ReadWindow, Count, Query, Rehearse, Replay, BoundElsewhere, Conflict,
              Commit, Answers, IInv, TypeOK
<1>5. Person \/ NextWindow => write'[c] = write[c]
  BY DEF Person, NextWindow
<1>6. Database(c)
  BY <1>2, <1>3, <1>4, <1>5 DEF Next
<1>7. Replay(c)
  BY <1>1, <1>2, <1>6 DEF Database, ReadWindow, Count, Query, Rehearse, BoundElsewhere,
                          Conflict, Commit, Sent, Writes
<1>. QED
  BY <1>7 DEF Replay, Answers, IInv, TypeOK

(* A repeat is answered with the row of the write it repeats: the key      *)
(* decides before the compare-and-swap (agent_idempotency_begin).          *)
THEOREM RepeatsAreReplayed == Spec => RepeatIsReplayed
<1>1. IInv /\ [Next]_vars =>
        [\A c \in Calls :
           /\ Sent(c, Writes) /\ ~call[c].dry /\ claim[call[c].key].ask = call[c].ask
           /\ write'[c].at # "sent"
           => write'[c].at = "replayed" /\ write'[c].row = claim[call[c].key].row]_vars
  BY OnlyReplayed
<1>. QED
  BY <1>1, Invariant, PTL DEF Spec, RepeatIsReplayed
=============================================================================
