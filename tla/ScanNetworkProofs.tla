------------------------- MODULE ScanNetworkProofs -------------------------
(***************************************************************************)
(* Proofs about ScanNetwork, for any scan units, ports, configurations and *)
(* any start rate.                                                         *)
(*                                                                         *)
(* That no slot is lost or invented is not inductive: a wake-up could give *)
(* a slot to a unit that has one, or twice to the same unit.  IInv adds    *)
(* that the semaphore's queue has no duplicates, that who is in it or has  *)
(* just been woken is still waiting, and that finished units are through.  *)
(*                                                                         *)
(* The scan uses the limiter and nothing else touches it (LimiterIsUsed),  *)
(* so RateLimiterProofs applies to it.  That nmap starts keep the rate     *)
(* needs what lies between the two: everyone who is waiting for a worker   *)
(* or has started has passed the limiter, one pass each (PaidInv).         *)
(***************************************************************************)
EXTENDS ScanNetwork, FiniteSetTheorems, TLAPS

Queued == {slotQueue[i] : i \in DOMAIN slotQueue}

RunSet == {u \in Unit : phase[u] = "running"}

ShapeInv ==
    /\ cfg \in Configs
    /\ phase \in [Unit -> Phase]
    /\ slots \in Nat
    /\ slotQueue \in Seq(Unit)
    /\ granted \in SUBSET Unit
    /\ completed \in Seq(Unit)

(* The queue is a queue of waiting units, each of them in it once. *)
QueueInv ==
    /\ \A i, j \in DOMAIN slotQueue : slotQueue[i] = slotQueue[j] => i = j
    /\ Queued \cap granted = {}
    /\ \A u \in Queued \cup granted : phase[u] = "waiting"

CompletedInv ==
    \A i \in DOMAIN completed : phase[completed[i]] \in {"done", "collected"}

CountInv == slots + Cardinality(granted \cup RunSet) = Concurrency

LoopInv ==
    LoopRuns =>
        /\ QueueInv
        /\ CountInv
        /\ \A u \in Unit : phase[u] # "orphaned"

FewRunning == Cardinality(Running) <= Concurrency

IInv ==
    /\ ShapeInv
    /\ CompletedInv
    /\ LoopInv
    /\ FewRunning

-----------------------------------------------------------------------------
(* The first k of a queue without duplicates are k.                        *)
LEMMA FirstCount ==
    ASSUME NEW S, NEW q \in Seq(S), NEW k \in Nat, k <= Len(q),
           \A i, j \in DOMAIN q : q[i] = q[j] => i = j,
           NEW W, W = {q[i] : i \in 1 .. k}
    PROVE  IsFiniteSet(W) /\ Cardinality(W) = k
<1> DEFINE f == [i \in 1 .. k |-> q[i]]
<1>1. IsFiniteSet(1 .. k) /\ Cardinality(1 .. k) = k
  BY FS_Interval
<1>2. f \in Bijection(1 .. k, W)
  <2>1. \A i \in 1 .. k : i \in DOMAIN q
    OBVIOUS
  <2>2. f \in [1 .. k -> W]
    OBVIOUS
  <2>3. \A i, j \in 1 .. k : f[i] = f[j] => i = j
    BY <2>1
  <2>4. \A w \in W : \E i \in 1 .. k : f[i] = w
    OBVIOUS
  <2> QED
    BY <2>2, <2>3, <2>4 DEF Bijection, Injection, Surjection, IsInjective
<1>3. ExistsBijection(1 .. k, W)
  BY <1>2 DEF ExistsBijection
<1> QED
  BY <1>1, <1>3, FS_Bijection

(* A wake-up gives a slot to k units that had none.                        *)
LEMMA WakeCount ==
    ASSUME slotQueue \in Seq(Unit), NEW k \in Nat, k <= Len(slotQueue),
           \A i, j \in DOMAIN slotQueue : slotQueue[i] = slotQueue[j] => i = j,
           NEW A \in SUBSET Unit, \A i \in DOMAIN slotQueue : slotQueue[i] \notin A,
           NEW W, \A w : w \in W <=> \E i \in 1 .. k : w = slotQueue[i]
    PROVE  Cardinality(A \cup W) = Cardinality(A) + k
<1>1. IsFiniteSet(W) /\ Cardinality(W) = k
  <2>1. W = {slotQueue[i] : i \in 1 .. k}
    OBVIOUS
  <2> QED
    BY <2>1, FirstCount
<1>2. IsFiniteSet(A) /\ Cardinality(A) \in Nat
  BY ScanNetworkAssumption, FS_Subset, FS_CardinalityType
<1>3. A \cap W = {}
  OBVIOUS
<1>4. Cardinality(A \cap W) = 0
  BY <1>3, FS_EmptySet
<1>5. Cardinality(A \cup W) = Cardinality(A) + Cardinality(W) - Cardinality(A \cap W)
  BY <1>1, <1>2, FS_Union
<1> QED
  BY <1>1, <1>2, <1>4, <1>5

LEMMA ConcurrencyType == cfg \in Configs => Concurrency \in Nat \ {0}
BY ScanNetworkAssumption DEF ConfigType, Concurrency

(* Wake leaves the queue in order: its tail, and k more granted.           *)
LEMMA WakeQueue ==
    ASSUME ShapeInv, QueueInv, NEW k \in Nat, k <= Len(slotQueue),
           NEW free \in Nat, k <= free, NEW others \in SUBSET granted,
           Sem!Wake(k, free, others)
    PROVE  /\ slots' \in Nat /\ slots' = free - k
           /\ slotQueue' \in Seq(Unit)
           /\ granted' \in SUBSET Unit
           /\ granted' = others \cup {slotQueue[i] : i \in 1 .. k}
           /\ \A i, j \in DOMAIN slotQueue' : slotQueue'[i] = slotQueue'[j] => i = j
           /\ Queued' \cap granted' = {}
           /\ Queued' \cup granted' \subseteq Queued \cup others
<1> USE DEF ShapeInv, QueueInv, Queued
<1>1. /\ slots' = free - k
      /\ slotQueue' = SubSeq(slotQueue, k + 1, Len(slotQueue))
      /\ granted' = others \cup {slotQueue[i] : i \in 1 .. k}
  BY DEF Sem!Wake
<1>2. /\ slotQueue' \in Seq(Unit)
      /\ Len(slotQueue') = Len(slotQueue) - k
      /\ \A i \in 1 .. Len(slotQueue) - k : slotQueue'[i] = slotQueue[i + k]
  BY <1>1
<1>3. /\ DOMAIN slotQueue' = 1 .. Len(slotQueue) - k
      /\ DOMAIN slotQueue = 1 .. Len(slotQueue)
      /\ Len(slotQueue) \in Nat
  BY <1>2
<1>4. \A i \in DOMAIN slotQueue' : i + k \in DOMAIN slotQueue /\ slotQueue'[i] = slotQueue[i + k]
  BY <1>2, <1>3
<1>5. \A i, j \in DOMAIN slotQueue' : slotQueue'[i] = slotQueue'[j] => i = j
  BY <1>3, <1>4
<1>6. \A i \in DOMAIN slotQueue' : slotQueue'[i] \notin granted'
  <2> SUFFICES ASSUME NEW i \in DOMAIN slotQueue'
               PROVE  slotQueue'[i] \notin granted'
    OBVIOUS
  <2>1. i \in Nat /\ i > 0 /\ i + k \in DOMAIN slotQueue /\ slotQueue'[i] = slotQueue[i + k]
    BY <1>3, <1>4
  <2>2. slotQueue[i + k] \notin others
    BY <2>1
  <2>3. \A j \in 1 .. k : j \in DOMAIN slotQueue /\ j # i + k
    BY <1>3, <2>1
  <2>4. \A j \in 1 .. k : slotQueue[j] # slotQueue[i + k]
    BY <2>1, <2>3
  <2> QED
    BY <1>1, <2>1, <2>2, <2>4
<1>7. \A i \in DOMAIN slotQueue : slotQueue[i] \in Unit
  OBVIOUS
<1>8. granted' \subseteq Unit
  BY <1>1, <1>3, <1>7
<1>9. Queued' \cup granted' \subseteq Queued \cup others
  <2>1. Queued' \subseteq Queued
    BY <1>4
  <2>2. \A i \in 1 .. k : slotQueue[i] \in Queued
    BY <1>3
  <2>3. granted' \subseteq Queued \cup others
    BY <1>1, <2>2
  <2> QED
    BY <2>1, <2>3
<1> QED
  BY <1>1, <1>2, <1>5, <1>6, <1>8, <1>9

-----------------------------------------------------------------------------
(* Counting, for any sets of units. *)
LEMMA CountBound ==
    ASSUME NEW G \in SUBSET Unit, NEW R \in SUBSET Unit, NEW n \in Nat, NEW c,
           n + Cardinality(G \cup R) = c
    PROVE  Cardinality(R) <= c
<1>1. IsFiniteSet(G \cup R)
  BY ScanNetworkAssumption, FS_Subset
<1>2. Cardinality(G \cup R) \in Nat
  BY <1>1, FS_CardinalityType
<1>3. IsFiniteSet(R) /\ Cardinality(R) <= Cardinality(G \cup R) /\ Cardinality(R) \in Nat
  BY <1>1, FS_Subset, FS_CardinalityType
<1> QED
  BY <1>2, <1>3

LEMMA CountSubset ==
    ASSUME NEW R \in SUBSET Unit, NEW T \in SUBSET R
    PROVE  Cardinality(T) <= Cardinality(R) /\ Cardinality(T) \in Nat /\ Cardinality(R) \in Nat
BY ScanNetworkAssumption, FS_Subset, FS_CardinalityType

LEMMA CountAdd ==
    ASSUME NEW H \in SUBSET Unit, NEW u \in Unit, u \notin H
    PROVE  Cardinality(H \cup {u}) = Cardinality(H) + 1
<1>1. IsFiniteSet(H)
  BY ScanNetworkAssumption, FS_Subset
<1> QED
  BY <1>1, FS_AddElement

LEMMA CountRemove ==
    ASSUME NEW H \in SUBSET Unit, NEW u \in H
    PROVE  Cardinality(H \ {u}) = Cardinality(H) - 1
<1>1. IsFiniteSet(H)
  BY ScanNetworkAssumption, FS_Subset
<1> QED
  BY <1>1, FS_RemoveElement

LEMMA CountNat ==
    ASSUME NEW H \in SUBSET Unit
    PROVE  Cardinality(H) \in Nat
BY ScanNetworkAssumption, FS_Subset, FS_CardinalityType

(* The slots add up after a wake-up if they did for the k fewer owners A.  *)
LEMMA WakeBalance ==
    ASSUME slotQueue \in Seq(Unit),
           \A i, j \in DOMAIN slotQueue : slotQueue[i] = slotQueue[j] => i = j,
           NEW k \in Nat, k <= Len(slotQueue),
           NEW A \in SUBSET Unit, \A i \in DOMAIN slotQueue : slotQueue[i] \notin A,
           NEW free \in Nat, free + Cardinality(A) = Concurrency,
           Concurrency' = Concurrency, slots' = free - k,
           granted' \cup RunSet' = A \cup {slotQueue[i] : i \in 1 .. k}
    PROVE  CountInv'
<1> DEFINE W == {slotQueue[i] : i \in 1 .. k}
<1>1. \A w : w \in W <=> \E i \in 1 .. k : w = slotQueue[i]
  OBVIOUS
<1>2. granted' \cup RunSet' = A \cup W
  OBVIOUS
<1> HIDE DEF W
<1>3. Cardinality(A \cup W) = Cardinality(A) + k
  BY <1>1, WakeCount
<1>4. Cardinality(A) \in Nat
  BY CountNat
<1>5. Cardinality(granted' \cup RunSet') = Cardinality(A) + k
  BY <1>2, <1>3
<1> QED
  BY <1>4, <1>5 DEF CountInv

(* While the loop runs, the slots say how many nmap processes there are.   *)
LEMMA FewWhileRunning ==
    ASSUME ShapeInv', CountInv', \A u \in Unit : phase'[u] # "orphaned"
    PROVE  FewRunning'
<1>1. Running' = RunSet'
  BY DEF Running, RunSet
<1>2. granted' \in SUBSET Unit /\ RunSet' \in SUBSET Unit /\ slots' \in Nat
  BY DEF ShapeInv, RunSet
<1>3. slots' + Cardinality(granted' \cup RunSet') = Concurrency'
  BY DEF CountInv
<1>4. Cardinality(RunSet') <= Concurrency'
  BY <1>2, <1>3, CountBound
<1> QED
  BY <1>1, <1>4 DEF FewRunning

-----------------------------------------------------------------------------
(* A coroutine past the throttle takes a slot, ends, or queues.            *)
LEMMA RequestSlotStep ==
    ASSUME IInv, LoopRuns, NEW u \in Unit, phase[u] = "throttle",
           RequestSlot(u), UNCHANGED <<cfg, main>>
    PROVE  IInv'
<1> USE DEF IInv, LoopInv
<1>1. Concurrency' = Concurrency /\ LoopRuns'
  BY DEF Concurrency, LoopRuns, GlobalSafeMode
<1>2. CASE Sem!Take /\ phase' = [phase EXCEPT ![u] = "running"] /\ completed' = completed
  <2>1. /\ granted = {} /\ granted' = {} /\ slots \in Nat /\ slots > 0
        /\ slots' = slots - 1 /\ slotQueue' = slotQueue /\ slotQueue = <<>>
    BY <1>2 DEF Sem!Take, Sem!Locked, ShapeInv
  <2>2. ShapeInv'
    BY <1>2, <2>1 DEF ShapeInv, Phase
  <2>3. CompletedInv'
    BY <1>2 DEF CompletedInv, ShapeInv
  <2>4. QueueInv'
    BY <2>1 DEF QueueInv, Queued
  <2>5. RunSet' = RunSet \cup {u} /\ u \notin RunSet /\ RunSet \in SUBSET Unit
    BY <1>2 DEF RunSet, ShapeInv
  <2>6. Cardinality(RunSet') = Cardinality(RunSet) + 1 /\ Cardinality(RunSet) \in Nat
    BY <2>5, CountAdd, CountNat
  <2>7. granted \cup RunSet = RunSet /\ granted' \cup RunSet' = RunSet'
    BY <2>1
  <2>8. CountInv'
    BY <1>1, <2>1, <2>6, <2>7 DEF CountInv
  <2>9. \A v \in Unit : phase'[v] # "orphaned"
    BY <1>2 DEF ShapeInv
  <2> QED
    BY <1>1, <2>2, <2>3, <2>4, <2>8, <2>9, FewWhileRunning
<1>3. CASE /\ phase' = [phase EXCEPT ![u] = "done"]
           /\ completed' = Append(completed, u)
           /\ UNCHANGED semVars
  <2>1. UNCHANGED <<slots, slotQueue, granted>>
    BY <1>3 DEF semVars
  <2>2. ShapeInv'
    BY <1>3, <2>1 DEF ShapeInv, Phase
  <2>3. CompletedInv'
    BY <1>3 DEF CompletedInv, ShapeInv
  <2>4. QueueInv'
    BY <1>3, <2>1 DEF QueueInv, Queued, ShapeInv
  <2>5. RunSet' = RunSet
    BY <1>3 DEF RunSet, ShapeInv
  <2>6. CountInv'
    BY <1>1, <2>1, <2>5 DEF CountInv
  <2>7. \A v \in Unit : phase'[v] # "orphaned"
    BY <1>3 DEF ShapeInv
  <2> QED
    BY <1>1, <2>2, <2>3, <2>4, <2>6, <2>7, FewWhileRunning
<1>4. CASE Sem!Enqueue(u) /\ phase' = [phase EXCEPT ![u] = "waiting"] /\ completed' = completed
  <2>1. slotQueue' = Append(slotQueue, u) /\ UNCHANGED <<slots, granted>>
    BY <1>4 DEF Sem!Enqueue
  <2>2. ShapeInv'
    BY <1>4, <2>1 DEF ShapeInv, Phase
  <2>3. CompletedInv'
    BY <1>4 DEF CompletedInv, ShapeInv
  <2>4. u \notin Queued /\ u \notin granted
    BY DEF QueueInv
  <2>5. /\ DOMAIN slotQueue' = 1 .. Len(slotQueue) + 1
        /\ DOMAIN slotQueue = 1 .. Len(slotQueue) /\ Len(slotQueue) \in Nat
        /\ slotQueue'[Len(slotQueue) + 1] = u
        /\ \A i \in DOMAIN slotQueue : slotQueue'[i] = slotQueue[i]
    BY <2>1 DEF ShapeInv
  <2>6. Queued' = Queued \cup {u}
    BY <2>5 DEF Queued
  <2>7. \A i, j \in DOMAIN slotQueue' : slotQueue'[i] = slotQueue'[j] => i = j
    BY <2>4, <2>5 DEF QueueInv, Queued
  <2>8. QueueInv'
    BY <1>4, <2>1, <2>4, <2>6, <2>7 DEF QueueInv, ShapeInv
  <2>9. RunSet' = RunSet
    BY <1>4 DEF RunSet, ShapeInv
  <2>10. CountInv'
    BY <1>1, <2>1, <2>9 DEF CountInv
  <2>11. \A v \in Unit : phase'[v] # "orphaned"
    BY <1>4 DEF ShapeInv
  <2> QED
    BY <1>1, <2>2, <2>3, <2>8, <2>10, <2>11, FewWhileRunning
<1> QED
  BY <1>2, <1>3, <1>4 DEF RequestSlot

-----------------------------------------------------------------------------
LEMMA InitInv == Init => IInv
<1> SUFFICES ASSUME Init PROVE IInv
  OBVIOUS
<1>1. Concurrency \in Nat \ {0}
  BY ConcurrencyType DEF Init
<1>2. /\ cfg \in Configs /\ phase = [u \in Unit |-> "throttle"]
      /\ slots = Concurrency /\ slotQueue = <<>> /\ granted = {} /\ completed = <<>>
  BY DEF Init, Sem!Init
<1>3. ShapeInv
  BY <1>1, <1>2 DEF ShapeInv, Phase
<1>4. CompletedInv /\ QueueInv /\ \A u \in Unit : phase[u] # "orphaned"
  BY <1>2 DEF CompletedInv, QueueInv, Queued
<1>5. Running = {} /\ granted \cup RunSet = {}
  BY <1>2 DEF Running, RunSet
<1>6. CountInv /\ FewRunning
  <2>1. Cardinality(Running) = 0 /\ Cardinality(granted \cup RunSet) = 0
    BY <1>5, FS_EmptySet
  <2> QED
    BY <1>1, <1>2, <2>1 DEF CountInv, FewRunning
<1> QED
  BY <1>3, <1>4, <1>6 DEF IInv, LoopInv

(* Nothing IInv is about changes.                                          *)
LEMMA QuietStep ==
    ASSUME IInv, UNCHANGED <<cfg, main, semVars, unitVars>>
    PROVE  IInv'
<1>1. UNCHANGED <<cfg, main, slots, slotQueue, granted, phase, completed>>
  BY DEF semVars, unitVars
<1>2. ShapeInv' /\ CompletedInv'
  BY <1>1 DEF IInv, ShapeInv, CompletedInv
<1>3. Concurrency' = Concurrency /\ LoopRuns' = LoopRuns
  BY <1>1 DEF Concurrency, GlobalSafeMode, LoopRuns
<1>4. Running' = Running /\ RunSet' = RunSet /\ Queued' = Queued
  BY <1>1 DEF Running, RunSet, Queued
<1>5. CountInv' = CountInv /\ QueueInv' = QueueInv
  BY <1>1, <1>3, <1>4 DEF CountInv, QueueInv
<1>6. LoopInv'
  BY <1>1, <1>3, <1>5 DEF IInv, LoopInv
<1>7. FewRunning'
  BY <1>3, <1>4 DEF IInv, FewRunning
<1> QED
  BY <1>2, <1>6, <1>7 DEF IInv

(* A waiter that was woken starts its nmap and wakes others.               *)
LEMMA ResumeStep ==
    ASSUME IInv, NEW u \in Unit, Resume(u)
    PROVE  IInv'
<1> DEFINE k == Sem!Lesser(slots, Len(slotQueue))
           W == {slotQueue[i] : i \in 1 .. k}
<1>1. /\ LoopRuns /\ phase[u] = "waiting" /\ u \in granted
      /\ Sem!Wake(k, slots, granted \ {u})
      /\ phase' = [phase EXCEPT ![u] = "running"]
      /\ UNCHANGED <<cfg, completed, main>>
  BY DEF Resume, Sem!Resume
<1>2. ShapeInv /\ QueueInv /\ CountInv /\ \A v \in Unit : phase[v] # "orphaned"
  BY <1>1 DEF IInv, LoopInv
<1>3. k \in Nat /\ k <= Len(slotQueue) /\ k <= slots /\ slots \in Nat
  BY <1>2 DEF ShapeInv, Sem!Lesser
<1>4. Concurrency' = Concurrency /\ LoopRuns'
  BY <1>1 DEF Concurrency, LoopRuns, GlobalSafeMode
<1> HIDE DEF k
<1>5. /\ slots' \in Nat /\ slots' = slots - k
      /\ slotQueue' \in Seq(Unit)
      /\ granted' \in SUBSET Unit
      /\ granted' = (granted \ {u}) \cup W
      /\ \A i, j \in DOMAIN slotQueue' : slotQueue'[i] = slotQueue'[j] => i = j
      /\ Queued' \cap granted' = {}
      /\ Queued' \cup granted' \subseteq Queued \cup (granted \ {u})
  BY <1>1, <1>2, <1>3, WakeQueue
<1>6. ShapeInv'
  BY <1>1, <1>2, <1>5 DEF ShapeInv, Phase
<1>7. CompletedInv'
  BY <1>1 DEF IInv, CompletedInv, ShapeInv
<1>8. QueueInv'
  <2>1. u \notin Queued \cup (granted \ {u})
    BY <1>1, <1>2 DEF QueueInv
  <2>2. \A v \in Queued \cup (granted \ {u}) : v \in Unit /\ phase[v] = "waiting"
    BY <1>2 DEF QueueInv, ShapeInv, Queued
  <2>3. \A v \in Queued' \cup granted' : phase'[v] = "waiting"
    BY <1>1, <1>2, <1>5, <2>1, <2>2 DEF ShapeInv
  <2> QED
    BY <1>5, <2>3 DEF QueueInv
<1>9. RunSet' = RunSet \cup {u}
  BY <1>1, <1>2 DEF RunSet, ShapeInv
<1>10. granted' \cup RunSet' = (granted \cup RunSet) \cup {slotQueue[i] : i \in 1 .. k}
  BY <1>1, <1>5, <1>9
<1>11. granted \cup RunSet \in SUBSET Unit
  BY <1>2 DEF ShapeInv, RunSet
<1>12. \A i \in DOMAIN slotQueue : slotQueue[i] \notin granted \cup RunSet
  BY <1>2 DEF QueueInv, Queued, RunSet
<1>13. /\ \A i, j \in DOMAIN slotQueue : slotQueue[i] = slotQueue[j] => i = j
       /\ slots + Cardinality(granted \cup RunSet) = Concurrency
       /\ slotQueue \in Seq(Unit)
  BY <1>2 DEF QueueInv, CountInv, ShapeInv
<1>14. CountInv'
  BY <1>3, <1>4, <1>5, <1>10, <1>11, <1>12, <1>13, WakeBalance
<1>15. \A v \in Unit : phase'[v] # "orphaned"
  BY <1>1, <1>2 DEF ShapeInv
<1> QED
  BY <1>4, <1>6, <1>7, <1>8, <1>14, <1>15, FewWhileRunning DEF IInv, LoopInv

(* An nmap ends; its slot goes to the first waiter.                        *)
LEMMA NmapExitStep ==
    ASSUME IInv, NEW u \in Unit, NmapExit(u)
    PROVE  IInv'
<1> DEFINE k == Sem!Lesser(1, Len(slotQueue))
           W == {slotQueue[i] : i \in 1 .. k}
           H == granted \cup RunSet
<1>1. /\ LoopRuns /\ phase[u] = "running"
      /\ Sem!Wake(k, slots + 1, granted)
      /\ phase' = [phase EXCEPT ![u] = "done"]
      /\ completed' = Append(completed, u)
      /\ UNCHANGED <<cfg, main>>
  BY DEF NmapExit, Sem!Release
<1>2. ShapeInv /\ QueueInv /\ CountInv /\ \A v \in Unit : phase[v] # "orphaned"
  BY <1>1 DEF IInv, LoopInv
<1>3. k \in Nat /\ k <= Len(slotQueue) /\ k <= slots + 1 /\ slots \in Nat
  BY <1>2 DEF ShapeInv, Sem!Lesser
<1>4. Concurrency' = Concurrency /\ LoopRuns'
  BY <1>1 DEF Concurrency, LoopRuns, GlobalSafeMode
<1> HIDE DEF k
<1>5. /\ slots' \in Nat /\ slots' = slots + 1 - k
      /\ slotQueue' \in Seq(Unit)
      /\ granted' \in SUBSET Unit
      /\ granted' = granted \cup W
      /\ \A i, j \in DOMAIN slotQueue' : slotQueue'[i] = slotQueue'[j] => i = j
      /\ Queued' \cap granted' = {}
      /\ Queued' \cup granted' \subseteq Queued \cup granted
  BY <1>1, <1>2, <1>3, WakeQueue
<1>6. ShapeInv'
  BY <1>1, <1>2, <1>5 DEF ShapeInv, Phase
<1>7. CompletedInv'
  BY <1>1, <1>2 DEF IInv, CompletedInv, ShapeInv
<1>8. QueueInv'
  <2>1. \A v \in Queued \cup granted : v \in Unit /\ phase[v] = "waiting" /\ v # u
    BY <1>1, <1>2 DEF QueueInv, ShapeInv, Queued
  <2>2. \A v \in Queued' \cup granted' : phase'[v] = "waiting"
    BY <1>1, <1>2, <1>5, <2>1 DEF ShapeInv
  <2> QED
    BY <1>5, <2>2 DEF QueueInv
<1>9. RunSet' = RunSet \ {u} /\ u \in RunSet /\ u \notin granted
  BY <1>1, <1>2 DEF RunSet, ShapeInv, QueueInv
<1>10. H \in SUBSET Unit /\ u \in H
  BY <1>2, <1>9 DEF ShapeInv, RunSet
<1>11. granted' \cup RunSet' = (H \ {u}) \cup {slotQueue[i] : i \in 1 .. k}
  <2>1. u \notin granted'
    BY <1>1, <1>5, <1>8 DEF QueueInv
  <2> QED
    BY <1>5, <1>9, <2>1
<1>12. \A i \in DOMAIN slotQueue : slotQueue[i] \notin H \ {u}
  BY <1>2 DEF QueueInv, Queued, RunSet
<1>13. /\ \A i, j \in DOMAIN slotQueue : slotQueue[i] = slotQueue[j] => i = j
       /\ slots + Cardinality(H) = Concurrency
       /\ slotQueue \in Seq(Unit)
  BY <1>2 DEF QueueInv, CountInv, ShapeInv
<1> HIDE DEF H
<1>14. (slots + 1) + Cardinality(H \ {u}) = Concurrency /\ slots + 1 \in Nat
  <2>1. Cardinality(H \ {u}) = Cardinality(H) - 1 /\ Cardinality(H) \in Nat
    BY <1>10, CountRemove, CountNat
  <2> QED
    BY <1>3, <1>13, <2>1
<1>15. CountInv'
  <2>1. H \ {u} \in SUBSET Unit
    BY <1>10
  <2> QED
    BY <1>3, <1>4, <1>5, <1>11, <1>12, <1>13, <1>14, <2>1, WakeBalance
<1>16. \A v \in Unit : phase'[v] # "orphaned"
  BY <1>1, <1>2 DEF ShapeInv
<1> QED
  BY <1>4, <1>6, <1>7, <1>8, <1>15, <1>16, FewWhileRunning DEF IInv, LoopInv

(* The main coroutine collects a finished unit, whatever it then becomes.  *)
LEMMA CollectStep ==
    ASSUME IInv, main = "collecting", completed # <<>>,
           completed' = Tail(completed),
           phase' = [phase EXCEPT ![Head(completed)] = "collected"],
           UNCHANGED <<cfg, semVars>>
    PROVE  IInv'
<1> DEFINE u == Head(completed)
<1>1. /\ ShapeInv /\ CompletedInv /\ QueueInv /\ CountInv
      /\ \A v \in Unit : phase[v] # "orphaned"
  BY DEF IInv, LoopInv, LoopRuns
<1>2. UNCHANGED <<cfg, slots, slotQueue, granted>>
  BY DEF semVars
<1>3. u \in Unit /\ phase[u] \in {"done", "collected"}
  BY <1>1 DEF ShapeInv, CompletedInv
<1>4. /\ completed' \in Seq(Unit)
      /\ \A i \in DOMAIN completed' : i + 1 \in DOMAIN completed /\ completed'[i] = completed[i + 1]
  BY <1>1 DEF ShapeInv
<1>5. /\ phase' \in [Unit -> Phase] /\ phase'[u] = "collected"
      /\ \A v \in Unit \ {u} : phase'[v] = phase[v]
  BY <1>1, <1>3 DEF ShapeInv, Phase
<1> HIDE DEF u
<1>6. ShapeInv'
  BY <1>1, <1>2, <1>4, <1>5 DEF ShapeInv
<1>7. CompletedInv'
  <2> SUFFICES ASSUME NEW i \in DOMAIN completed'
               PROVE  phase'[completed'[i]] \in {"done", "collected"}
    BY DEF CompletedInv
  <2>1. completed'[i] \in Unit /\ phase[completed'[i]] \in {"done", "collected"}
    BY <1>1, <1>4 DEF CompletedInv, ShapeInv
  <2> QED
    BY <1>5, <2>1
<1>8. RunSet' = RunSet /\ Queued' = Queued
  BY <1>2, <1>3, <1>5 DEF RunSet, Queued
<1>9. QueueInv'
  <2>1. \A v \in Queued \cup granted : v \in Unit \ {u} /\ phase[v] = "waiting"
    BY <1>1, <1>3 DEF QueueInv, ShapeInv, Queued
  <2> QED
    BY <1>1, <1>2, <1>5, <1>8, <2>1 DEF QueueInv
<1>10. CountInv'
  <2>1. Concurrency' = Concurrency
    BY <1>2 DEF Concurrency, GlobalSafeMode
  <2> QED
    BY <1>1, <1>2, <1>8, <2>1 DEF CountInv
<1>11. \A v \in Unit : phase'[v] # "orphaned"
  BY <1>1, <1>5
<1> QED
  BY <1>6, <1>7, <1>9, <1>10, <1>11, FewWhileRunning DEF IInv, LoopInv

(* Closing the loop keeps the running nmaps, now orphaned.                 *)
LEMMA CloseLoopStep ==
    ASSUME IInv, CloseLoop
    PROVE  IInv'
<1>1. /\ ShapeInv /\ CompletedInv /\ FewRunning
      /\ main' = "closed" /\ UNCHANGED <<cfg, slots, slotQueue, granted, completed>>
      /\ phase' = [u \in Unit |->
                     CASE phase[u] = "running" -> "orphaned"
                       [] phase[u] \in {"throttle", "waiting"} -> "cancelled"
                       [] OTHER -> phase[u]]
  BY DEF IInv, CloseLoop, semVars
<1>2. \A u \in Unit :
        /\ phase'[u] \in Phase
        /\ phase[u] \in {"done", "collected"} => phase'[u] = phase[u]
        /\ (phase'[u] \in {"running", "orphaned"}) <=> (phase[u] \in {"running", "orphaned"})
  BY <1>1 DEF ShapeInv, Phase
<1>3. ShapeInv'
  <2>1. phase' \in [Unit -> Phase]
    <3> DEFINE closed(u) == CASE phase[u] = "running" -> "orphaned"
                              [] phase[u] \in {"throttle", "waiting"} -> "cancelled"
                              [] OTHER -> phase[u]
    <3>1. phase' = [u \in Unit |-> closed(u)]
      BY <1>1
    <3>2. \A u \in Unit : closed(u) \in Phase
      BY <1>1 DEF ShapeInv, Phase
    <3> HIDE DEF closed
    <3> QED
      BY <3>1, <3>2
  <2> QED
    BY <1>1, <2>1 DEF ShapeInv
<1>4. CompletedInv'
  BY <1>1, <1>2 DEF CompletedInv, ShapeInv
<1>5. Running' = Running
  BY <1>2 DEF Running
<1>6. FewRunning'
  BY <1>1, <1>5 DEF FewRunning, Concurrency, GlobalSafeMode
<1>7. ~LoopRuns'
  BY <1>1 DEF LoopRuns
<1> QED
  BY <1>3, <1>4, <1>6, <1>7 DEF IInv, LoopInv

LEMMA OrphanExitStep ==
    ASSUME IInv, NEW u \in Unit, OrphanExit(u)
    PROVE  IInv'
<1>1. /\ ShapeInv /\ CompletedInv /\ FewRunning
      /\ phase[u] = "orphaned" /\ phase' = [phase EXCEPT ![u] = "cancelled"]
      /\ UNCHANGED <<cfg, main, slots, slotQueue, granted, completed>>
  BY DEF IInv, OrphanExit, semVars
<1>2. ~LoopRuns'
  BY <1>1 DEF IInv, LoopInv, LoopRuns
<1>3. ShapeInv'
  BY <1>1 DEF ShapeInv, Phase
<1>4. CompletedInv'
  BY <1>1 DEF CompletedInv, ShapeInv
<1>5. Running' \subseteq Running /\ Running \subseteq Unit
  BY <1>1 DEF Running, ShapeInv
<1>6. FewRunning'
  <2>1. /\ Cardinality(Running') <= Cardinality(Running)
        /\ Cardinality(Running') \in Nat /\ Cardinality(Running) \in Nat
    BY <1>5, CountSubset
  <2>2. Concurrency' = Concurrency /\ Concurrency \in Nat
    BY <1>1, ConcurrencyType DEF Concurrency, GlobalSafeMode, ShapeInv
  <2> QED
    BY <1>1, <2>1, <2>2 DEF FewRunning
<1> QED
  BY <1>2, <1>3, <1>4, <1>6 DEF IInv, LoopInv

LEMMA NextInv == IInv /\ [Next]_vars => IInv'
<1> SUFFICES ASSUME IInv, [Next]_vars PROVE IInv'
  OBVIOUS
<1>1. ASSUME NEW u \in Unit, PassThrottle(u) PROVE IInv'
  <2>1. LoopRuns /\ phase[u] = "throttle" /\ UNCHANGED <<cfg, main>>
    BY <1>1 DEF PassThrottle
  <2>2. CASE RequestSlot(u)
    BY <2>1, <2>2, RequestSlotStep
  <2>3. CASE UNCHANGED <<semVars, unitVars>>
    BY <2>1, <2>3, QuietStep
  <2> QED
    BY <1>1, <2>2, <2>3 DEF PassThrottle
<1>2. ASSUME NEW u \in Unit, Resume(u) PROVE IInv'
  BY <1>2, ResumeStep
<1>3. ASSUME NEW u \in Unit, NmapExit(u) PROVE IInv'
  BY <1>3, NmapExitStep
<1>4. ASSUME NEW u \in Unit, OrphanExit(u) PROVE IInv'
  BY <1>4, OrphanExitStep
<1>5. CASE CollectResult
  BY <1>5, CollectStep DEF CollectResult
<1>6. CASE CollectException
  BY <1>6, CollectStep DEF CollectException
<1>7. CASE CloseLoop
  BY <1>7, CloseLoopStep
<1>8. CASE Tick
  BY <1>8, QuietStep DEF Tick
<1>9. CASE UNCHANGED vars
  BY <1>9, QuietStep DEF vars
<1> QED
  BY <1>1, <1>2, <1>3, <1>4, <1>5, <1>6, <1>7, <1>8, <1>9
  DEF Next, UnitStep, MainStep, Finished

-----------------------------------------------------------------------------
(* For any units, workers and start rate, IInv holds throughout a scan of  *)
(* PortScanner.scan_network.                                               *)
THEOREM Invariance == Spec => []IInv
BY InitInv, NextInv, PTL DEF Spec

(* The semaphore of scan_network neither loses nor invents a slot, on any  *)
(* path: nmap's failure, an uncaught exception, the loop's end.            *)
THEOREM SlotsAreConserved == Spec => []SlotsConserved
<1>1. IInv => SlotsConserved
  BY DEF IInv, LoopInv, CountInv, SlotsConserved, Holding, RunSet
<1> QED
  BY <1>1, Invariance, PTL

(* An nmap that touches an industrial port, or runs under the OT profile,  *)
(* runs alone and gently, also after scan_network has raised.              *)
THEOREM OTIsSafe == Spec => []OTSafe
<1>1. IInv => OTSafe
  <2> SUFFICES ASSUME IInv, Running # {}, OTSensitive \/ GlobalSafeMode
               PROVE  /\ Cardinality(Running) = 1
                      /\ NmapTiming <= 2
                      /\ NmapIntensity = 0
                      /\ ~NmapDetectsOS
    BY DEF OTSafe
  <2>1. /\ cfg.timing \in 0 .. 5 /\ cfg.intensity \in 0 .. 9 /\ cfg.os \in BOOLEAN
    BY ScanNetworkAssumption DEF IInv, ShapeInv, ConfigType
  <2>2. Concurrency = 1
    BY DEF Concurrency, OTSensitive, Scanned
  <2>3. IsFiniteSet(Running)
    BY ScanNetworkAssumption, FS_Subset DEF Running
  <2>4. Cardinality(Running) \in Nat /\ Cardinality(Running) # 0
    BY <2>3, FS_CardinalityType, FS_EmptySet
  <2>5. Cardinality(Running) <= 1
    BY <2>2 DEF IInv, FewRunning
  <2>6. NmapTiming <= 2 /\ NmapIntensity = 0
    BY <2>1 DEF NmapTiming, NmapIntensity, GlobalSafeMode
  <2>7. ~NmapDetectsOS
    BY DEF NmapDetectsOS
  <2> QED
    BY <2>4, <2>5, <2>6, <2>7
<1> QED
  BY <1>1, Invariance, PTL

-----------------------------------------------------------------------------
(* What TypeOK says beyond ShapeInv. *)
TypeInv ==
    /\ Throttle!TypeOK
    /\ outcome \in [Unit -> NmapResult \cup {"none", "skipped"}]
    /\ main \in {"collecting", "returned", "raised", "closed"}
    /\ launches \in Seq(Nat)
    /\ slots <= Concurrency

(* A step of acquire(), whoever calls it.                                  *)
LEMMA AcquireType ==
    ASSUME Throttle!TypeOK, NEW u \in Unit, Throttle!Step(u)
    PROVE  Throttle!TypeOK'
<1>1. /\ now \in Nat /\ nextSlot \in Nat /\ wakeAt \in Nat /\ passes \in Seq(Nat)
      /\ thr \in [Unit -> Throttle!TaskState] /\ lockQueue \in Seq(Unit)
      /\ Interval \in Nat
  BY ScanNetworkAssumption DEF Throttle!TypeOK
<1>2. ASSUME NEW slot \in Nat, Throttle!Return(u, slot)
      PROVE  nextSlot' \in Nat /\ thr' \in [Unit -> Throttle!TaskState] /\ passes' \in Seq(Nat)
  BY <1>1, <1>2 DEF Throttle!Return, Throttle!TaskState
<1>3. ASSUME Throttle!Enter(u)
      PROVE  /\ nextSlot' \in Nat /\ thr' \in [Unit -> Throttle!TaskState]
             /\ passes' \in Seq(Nat) /\ wakeAt' \in Nat
  <2>1. CASE Throttle!Return(u, now + Interval) /\ UNCHANGED wakeAt
    <3>1. now + Interval \in Nat
      BY <1>1
    <3> QED
      BY <1>1, <1>2, <2>1, <3>1
  <2>2. CASE /\ thr' = [thr EXCEPT ![u] = "sleeping"] /\ wakeAt' = nextSlot
             /\ UNCHANGED <<nextSlot, passes>>
    BY <1>1, <2>2 DEF Throttle!TaskState
  <2> QED
    BY <1>3, <2>1, <2>2 DEF Throttle!Enter
<1>4. CASE Throttle!AcquireFree(u)
  <2>1. /\ UNCHANGED <<now, lockQueue>>
        /\ \/ Throttle!Return(u, nextSlot) /\ UNCHANGED wakeAt
           \/ Throttle!Enter(u)
    BY <1>4 DEF Throttle!AcquireFree
  <2> QED
    BY <1>1, <1>2, <1>3, <2>1 DEF Throttle!TypeOK
<1>5. CASE Throttle!AcquireBusy(u)
  BY <1>1, <1>5 DEF Throttle!AcquireBusy, Throttle!TypeOK, Throttle!TaskState
<1>6. CASE Throttle!Granted(u)
  <2>1. now' = now /\ lockQueue' \in Seq(Unit) /\ Throttle!Enter(u)
    BY <1>1, <1>6 DEF Throttle!Granted
  <2> QED
    BY <1>1, <1>3, <2>1 DEF Throttle!TypeOK
<1>7. CASE Throttle!Wake(u)
  <2>1. Throttle!SlotFromPlan \in Nat
    BY <1>1 DEF Throttle!SlotFromPlan
  <2>2. Throttle!Return(u, Throttle!SlotFromPlan) /\ UNCHANGED <<now, lockQueue, wakeAt>>
    BY <1>7 DEF Throttle!Wake
  <2> QED
    BY <1>1, <1>2, <2>1, <2>2 DEF Throttle!TypeOK
<1> QED
  BY <1>4, <1>5, <1>6, <1>7 DEF Throttle!Step, Throttle!Acquire

(* While the loop runs the slots that are free are among the workers'; once *)
(* it is closed nobody touches them.                                       *)
LEMMA SlotsBounded ==
    ASSUME IInv', cfg' = cfg, LoopRuns' \/ (UNCHANGED slots /\ slots <= Concurrency)
    PROVE  (slots <= Concurrency)'
<1>1. Concurrency' = Concurrency
  BY DEF Concurrency, GlobalSafeMode
<1>2. CASE LoopRuns'
  <2>1. granted' \cup RunSet' \in SUBSET Unit
    BY DEF IInv, ShapeInv, RunSet
  <2>2. Cardinality(granted' \cup RunSet') \in Nat
    BY <2>1, CountNat
  <2>3. slots' + Cardinality(granted' \cup RunSet') = Concurrency' /\ slots' \in Nat
    BY <1>2 DEF IInv, LoopInv, CountInv, ShapeInv
  <2> QED
    BY <2>2, <2>3
<1> QED
  BY <1>1, <1>2

LEMMA NextType ==
    ASSUME IInv, TypeInv, [Next]_vars, IInv'
    PROVE  TypeInv'
<1>1. /\ now \in Nat /\ phase \in [Unit -> Phase] /\ completed \in Seq(Unit)
      /\ outcome \in [Unit -> NmapResult \cup {"none", "skipped"}] /\ launches \in Seq(Nat)
  BY DEF IInv, ShapeInv, TypeInv, Throttle!TypeOK
<1>2. ASSUME NEW u \in Unit, PassThrottle(u) PROVE TypeInv'
  <2>1. /\ LoopRuns' /\ UNCHANGED <<cfg, main>> /\ Throttle!TypeOK'
    BY <1>2, AcquireType DEF PassThrottle, LoopRuns, TypeInv
  <2>2. CASE RequestSlot(u)
    <3>1. Refusal \in NmapResult \cup {"none", "skipped"}
      BY DEF Refusal, NmapResult
    <3>2. /\ outcome' \in [Unit -> NmapResult \cup {"none", "skipped"}]
          /\ launches' \in Seq(Nat)
      <4>1. CASE outcome' = outcome /\ launches' = Append(launches, now)
        BY <1>1, <4>1
      <4>2. CASE outcome' = [outcome EXCEPT ![u] = Refusal] /\ launches' = launches
        BY <1>1, <3>1, <4>2
      <4>3. CASE outcome' = outcome /\ launches' = launches
        BY <1>1, <4>3
      <4> QED
        BY <2>2, <4>1, <4>2, <4>3 DEF RequestSlot
    <3> QED
      BY <2>1, <3>2, SlotsBounded DEF TypeInv
  <2>3. CASE UNCHANGED unitVars
    BY <2>1, <2>3, SlotsBounded DEF TypeInv, unitVars
  <2> QED
    BY <1>2, <2>2, <2>3 DEF PassThrottle
<1>3. ASSUME NEW u \in Unit, Resume(u) PROVE TypeInv'
  <2>1. /\ LoopRuns' /\ UNCHANGED <<cfg, main, outcome>> /\ launches' = Append(launches, now)
        /\ UNCHANGED <<now, nextSlot, thr, lockQueue, wakeAt, passes>>
    BY <1>3 DEF Resume, LoopRuns, throttleVars
  <2>2. launches' \in Seq(Nat)
    BY <1>1, <2>1
  <2> QED
    BY <2>1, <2>2, SlotsBounded DEF TypeInv, Throttle!TypeOK
<1>4. ASSUME NEW u \in Unit, NmapExit(u) PROVE TypeInv'
  <2>1. /\ LoopRuns' /\ UNCHANGED <<cfg, main, launches>>
        /\ \E result \in NmapResult : outcome' = [outcome EXCEPT ![u] = result]
        /\ UNCHANGED <<now, nextSlot, thr, lockQueue, wakeAt, passes>>
    BY <1>4 DEF NmapExit, LoopRuns, throttleVars
  <2>2. outcome' \in [Unit -> NmapResult \cup {"none", "skipped"}]
    BY <1>1, <2>1
  <2> QED
    BY <2>1, <2>2, SlotsBounded DEF TypeInv, Throttle!TypeOK
<1>5. ASSUME UNCHANGED <<cfg, throttleVars, semVars, outcome, launches>>,
             main' \in {"collecting", "returned", "raised", "closed"}
      PROVE  TypeInv'
  <2>1. UNCHANGED <<cfg, slots, outcome, launches, now, nextSlot, thr, lockQueue, wakeAt, passes>>
    BY <1>5 DEF throttleVars, semVars
  <2> QED
    BY <1>5, <2>1, SlotsBounded DEF TypeInv, Throttle!TypeOK
<1>6. ASSUME NEW u \in Unit, OrphanExit(u) PROVE TypeInv'
  BY <1>5, <1>6 DEF OrphanExit, TypeInv
<1>7. CASE MainStep
  BY <1>5, <1>7 DEF MainStep, CollectResult, CollectException, CloseLoop, TypeInv
<1>8. CASE Tick
  <2>1. /\ UNCHANGED <<cfg, slots, outcome, launches, main>>
        /\ UNCHANGED <<nextSlot, thr, lockQueue, wakeAt, passes>> /\ now' = now + 1
    BY <1>8 DEF Tick, Throttle!Tick, semVars, unitVars
  <2> QED
    BY <1>1, <2>1, SlotsBounded DEF TypeInv, Throttle!TypeOK
<1>9. CASE UNCHANGED vars
  BY <1>5, <1>9 DEF vars, unitVars, TypeInv
<1> QED
  BY <1>2, <1>3, <1>4, <1>6, <1>7, <1>8, <1>9 DEF Next, UnitStep, Finished

(* engine.py:390-470: every unit ends with one of nmap's results or none,  *)
(* and no release makes more workers than the scan was given, on whatever  *)
(* path it ends.                                                           *)
THEOREM TypeCorrectness == Spec => []TypeOK
<1>1. Init => TypeInv
  <2> SUFFICES ASSUME Init PROVE TypeInv
    OBVIOUS
  <2>1. Concurrency \in Nat /\ slots = Concurrency
    BY ConcurrencyType DEF Init, Sem!Init
  <2> QED
    BY <2>1 DEF Init, TypeInv, Throttle!Init, Throttle!TypeOK, Throttle!TaskState
<1>2. IInv /\ TypeInv /\ [Next]_vars /\ IInv' => TypeInv'
  BY NextType
<1>3. IInv /\ TypeInv => TypeOK
  BY DEF IInv, ShapeInv, TypeInv, TypeOK, Sem!TypeOK
<1> QED
  BY <1>1, <1>2, <1>3, Invariance, PTL DEF Spec

-----------------------------------------------------------------------------
(* scan_network uses the limiter as RateLimiter has it: what is proved     *)
(* there holds of a scan.                                                  *)
Limiter == INSTANCE RateLimiterProofs
    WITH Task <- Unit, Rereads <- FALSE, state <- thr, waiters <- lockQueue,
         starts <- passes

LEMMA LimiterAssumption == Limiter!RateLimiterAssumption
BY ScanNetworkAssumption DEF Limiter!RateLimiterAssumption

LEMMA SameSteps ==
    /\ Throttle!Init <=> Limiter!Init
    /\ \A u \in Unit : Throttle!Step(u) <=> Limiter!Step(u)
    /\ Throttle!Tick <=> Limiter!Tick
<1>1. Throttle!Init <=> Limiter!Init
  BY DEF Throttle!Init, Limiter!Init
<1>2. /\ Throttle!LockFree <=> Limiter!LockFree
      /\ Throttle!SlotFromPlan = Limiter!SlotFromPlan
      /\ Throttle!SlotFromClock = Limiter!SlotFromClock
  BY DEF Throttle!LockFree, Limiter!LockFree, Throttle!SlotFromPlan, Limiter!SlotFromPlan,
         Throttle!SlotFromClock, Limiter!SlotFromClock
<1>3. \A u \in Unit : \A slot : Throttle!Return(u, slot) <=> Limiter!Return(u, slot)
  BY DEF Throttle!Return, Limiter!Return
<1>4. \A u \in Unit : Throttle!Enter(u) <=> Limiter!Enter(u)
  BY <1>3 DEF Throttle!Enter, Limiter!Enter
<1>5. \A u \in Unit : Throttle!Acquire(u) <=> Limiter!Acquire(u)
  BY <1>2, <1>3, <1>4
  DEF Throttle!Acquire, Throttle!AcquireFree, Throttle!AcquireBusy,
      Limiter!Acquire, Limiter!AcquireFree, Limiter!AcquireBusy
<1>6. \A u \in Unit : Throttle!Granted(u) <=> Limiter!Granted(u)
  BY <1>2, <1>4 DEF Throttle!Granted, Limiter!Granted
<1>7. \A u \in Unit : Throttle!Wake(u) <=> Limiter!Wake(u)
  BY <1>2, <1>3 DEF Throttle!Wake, Limiter!Wake
<1>8. Throttle!Tick <=> Limiter!Tick
  BY <1>2 DEF Throttle!Tick, Limiter!Tick
<1> QED
  BY <1>1, <1>5, <1>6, <1>7, <1>8 DEF Throttle!Step, Limiter!Step

(* Every step of a scan is one of the limiter or none of its business.     *)
THEOREM LimiterIsUsed == Spec => Limiter!Spec
<1>1. Init => Limiter!Init
  BY SameSteps DEF Init
<1>2. [Next]_vars => [Limiter!Next]_(Limiter!vars)
  <2> SUFFICES ASSUME [Next]_vars PROVE [Limiter!Next]_(Limiter!vars)
    OBVIOUS
  <2>1. CASE \E u \in Unit : PassThrottle(u)
    BY <2>1, SameSteps DEF PassThrottle, Limiter!Next
  <2>2. CASE Tick
    BY <2>2, SameSteps DEF Tick, Limiter!Next
  <2>3. CASE UNCHANGED throttleVars
    BY <2>3 DEF throttleVars, Limiter!vars
  <2> QED
    BY <2>1, <2>2, <2>3
    DEF Next, UnitStep, MainStep, Resume, NmapExit, OrphanExit, CollectResult, CollectException,
        CloseLoop, Finished, vars
<1> QED
  BY <1>1, <1>2, PTL DEF Spec, Limiter!Spec

-----------------------------------------------------------------------------
(* When the k-th start of a scan may come. *)
Due(k) == (k - 1) * Interval

LEMMA DueNext ==
    ASSUME NEW k \in Int
    PROVE  /\ Due(k) \in Int /\ Due(k + 1) = Due(k) + Interval /\ Due(1) = 0
           /\ Interval = 0 => Due(k) = 0
           /\ Interval \in Nat
BY ScanNetworkAssumption DEF Due

(* A step of acquire() lets nobody through, or one more, now.              *)
LEMMA AcquireFacts ==
    ASSUME Limiter!IInv, NEW u \in Unit, Throttle!Step(u)
    PROVE  \/ passes' = passes /\ nextSlot' = nextSlot /\ thr'[u] # "passed"
           \/ /\ passes' = Append(passes, now) /\ thr'[u] = "passed"
              /\ Interval > 0 =>
                 nextSlot <= now /\ nextSlot' \in {now + Interval, nextSlot + Interval}
<1>1. /\ now \in Nat /\ nextSlot \in Nat /\ wakeAt \in Nat /\ Interval \in Nat
      /\ thr \in [Unit -> Throttle!TaskState]
      /\ thr[u] = "sleeping" => wakeAt = nextSlot
  BY ScanNetworkAssumption
  DEF Limiter!IInv, Limiter!TypeOK, Limiter!SleepInv, Limiter!TaskState, Throttle!TaskState
<1>2. ASSUME NEW slot, Throttle!Return(u, slot)
      PROVE  passes' = Append(passes, now) /\ thr'[u] = "passed" /\ nextSlot' = slot
  BY <1>1, <1>2 DEF Throttle!Return
<1>3. ASSUME Throttle!Enter(u)
      PROVE  \/ passes' = passes /\ nextSlot' = nextSlot /\ thr'[u] # "passed"
             \/ /\ passes' = Append(passes, now) /\ thr'[u] = "passed"
                /\ nextSlot <= now /\ nextSlot' = now + Interval
  <2>1. CASE nextSlot <= now /\ Throttle!Return(u, now + Interval)
    BY <1>2, <2>1
  <2>2. CASE thr' = [thr EXCEPT ![u] = "sleeping"] /\ UNCHANGED <<nextSlot, passes>>
    BY <1>1, <2>2
  <2> QED
    BY <1>3, <2>1, <2>2 DEF Throttle!Enter
<1>4. CASE Throttle!AcquireFree(u)
  <2>1. (Interval = 0 /\ Throttle!Return(u, nextSlot)) \/ Throttle!Enter(u)
    BY <1>4 DEF Throttle!AcquireFree
  <2> QED
    BY <1>1, <1>2, <1>3, <2>1
<1>5. CASE Throttle!AcquireBusy(u)
  BY <1>1, <1>5 DEF Throttle!AcquireBusy
<1>6. CASE Throttle!Granted(u)
  <2>1. Throttle!Enter(u)
    BY <1>6 DEF Throttle!Granted
  <2> QED
    BY <1>1, <1>3, <2>1
<1>7. CASE Throttle!Wake(u)
  <2>1. thr[u] = "sleeping" /\ wakeAt <= now /\ Throttle!Return(u, nextSlot + Interval)
    BY <1>7 DEF Throttle!Wake, Throttle!SlotFromPlan
  <2> QED
    BY <1>1, <1>2, <2>1
<1> QED
  BY <1>4, <1>5, <1>6, <1>7 DEF Throttle!Step, Throttle!Acquire

Waiting == {u \in Unit : phase[u] = "waiting"}

(* The limiter's next slot is as late as the scan's next start is due, and *)
(* every nmap that started or waits for its slot has passed the limiter.   *)
PaidInv ==
    /\ Interval > 0 => Due(Len(passes) + 1) <= nextSlot
    /\ \A k \in DOMAIN passes : Due(k) <= passes[k]
    /\ Len(launches) + Cardinality(Waiting) <= Len(passes)
    /\ \A k \in DOMAIN launches : Due(k) <= launches[k]

(* One more start, when p holds enough passes of the limiter.              *)
LEMMA LaunchPaid ==
    ASSUME NEW p \in Seq(Nat), launches \in Seq(Nat), now \in Nat,
           \A k \in DOMAIN p : Due(k) <= p[k] /\ p[k] <= now,
           \A k \in DOMAIN launches : Due(k) <= launches[k],
           Len(launches) < Len(p), launches' = Append(launches, now)
    PROVE  /\ \A k \in DOMAIN launches' : Due(k) <= launches'[k]
           /\ Len(launches') = Len(launches) + 1
<1> DEFINE n == Len(launches) + 1
<1>1. n \in DOMAIN p /\ n \in Int /\ p[n] \in Nat
  OBVIOUS
<1>2. Due(n) <= now
  <2>1. Due(n) \in Int /\ Due(n) <= p[n] /\ p[n] <= now
    BY <1>1, DueNext
  <2> QED
    BY <1>1, <2>1
<1>3. /\ Len(launches') = n
      /\ \A k \in DOMAIN launches' : \/ k \in DOMAIN launches /\ launches'[k] = launches[k]
                                     \/ k = n /\ launches'[k] = now
  OBVIOUS
<1> QED
  BY <1>2, <1>3

LEMMA PassPaid ==
    ASSUME PaidInv, Limiter!IInv, NEW u \in Unit, Throttle!Step(u)
    PROVE  /\ Interval > 0 => Due(Len(passes') + 1) <= nextSlot'
           /\ \A k \in DOMAIN passes' : Due(k) <= passes'[k] /\ passes'[k] <= now
           /\ passes' \in Seq(Nat)
           /\ IF thr'[u] = "passed" THEN Len(passes') = Len(passes) + 1 ELSE passes' = passes
<1>1. /\ now \in Nat /\ nextSlot \in Nat /\ passes \in Seq(Nat)
      /\ \A k \in DOMAIN passes : Due(k) <= passes[k] /\ passes[k] <= now
      /\ Interval > 0 => Due(Len(passes) + 1) <= nextSlot
  BY DEF Limiter!IInv, Limiter!TypeOK, Limiter!PastInv, PaidInv
<1>2. CASE passes' = passes /\ nextSlot' = nextSlot /\ thr'[u] # "passed"
  BY <1>1, <1>2
<1>3. CASE /\ passes' = Append(passes, now) /\ thr'[u] = "passed"
           /\ Interval > 0 =>
                 nextSlot <= now /\ nextSlot' \in {now + Interval, nextSlot + Interval}
  <2> DEFINE n == Len(passes) + 1
  <2>1. n \in Int /\ passes' \in Seq(Nat) /\ Len(passes') = n
        /\ \A k \in DOMAIN passes' : \/ k \in DOMAIN passes /\ passes'[k] = passes[k]
                                     \/ k = n /\ passes'[k] = now
    BY <1>1, <1>3
  <2> HIDE DEF n
  <2>2. /\ Due(n) \in Int /\ Due(n + 1) = Due(n) + Interval /\ Interval \in Nat
        /\ Interval = 0 => Due(n) = 0
    BY <2>1, DueNext
  <2>3. Due(n) <= now
    BY <1>1, <1>3, <2>2 DEF n
  <2>4. Interval > 0 => Due(n + 1) <= nextSlot'
    <3>1. SUFFICES ASSUME Interval > 0 PROVE Due(n) + Interval <= nextSlot'
      BY <2>2
    <3>2. Due(n) <= nextSlot
      BY <1>1, <3>1 DEF n
    <3> QED
      BY <1>1, <1>3, <2>2, <3>1, <3>2
  <2> QED
    BY <1>1, <1>3, <2>1, <2>3, <2>4 DEF n
<1> QED
  BY <1>2, <1>3, AcquireFacts

LEMMA WaitingCount == Cardinality(Waiting) \in Nat
BY CountNat DEF Waiting

LEMMA PaidNext ==
    ASSUME PaidInv, Limiter!IInv, IInv, launches \in Seq(Nat), [Next]_vars
    PROVE  PaidInv'
<1>1. /\ now \in Nat /\ nextSlot \in Nat /\ passes \in Seq(Nat) /\ launches \in Seq(Nat)
      /\ \A k \in DOMAIN passes : Due(k) <= passes[k] /\ passes[k] <= now
      /\ \A k \in DOMAIN launches : Due(k) <= launches[k]
      /\ phase \in [Unit -> Phase]
      /\ Len(launches) + Cardinality(Waiting) <= Len(passes)
      /\ Cardinality(Waiting) \in Nat
  BY WaitingCount DEF Limiter!IInv, Limiter!TypeOK, Limiter!PastInv, PaidInv, IInv, ShapeInv
<1>2. ASSUME NEW u \in Unit, PassThrottle(u) PROVE PaidInv'
  <2>1. /\ phase[u] = "throttle" /\ Throttle!Step(u)
        /\ IF thr'[u] = "passed" THEN RequestSlot(u) ELSE UNCHANGED <<semVars, unitVars>>
    BY <1>2 DEF PassThrottle
  <2>2. /\ Interval > 0 => Due(Len(passes') + 1) <= nextSlot'
        /\ \A k \in DOMAIN passes' : Due(k) <= passes'[k] /\ passes'[k] <= now
        /\ passes' \in Seq(Nat)
        /\ IF thr'[u] = "passed" THEN Len(passes') = Len(passes) + 1 ELSE passes' = passes
    BY <2>1, PassPaid
  <2>3. CASE thr'[u] # "passed"
    <3>1. UNCHANGED <<phase, launches, passes>>
      BY <2>1, <2>2, <2>3 DEF unitVars
    <3>2. Waiting' = Waiting
      BY <3>1 DEF Waiting
    <3> QED
      BY <1>1, <2>2, <3>1, <3>2 DEF PaidInv
  <2>4. CASE thr'[u] = "passed"
    <3>1. Len(passes') = Len(passes) + 1
      BY <2>2, <2>4
    <3>2. CASE phase' = [phase EXCEPT ![u] = "running"] /\ launches' = Append(launches, now)
      <4>1. Waiting' = Waiting
        BY <1>1, <2>1, <3>2 DEF Waiting
      <4>2. Len(launches) < Len(passes')
        BY <1>1, <3>1
      <4>3. /\ \A k \in DOMAIN launches' : Due(k) <= launches'[k]
            /\ Len(launches') = Len(launches) + 1
        BY <1>1, <2>2, <3>2, <4>2, LaunchPaid
      <4>4. Len(launches') + Cardinality(Waiting') <= Len(passes')
        BY <1>1, <3>1, <4>1, <4>3
      <4> QED
        BY <2>2, <4>3, <4>4 DEF PaidInv
    <3>3. CASE phase' = [phase EXCEPT ![u] = "done"] /\ launches' = launches
      <4>1. Waiting' = Waiting
        BY <1>1, <2>1, <3>3 DEF Waiting
      <4> QED
        BY <1>1, <2>2, <3>1, <3>3, <4>1 DEF PaidInv
    <3>4. CASE phase' = [phase EXCEPT ![u] = "waiting"] /\ launches' = launches
      <4>1. Waiting' = Waiting \cup {u} /\ u \notin Waiting /\ Waiting \in SUBSET Unit
        BY <1>1, <2>1, <3>4 DEF Waiting
      <4>2. Cardinality(Waiting') = Cardinality(Waiting) + 1
        BY <4>1, CountAdd
      <4>3. Len(launches') + Cardinality(Waiting') <= Len(passes')
        BY <1>1, <3>1, <3>4, <4>2
      <4> QED
        BY <1>1, <2>2, <3>4, <4>3 DEF PaidInv
    <3> QED
      BY <2>1, <2>4, <3>2, <3>3, <3>4 DEF RequestSlot
  <2> QED
    BY <2>3, <2>4
<1>3. ASSUME NEW u \in Unit, Resume(u) PROVE PaidInv'
  <2>1. /\ phase[u] = "waiting" /\ phase' = [phase EXCEPT ![u] = "running"]
        /\ launches' = Append(launches, now) /\ UNCHANGED <<now, nextSlot, passes>>
    BY <1>3 DEF Resume, throttleVars
  <2>2. Waiting' = Waiting \ {u} /\ u \in Waiting /\ Waiting \in SUBSET Unit
    BY <1>1, <2>1 DEF Waiting
  <2>3. Cardinality(Waiting') = Cardinality(Waiting) - 1
    BY <2>2, CountRemove
  <2>4. Cardinality(Waiting') \in Nat
    BY <2>2, CountNat
  <2>5. Len(launches) < Len(passes)
    BY <1>1, <2>3, <2>4
  <2>6. /\ \A k \in DOMAIN launches' : Due(k) <= launches'[k]
        /\ Len(launches') = Len(launches) + 1
    BY <1>1, <2>1, <2>5, LaunchPaid
  <2>7. Len(launches') + Cardinality(Waiting') <= Len(passes')
    BY <1>1, <2>1, <2>3, <2>6
  <2> QED
    BY <1>1, <2>1, <2>6, <2>7 DEF PaidInv
<1>4. ASSUME UNCHANGED <<nextSlot, passes, launches>>, Waiting' \in SUBSET Waiting
      PROVE  PaidInv'
  <2>1. Waiting \in SUBSET Unit
    BY DEF Waiting
  <2>2. Cardinality(Waiting') <= Cardinality(Waiting) /\ Cardinality(Waiting') \in Nat
    BY <1>4, <2>1, CountSubset
  <2>3. Len(launches') + Cardinality(Waiting') <= Len(passes')
    BY <1>1, <1>4, <2>2
  <2> QED
    BY <1>1, <1>4, <2>3 DEF PaidInv
<1>5. ASSUME NEW u \in Unit, NmapExit(u) \/ OrphanExit(u) PROVE PaidInv'
  <2>1. /\ UNCHANGED <<nextSlot, passes, launches>>
        /\ phase' = [phase EXCEPT ![u] = "done"] \/ phase' = [phase EXCEPT ![u] = "cancelled"]
    BY <1>5 DEF NmapExit, OrphanExit, throttleVars
  <2>2. Waiting' \in SUBSET Waiting
    BY <1>1, <2>1 DEF Waiting
  <2> QED
    BY <1>4, <2>1, <2>2
<1>6. CASE CollectResult \/ CollectException
  <2>1. /\ UNCHANGED <<nextSlot, passes, launches>>
        /\ \E u : phase' = [phase EXCEPT ![u] = "collected"]
    BY <1>6 DEF CollectResult, CollectException, throttleVars
  <2>2. Waiting' \in SUBSET Waiting
    BY <1>1, <2>1 DEF Waiting
  <2> QED
    BY <1>4, <2>1, <2>2
<1>7. CASE CloseLoop
  <2>1. /\ UNCHANGED <<nextSlot, passes, launches>>
        /\ \A u \in Unit : phase'[u] = "waiting" => phase[u] = "waiting"
    BY <1>7 DEF CloseLoop, throttleVars
  <2>2. Waiting' \in SUBSET Waiting
    BY <2>1 DEF Waiting
  <2> QED
    BY <1>4, <2>1, <2>2
<1>8. CASE Tick \/ UNCHANGED vars
  <2>1. UNCHANGED <<nextSlot, passes, launches, phase>>
    BY <1>8 DEF Tick, Throttle!Tick, vars, throttleVars, unitVars
  <2>2. Waiting' \in SUBSET Waiting
    BY <2>1 DEF Waiting
  <2> QED
    BY <1>4, <2>1, <2>2
<1> QED
  BY <1>2, <1>3, <1>5, <1>6, <1>7, <1>8 DEF Next, UnitStep, MainStep, Finished

(* engine.py:374, 414-418: the scope's rate is kept over the whole scan,   *)
(* for any number of units and workers: the k-th nmap starts k - 1         *)
(* intervals after the scan does, or later, however long its unit had to   *)
(* wait for a worker after it had passed the limiter.                      *)
THEOREM RateIsHonoured == Spec => []RateHonoured
<1>1. Spec => []Limiter!IInv
  BY LimiterIsUsed, Limiter!Invariance, LimiterAssumption, PTL
<1>2. Init => PaidInv
  <2> SUFFICES ASSUME Init PROVE PaidInv
    OBVIOUS
  <2>1. nextSlot = 0 /\ passes = <<>> /\ launches = <<>> /\ Waiting = {}
    BY DEF Init, Throttle!Init, Waiting
  <2>2. Cardinality(Waiting) = 0
    BY <2>1, FS_EmptySet
  <2>3. /\ DOMAIN passes = {} /\ Len(passes) = 0
        /\ DOMAIN launches = {} /\ Len(launches) = 0
    BY <2>1
  <2>4. Due(1) = 0 /\ Due(Len(passes) + 1) = Due(1)
    BY <2>3, DueNext
  <2> QED
    BY <2>1, <2>2, <2>3, <2>4 DEF PaidInv
<1>3. PaidInv /\ Limiter!IInv /\ IInv /\ TypeOK /\ [Next]_vars => PaidInv'
  BY PaidNext DEF TypeOK
<1>4. PaidInv => RateHonoured
  BY DEF PaidInv, RateHonoured, Due
<1> QED
  BY <1>1, <1>2, <1>3, <1>4, Invariance, TypeCorrectness, PTL DEF Spec

=============================================================================
