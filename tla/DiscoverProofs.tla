--------------------------- MODULE DiscoverProofs ---------------------------
(***************************************************************************)
(* Proofs about Discover, for any addresses, command lines, batch size,    *)
(* connection limit and start rate.                                        *)
(*                                                                         *)
(* The bounds are not inductive by themselves.  SemInv adds who holds the  *)
(* semaphore's slots, HostInv where a host may be while its batch is       *)
(* probed and what it must have answered to be there, StageInv what the    *)
(* command has done before each stage, RateInv the limiter's next slot.    *)
(*                                                                         *)
(* The second half of the module is about the other way to find hosts,     *)
(* listening to the traffic of others: see Passive below.                  *)
(***************************************************************************)
EXTENDS Discover, FiniteSetTheorems, TLAPS

Queued == {slotQueue[i] : i \in DOMAIN slotQueue}

Connecting == {h \in Address : at[h] = "connecting"}

(* A host answered the i-th of the ports it was tried on. *)
Hit(h, i) == tried[h][i] \in Reached

Types ==
    /\ config \in Configs
    /\ stage \in {"start", "masscan", "sweep", "arp", "listed", "raised"}
    /\ Process!TypeOK
    /\ Throttle!TypeOK
    /\ Sem!TypeOK
    /\ batch \in Nat
    /\ at \in [Address -> Phase]
    /\ tried \in [Address -> Seq(Answer)]
    /\ listed \subseteq Network

(* What has happened before each stage. *)
StageInv ==
    /\ batch > 0 =>
          ~TooMany /\ config.ports > 0 /\ stage \in {"sweep", "arp", "listed", "raised"}
    /\ batch = 0 => \A h \in Address : at[h] = "throttle"
    /\ batch > 0 /\ stage # "sweep" => \A h \in Hosts : at[h] = "done"
    /\ stage = "masscan" => config.privileged
    /\ child # "none" => stage = "masscan"
    /\ stage # "listed" => listed = {}
    /\ stage = "listed" => live \subseteq listed

(* Each slot that is not free is held by a connect or by a host that was   *)
(* woken; who queues or was woken waits.                                   *)
SemInv ==
    /\ \A i, j \in DOMAIN slotQueue : slotQueue[i] = slotQueue[j] => i = j
    /\ Queued \cap granted = {}
    /\ \A h \in Queued \cup granted : at[h] = "waiting"
    /\ slots + Cardinality(granted \cup Connecting) = Workers[config.method]

(* The next slot is an interval after every start, and nobody moves it     *)
(* while a host sleeps until then.                                         *)
RateInv ==
    /\ \A i \in DOMAIN passes : passes[i] <= now
    /\ Interval > 0 => \A i \in DOMAIN passes : passes[i] + Interval <= nextSlot
    /\ \A g, h \in Address : thr[g] = "sleeping" /\ thr[h] = "sleeping" => g = h
    /\ \A h \in Address : thr[h] = "sleeping" => Interval > 0 /\ wakeAt = nextSlot
    /\ lockQueue # <<>> => Interval > 0
    /\ Throttle!StrictRate

(* Hosts of past batches are done, of later ones not begun; a host goes on *)
(* until it answers or there is no port left.                              *)
HostInv ==
    \A h \in Address :
        /\ at[h] # "throttle" => h \in Hosts /\ Rank(h) <= batch * BatchSize
        /\ h \in Hosts /\ at[h] # "done" /\ batch > 0 => (batch - 1) * BatchSize < Rank(h)
        /\ at[h] = "throttle" => tried[h] = <<>>
        /\ at[h] \in {"waiting", "connecting"} =>
              stage = "sweep" /\ batch > 0 /\ Len(tried[h]) < config.ports
        /\ \A i \in DOMAIN tried[h] : Hit(h, i) => at[h] = "done" /\ i = Len(tried[h])
        /\ at[h] = "done" => Len(tried[h]) = config.ports \/ \E i \in DOMAIN tried[h] : Hit(h, i)

LiveInv == live = {h \in Address : \E i \in DOMAIN tried[h] : Hit(h, i)}

IInv == Types /\ StageInv /\ SemInv /\ RateInv /\ HostInv /\ LiveInv

-----------------------------------------------------------------------------
(* The hosts of a range are some of its addresses. *)
LEMMA HostFacts ==
    ASSUME config \in Configs
    PROVE  /\ Hosts \subseteq Network /\ Network \subseteq Address
           /\ IsFiniteSet(Hosts) /\ Cardinality(Hosts) \in Nat
           /\ \A h \in Address : Rank(h) \in Nat /\ Rank(h) <= Cardinality(Hosts)
           /\ \A h \in Hosts : Rank(h) > 0
           /\ Workers[config.method] \in Nat \ {0}
           /\ config.ports \in Nat
<1>1. config \in ConfigType /\ Network \subseteq Address
  BY DiscoverAssumption DEF Network
<1>2. config.target.kind \in {"range", "name"}
  BY <1>1 DEF ConfigType
<1>3. Hosts \subseteq Network
  <2>1. CASE config.target.kind = "name"
    BY <2>1 DEF Hosts
  <2>2. CASE config.target.kind = "range" /\ config.target.size <= 2
    BY <2>2 DEF Hosts
  <2>3. CASE config.target.kind = "range" /\ ~(config.target.size <= 2)
    BY <2>3 DEF Hosts
  <2> QED
    BY <1>2, <2>1, <2>2, <2>3
<1>4. IsFiniteSet(Hosts) /\ Cardinality(Hosts) \in Nat
  BY <1>1, <1>3, DiscoverAssumption, FS_Subset, FS_CardinalityType
<1>5. ASSUME NEW h \in Address
      PROVE  Rank(h) \in Nat /\ Rank(h) <= Cardinality(Hosts)
  <2>1. {g \in Hosts : g <= h} \subseteq Hosts
    OBVIOUS
  <2> QED
    BY <1>4, <2>1, FS_Subset, FS_CardinalityType DEF Rank
<1>6. ASSUME NEW h \in Hosts
      PROVE  Rank(h) > 0
  <2>1. h \in Int /\ h <= h
    <3>1. h \in Address /\ Address \subseteq Int
      BY <1>1, <1>3, DiscoverAssumption
    <3>2. h \in Int
      BY <3>1
    <3> QED
      BY <3>2
  <2> DEFINE R == {g \in Hosts : g <= h}
  <2>2. h \in R /\ R \subseteq Hosts
    BY <2>1
  <2>3. IsFiniteSet(R) /\ Rank(h) \in Nat /\ Rank(h) = Cardinality(R)
    BY <1>1, <1>3, <1>4, <1>5, <2>2, FS_Subset DEF Rank
  <2> HIDE DEF R
  <2>4. Rank(h) # 0
    BY <2>2, <2>3, FS_EmptySet
  <2> QED
    BY <2>3, <2>4
<1> QED
  BY <1>1, <1>3, <1>4, <1>5, <1>6, DiscoverAssumption DEF ConfigType

(* Where a batch begins and ends. *)
LEMMA BatchEnds ==
    ASSUME NEW b \in Nat
    PROVE  /\ b * BatchSize \in Nat
           /\ (b + 1) * BatchSize = b * BatchSize + BatchSize
           /\ b > 0 => (b - 1) * BatchSize = b * BatchSize - BatchSize
           /\ BatchSize \in Nat \ {0}
           /\ 0 * BatchSize = 0
<1>1. BatchSize \in Nat \ {0}
  BY DiscoverAssumption
<1> QED
  BY <1>1

LEMMA InBatch ==
    ASSUME NEW b \in Nat, NEW h
    PROVE  h \in Batch(b) <=> h \in Hosts /\ (b - 1) * BatchSize < Rank(h) /\ Rank(h) <= b * BatchSize
BY DEF Batch

-----------------------------------------------------------------------------
(* Counting addresses. *)
LEMMA CountNat ==
    ASSUME NEW A \in SUBSET Address
    PROVE  IsFiniteSet(A) /\ Cardinality(A) \in Nat
BY DiscoverAssumption, FS_Subset, FS_CardinalityType

LEMMA CountAdd ==
    ASSUME NEW A \in SUBSET Address, NEW h, h \notin A
    PROVE  Cardinality(A \cup {h}) = Cardinality(A) + 1
BY CountNat, FS_AddElement

LEMMA CountRemove ==
    ASSUME NEW A \in SUBSET Address, NEW h \in A
    PROVE  Cardinality(A \ {h}) = Cardinality(A) - 1
BY CountNat, FS_RemoveElement

(* The first k of the queue, if it has no duplicates, are k more.        *)
LEMMA CountWoken ==
    ASSUME slotQueue \in Seq(Address), NEW k \in Nat, k <= Len(slotQueue),
           \A i, j \in DOMAIN slotQueue : slotQueue[i] = slotQueue[j] => i = j,
           NEW A \in SUBSET Address, \A i \in DOMAIN slotQueue : slotQueue[i] \notin A,
           NEW W, \A w : w \in W <=> \E i \in 1 .. k : w = slotQueue[i]
    PROVE  Cardinality(A \cup W) = Cardinality(A) + k
<1> DEFINE f == [i \in 1 .. k |-> slotQueue[i]]
<1>1. IsFiniteSet(1 .. k) /\ Cardinality(1 .. k) = k
  BY FS_Interval
<1>2. \A i \in 1 .. k : i \in DOMAIN slotQueue
  OBVIOUS
<1>3. f \in Bijection(1 .. k, W)
  BY <1>2 DEF Bijection, Injection, Surjection, IsInjective
<1>4. IsFiniteSet(W) /\ Cardinality(W) = k
  BY <1>1, <1>3, FS_Bijection DEF ExistsBijection
<1>5. A \cap W = {}
  BY <1>2
<1>6. Cardinality(A \cap W) = 0
  BY <1>5, FS_EmptySet
<1>7. IsFiniteSet(A) /\ Cardinality(A) \in Nat
  BY CountNat
<1>8. Cardinality(A \cup W) = Cardinality(A) + Cardinality(W) - Cardinality(A \cap W)
  BY <1>4, <1>7, FS_Union
<1> QED
  BY <1>4, <1>6, <1>7, <1>8

-----------------------------------------------------------------------------
(* The first k of the queue are woken; each was waiting and held no slot.  *)
LEMMA WakeQueue ==
    ASSUME Types, SemInv, NEW k \in Nat, k <= Len(slotQueue),
           NEW free \in Nat, k <= free, NEW others \in SUBSET granted,
           Sem!Wake(k, free, others)
    PROVE  /\ Sem!TypeOK' /\ slots' = free - k
           /\ granted' = others \cup {slotQueue[i] : i \in 1 .. k}
           /\ \A i, j \in DOMAIN slotQueue' : slotQueue'[i] = slotQueue'[j] => i = j
           /\ Queued' \cap granted' = {}
           /\ Queued' \cup granted' \subseteq Queued \cup others
<1>1. /\ slots' = free - k
      /\ slotQueue' = SubSeq(slotQueue, k + 1, Len(slotQueue))
      /\ granted' = others \cup {slotQueue[i] : i \in 1 .. k}
  BY DEF Sem!Wake
<1>2. slotQueue \in Seq(Address) /\ granted \in SUBSET Address
  BY DEF Types, Sem!TypeOK
<1>3. /\ slotQueue' \in Seq(Address)
      /\ DOMAIN slotQueue' = 1 .. Len(slotQueue) - k
      /\ DOMAIN slotQueue = 1 .. Len(slotQueue) /\ Len(slotQueue) \in Nat
      /\ \A i \in 1 .. Len(slotQueue) - k : slotQueue'[i] = slotQueue[i + k]
  BY <1>1, <1>2
<1>4. \A i \in DOMAIN slotQueue' : i + k \in DOMAIN slotQueue /\ slotQueue'[i] = slotQueue[i + k]
  BY <1>3
<1>5. \A i, j \in DOMAIN slotQueue' : slotQueue'[i] = slotQueue'[j] => i = j
  BY <1>3, <1>4 DEF SemInv
<1>6. ASSUME NEW i \in DOMAIN slotQueue'
      PROVE  slotQueue'[i] \notin granted'
  <2>1. i \in Nat /\ i > 0 /\ i + k \in DOMAIN slotQueue /\ slotQueue'[i] = slotQueue[i + k]
    BY <1>3, <1>4
  <2>2. slotQueue[i + k] \notin others
    BY <2>1 DEF SemInv, Queued
  <2>3. \A j \in 1 .. k : j \in DOMAIN slotQueue /\ j # i + k
    BY <1>3, <2>1
  <2>4. \A j \in 1 .. k : slotQueue[j] # slotQueue[i + k]
    BY <2>1, <2>3 DEF SemInv
  <2> QED
    BY <1>1, <2>1, <2>2, <2>4
<1>7. \A i \in DOMAIN slotQueue : slotQueue[i] \in Address /\ slotQueue[i] \in Queued
  BY <1>2 DEF Queued
<1>8. granted' \subseteq Address /\ granted' \subseteq Queued \cup others
  BY <1>1, <1>2, <1>3, <1>7
<1>9. Queued' \subseteq Queued /\ Queued' \cap granted' = {}
  BY <1>4, <1>6 DEF Queued
<1>10. Sem!TypeOK'
  BY <1>1, <1>3, <1>8 DEF Sem!TypeOK
<1> QED
  BY <1>1, <1>5, <1>8, <1>9, <1>10

(* With these owners of slots before, and k more woken, the slots add up.  *)
LEMMA WakeBalance ==
    ASSUME Types, SemInv, NEW k \in Nat, k <= Len(slotQueue),
           NEW A \in SUBSET Address, \A i \in DOMAIN slotQueue : slotQueue[i] \notin A,
           NEW free \in Nat, free + Cardinality(A) = Workers[config.method],
           UNCHANGED config, slots' = free - k,
           (granted \cup Connecting)' = A \cup {slotQueue[i] : i \in 1 .. k}
    PROVE  (slots + Cardinality(granted \cup Connecting) = Workers[config.method])'
<1> DEFINE W == {slotQueue[i] : i \in 1 .. k}
<1>1. slotQueue \in Seq(Address) /\ \A i, j \in DOMAIN slotQueue : slotQueue[i] = slotQueue[j] => i = j
  BY DEF Types, Sem!TypeOK, SemInv
<1>2. (\A w : w \in W <=> \E i \in 1 .. k : w = slotQueue[i]) /\ (granted \cup Connecting)' = A \cup W
  OBVIOUS
<1> HIDE DEF W
<1>3. Cardinality(A \cup W) = Cardinality(A) + k
  BY <1>1, <1>2, CountWoken
<1>4. Cardinality(A) \in Nat
  BY CountNat
<1>5. Cardinality((granted \cup Connecting)') = Cardinality(A) + k
  BY <1>2, <1>3
<1> QED
  BY <1>4, <1>5

LEMMA TakeSem ==
    ASSUME Types, SemInv, NEW h \in Address, at[h] = "throttle", UNCHANGED config,
           Sem!Take, at' = [at EXCEPT ![h] = "connecting"]
    PROVE  Sem!TypeOK' /\ SemInv'
<1>1. /\ slots \in Nat /\ slots > 0 /\ slotQueue = <<>> /\ granted = {}
      /\ slots' = slots - 1 /\ slotQueue' = <<>> /\ granted' = {}
  BY DEF Types, Sem!TypeOK, Sem!Take, Sem!Locked
<1>2. Sem!TypeOK'
  BY <1>1 DEF Sem!TypeOK
<1>3. granted \cup Connecting = Connecting /\ (granted \cup Connecting)' = Connecting \cup {h}
  BY <1>1 DEF Types, Connecting
<1>4. h \notin Connecting /\ Connecting \in SUBSET Address
  BY DEF Connecting
<1>5. Cardinality((granted \cup Connecting)') = Cardinality(granted \cup Connecting) + 1
  BY <1>3, <1>4, CountAdd
<1>6. Cardinality(granted \cup Connecting) \in Nat
  BY <1>3, <1>4, CountNat
<1>7. (slots + Cardinality(granted \cup Connecting) = Workers[config.method])'
  BY <1>1, <1>5, <1>6 DEF SemInv
<1> QED
  BY <1>1, <1>2, <1>7 DEF SemInv, Queued

(* h joins the queue's end; it may have held a slot until now.             *)
LEMMA EnqueueSem ==
    ASSUME Types, SemInv, NEW h \in Address, at[h] = "throttle", UNCHANGED config,
           Sem!Enqueue(h), at' = [at EXCEPT ![h] = "waiting"]
    PROVE  Sem!TypeOK' /\ SemInv'
<1>1. slotQueue \in Seq(Address) /\ slotQueue' = Append(slotQueue, h) /\ UNCHANGED <<slots, granted>>
  BY DEF Types, Sem!TypeOK, Sem!Enqueue
<1>2. /\ DOMAIN slotQueue' = 1 .. Len(slotQueue) + 1
      /\ DOMAIN slotQueue = 1 .. Len(slotQueue) /\ Len(slotQueue) \in Nat
      /\ slotQueue'[Len(slotQueue) + 1] = h
      /\ \A i \in DOMAIN slotQueue : slotQueue'[i] = slotQueue[i]
  BY <1>1
<1>3. h \notin Queued /\ h \notin granted
  BY DEF SemInv
<1>4. Queued' = Queued \cup {h}
  BY <1>2 DEF Queued
<1>5. \A i, j \in DOMAIN slotQueue' : slotQueue'[i] = slotQueue'[j] => i = j
  BY <1>2, <1>3 DEF SemInv, Queued
<1>6. Sem!TypeOK'
  BY <1>1 DEF Types, Sem!TypeOK
<1>7. Connecting' = Connecting
  BY DEF Types, Connecting
<1>8. \A g \in (Queued \cup granted)' : at'[g] = "waiting"
  BY <1>1, <1>4 DEF SemInv, Types, Queued, Sem!TypeOK
<1> QED
  BY <1>1, <1>3, <1>4, <1>5, <1>6, <1>7, <1>8 DEF SemInv

(* A woken host connects, and passes on slots that are left over.          *)
LEMMA ResumeSem ==
    ASSUME Types, SemInv, NEW h \in Address, UNCHANGED config,
           Sem!Resume(h), at' = [at EXCEPT ![h] = "connecting"]
    PROVE  Sem!TypeOK' /\ SemInv'
<1> DEFINE k == Sem!Lesser(slots, Len(slotQueue))
<1>1. /\ slots \in Nat /\ slotQueue \in Seq(Address) /\ granted \in SUBSET Address
      /\ at \in [Address -> Phase]
  BY DEF Types, Sem!TypeOK
<1>2. h \in granted /\ Sem!Wake(k, slots, granted \ {h})
  BY DEF Sem!Resume
<1>3. k \in Nat /\ k <= Len(slotQueue) /\ k <= slots
  BY <1>1 DEF Sem!Lesser
<1> HIDE DEF k
<1>4. /\ Sem!TypeOK' /\ slots' = slots - k
      /\ granted' = (granted \ {h}) \cup {slotQueue[i] : i \in 1 .. k}
      /\ \A i, j \in DOMAIN slotQueue' : slotQueue'[i] = slotQueue'[j] => i = j
      /\ Queued' \cap granted' = {}
      /\ Queued' \cup granted' \subseteq Queued \cup (granted \ {h})
  BY <1>1, <1>2, <1>3, WakeQueue
<1>5. \A g \in Queued' \cup granted' : at'[g] = "waiting"
  <2>1. h \notin Queued \cup (granted \ {h})
    BY <1>2 DEF SemInv
  <2>2. \A g \in Queued \cup (granted \ {h}) : g \in Address /\ at[g] = "waiting"
    BY <1>1 DEF SemInv, Queued
  <2> QED
    BY <1>1, <1>4, <2>1, <2>2
<1>6. (granted \cup Connecting)' = (granted \cup Connecting) \cup {slotQueue[i] : i \in 1 .. k}
  <2>1. Connecting' = Connecting \cup {h}
    BY <1>1 DEF Connecting
  <2> QED
    BY <1>2, <1>4, <2>1
<1>7. /\ granted \cup Connecting \in SUBSET Address
      /\ \A i \in DOMAIN slotQueue : slotQueue[i] \notin granted \cup Connecting
  BY <1>1 DEF SemInv, Queued, Connecting
<1>8. (slots + Cardinality(granted \cup Connecting) = Workers[config.method])'
  BY <1>1, <1>3, <1>4, <1>6, <1>7, WakeBalance DEF SemInv
<1> QED
  BY <1>4, <1>5, <1>8 DEF SemInv

(* A host that is done gives its slot to whoever waited longest.           *)
LEMMA ReleaseSem ==
    ASSUME Types, SemInv, NEW h \in Address, at[h] = "connecting", UNCHANGED config,
           Sem!Release, at' = [at EXCEPT ![h] = "done"]
    PROVE  Sem!TypeOK' /\ SemInv'
<1> DEFINE k == Sem!Lesser(1, Len(slotQueue))
<1>1. /\ slots \in Nat /\ slotQueue \in Seq(Address) /\ granted \in SUBSET Address
      /\ at \in [Address -> Phase]
  BY DEF Types, Sem!TypeOK
<1>2. Sem!Wake(k, slots + 1, granted)
  BY DEF Sem!Release
<1>3. k \in Nat /\ k <= Len(slotQueue) /\ k <= slots + 1
  BY <1>1 DEF Sem!Lesser
<1> HIDE DEF k
<1>4. /\ Sem!TypeOK' /\ slots' = slots + 1 - k
      /\ granted' = granted \cup {slotQueue[i] : i \in 1 .. k}
      /\ \A i, j \in DOMAIN slotQueue' : slotQueue'[i] = slotQueue'[j] => i = j
      /\ Queued' \cap granted' = {}
      /\ Queued' \cup granted' \subseteq Queued \cup granted
  BY <1>1, <1>2, <1>3, WakeQueue
<1>5. \A g \in Queued' \cup granted' : at'[g] = "waiting"
  <2>1. \A g \in Queued \cup granted : g \in Address /\ at[g] = "waiting" /\ g # h
    BY <1>1 DEF SemInv, Queued
  <2> QED
    BY <1>1, <1>4, <2>1
<1> DEFINE A == (granted \cup Connecting) \ {h}
<1>6. h \notin granted /\ h \in Connecting
  BY DEF SemInv, Connecting
<1>7. (granted \cup Connecting)' = A \cup {slotQueue[i] : i \in 1 .. k}
  <2>1. Connecting' = Connecting \ {h}
    BY <1>1 DEF Connecting
  <2> QED
    BY <1>4, <1>6, <2>1
<1>8. /\ granted \cup Connecting \in SUBSET Address /\ A \in SUBSET Address
      /\ \A i \in DOMAIN slotQueue : slotQueue[i] \notin A
  BY <1>1 DEF SemInv, Queued, Connecting
<1>9. Cardinality(A) = Cardinality(granted \cup Connecting) - 1
      /\ Cardinality(granted \cup Connecting) \in Nat
  BY <1>6, <1>8, CountRemove, CountNat
<1>10. slots + 1 + Cardinality(A) = Workers[config.method]
  BY <1>1, <1>9 DEF SemInv
<1> HIDE DEF A
<1>11. (slots + Cardinality(granted \cup Connecting) = Workers[config.method])'
  BY <1>1, <1>3, <1>4, <1>7, <1>8, <1>10, WakeBalance
<1> QED
  BY <1>4, <1>5, <1>11 DEF SemInv

(* Between two ports a host keeps its slot, or lets the others go first.   *)
LEMMA NextPortSem ==
    ASSUME Types, SemInv, NEW h \in Address, at[h] = "connecting", UNCHANGED config,
           NextPort(h)
    PROVE  /\ Sem!TypeOK' /\ SemInv'
           /\ at' = at \/ at' = [at EXCEPT ![h] = "waiting"]
<1>1. /\ slots \in Nat /\ slotQueue \in Seq(Address) /\ granted \in SUBSET Address
      /\ at \in [Address -> Phase]
  BY DEF Types, Sem!TypeOK
<1>2. /\ h \notin granted /\ h \notin Queued /\ h \in Connecting
      /\ granted \cup Connecting \in SUBSET Address
      /\ slots + Cardinality(granted \cup Connecting) = Workers[config.method]
  BY <1>1 DEF SemInv, Connecting
<1> DEFINE A == (granted \cup Connecting) \ {h}
<1>3. /\ A \in SUBSET Address /\ Cardinality(A) \in Nat
      /\ Cardinality(granted \cup Connecting) = Cardinality(A) + 1
  <2>1. Cardinality(A) = Cardinality(granted \cup Connecting) - 1
    BY <1>2, CountRemove
  <2>2. Cardinality(A) \in Nat /\ Cardinality(granted \cup Connecting) \in Nat
    BY <1>2, CountNat
  <2> QED
    BY <1>2, <2>1, <2>2
<1>4. CASE UNCHANGED <<semVars, at>>
  <2>1. UNCHANGED <<slots, slotQueue, granted, at, config>>
    BY <1>4 DEF semVars
  <2> QED
    BY <2>1 DEF Types, Sem!TypeOK, SemInv, Queued, Connecting
<1>5. CASE /\ slotQueue # <<>>
           /\ granted' = granted \cup {Head(slotQueue)}
           /\ slotQueue' = Append(Tail(slotQueue), h)
           /\ UNCHANGED slots
           /\ at' = [at EXCEPT ![h] = "waiting"]
  <2> DEFINE n == Len(slotQueue)
             g == slotQueue[1]
  <2>1. /\ n \in Nat \ {0} /\ DOMAIN slotQueue = 1 .. n /\ Head(slotQueue) = g
        /\ slotQueue' \in Seq(Address) /\ DOMAIN slotQueue' = 1 .. n
        /\ slotQueue'[n] = h
        /\ \A i \in 1 .. n - 1 : slotQueue'[i] = slotQueue[i + 1]
    BY <1>1, <1>5
  <2>2. g \in Queued /\ g \in Address /\ g # h /\ g \notin granted /\ at[g] = "waiting"
    BY <1>1, <1>2, <2>1 DEF SemInv, Queued
  <2> HIDE DEF n, g
  <2>3. \A i, j \in DOMAIN slotQueue' : slotQueue'[i] = slotQueue'[j] => i = j
    <3> SUFFICES ASSUME NEW i \in 1 .. n, NEW j \in 1 .. n, slotQueue'[i] = slotQueue'[j]
                 PROVE  i = j
      BY <2>1
    <3>1. \A m \in 1 .. n - 1 : m + 1 \in DOMAIN slotQueue /\ slotQueue'[m] # h
      BY <1>2, <2>1 DEF Queued
    <3>2. CASE i = n \/ j = n
      BY <2>1, <3>1, <3>2
    <3>3. CASE i # n /\ j # n
      <4>1. slotQueue[i + 1] = slotQueue[j + 1] /\ i + 1 \in 1 .. n /\ j + 1 \in 1 .. n
        BY <2>1, <3>3
      <4> QED
        BY <2>1, <4>1 DEF SemInv
    <3> QED
      BY <3>2, <3>3
  <2>4. Queued' \subseteq (Queued \ {g}) \cup {h}
    <3> SUFFICES ASSUME NEW i \in 1 .. n, slotQueue'[i] # h
                 PROVE  slotQueue'[i] \in Queued \ {g}
      BY <2>1 DEF Queued
    <3>1. i \in 1 .. n - 1 /\ i + 1 \in DOMAIN slotQueue /\ 1 \in DOMAIN slotQueue
          /\ slotQueue'[i] = slotQueue[i + 1] /\ i + 1 # 1
      BY <2>1
    <3> QED
      BY <3>1 DEF SemInv, Queued, g
  <2>5. granted' = granted \cup {g}
    BY <1>5, <2>1
  <2>6. Queued' \cap granted' = {}
    BY <1>2, <2>2, <2>4, <2>5 DEF SemInv
  <2>7. \A f \in Queued' \cup granted' : at'[f] = "waiting"
    <3>1. \A f \in Queued \cup granted : f \in Address /\ at[f] = "waiting" /\ f # h
      BY <1>1, <1>2 DEF SemInv, Queued
    <3> QED
      BY <1>1, <1>5, <2>2, <2>4, <2>5, <3>1
  <2>8. (granted \cup Connecting)' = A \cup {g} /\ g \notin A
    <3>1. Connecting' = Connecting \ {h} /\ g \notin Connecting
      BY <1>1, <1>5, <2>2 DEF Connecting
    <3> QED
      BY <1>2, <2>2, <2>5, <3>1
  <2>9. Cardinality((granted \cup Connecting)') = Cardinality(A) + 1
    BY <1>3, <2>8, CountAdd
  <2>10. Sem!TypeOK'
    BY <1>1, <1>5, <2>1, <2>2, <2>5 DEF Sem!TypeOK
  <2>11. (slots + Cardinality(granted \cup Connecting) = Workers[config.method])'
    BY <1>2, <1>3, <1>5, <2>9
  <2> QED
    BY <1>5, <2>3, <2>6, <2>7, <2>10, <2>11 DEF SemInv
<1>6. CASE /\ slotQueue = <<>>
           /\ slots' = slots + 1
           /\ slotQueue' = <<h>>
           /\ UNCHANGED granted
           /\ at' = [at EXCEPT ![h] = "waiting"]
  <2>1. slotQueue' \in Seq(Address) /\ DOMAIN slotQueue' = {1} /\ slotQueue'[1] = h
    BY <1>6
  <2>2. Queued' = {h}
    BY <2>1 DEF Queued
  <2>3. \A f \in Queued' \cup granted' : at'[f] = "waiting"
    BY <1>1, <1>6, <2>2 DEF SemInv
  <2>4. (granted \cup Connecting)' = A
    <3>1. Connecting' = Connecting \ {h}
      BY <1>1, <1>6 DEF Connecting
    <3> QED
      BY <1>2, <1>6, <3>1
  <2> HIDE DEF A
  <2>5. (slots + Cardinality(granted \cup Connecting) = Workers[config.method])'
    <3>1. Cardinality((granted \cup Connecting)') = Cardinality(A)
      BY <2>4
    <3> QED
      BY <1>1, <1>2, <1>3, <1>6, <3>1
  <2>6. Sem!TypeOK'
    BY <1>1, <1>6, <2>1 DEF Sem!TypeOK
  <2> QED
    BY <1>2, <1>6, <2>1, <2>2, <2>3, <2>5, <2>6 DEF SemInv
<1> QED
  BY <1>4, <1>5, <1>6 DEF NextPort

-----------------------------------------------------------------------------
(* A step of acquire(): a start lies an interval after the one before.     *)
LEMMA RateStep ==
    ASSUME Types, RateInv, NEW h \in Address, Throttle!Step(h)
    PROVE  Throttle!TypeOK' /\ RateInv'
<1>1. /\ now \in Nat /\ nextSlot \in Nat /\ wakeAt \in Nat /\ passes \in Seq(Nat)
      /\ thr \in [Address -> Throttle!TaskState] /\ lockQueue \in Seq(Address)
      /\ Interval \in Nat
  BY DiscoverAssumption DEF Types, Throttle!TypeOK
<1>2. ASSUME NEW slot \in Nat, Throttle!Return(h, slot), UNCHANGED <<now, wakeAt>>,
             lockQueue' \in Seq(Address), lockQueue' # <<>> => Interval > 0,
             Interval > 0 => nextSlot <= now /\ now + Interval <= slot,
             Interval > 0 => \A g \in Address : thr[g] = "sleeping" => g = h
      PROVE  Throttle!TypeOK' /\ RateInv'
  <2>1. /\ thr' = [thr EXCEPT ![h] = "passed"] /\ passes' = Append(passes, now)
        /\ nextSlot' = slot
    BY <1>2 DEF Throttle!Return
  <2>2. /\ passes' \in Seq(Nat) /\ Len(passes') = Len(passes) + 1 /\ Len(passes) \in Nat
        /\ DOMAIN passes' = 1 .. Len(passes) + 1 /\ DOMAIN passes = 1 .. Len(passes)
        /\ passes'[Len(passes) + 1] = now
        /\ \A i \in 1 .. Len(passes) : passes'[i] = passes[i] /\ passes[i] \in Nat
    BY <1>1, <2>1
  <2>3. Throttle!TypeOK'
    BY <1>1, <1>2, <2>1, <2>2 DEF Throttle!TypeOK, Throttle!TaskState
  <2>4. \A i \in DOMAIN passes : passes[i] <= now /\ passes[i] + Interval <= now
    <3>1. \A i \in DOMAIN passes : passes[i] <= now
      BY DEF RateInv
    <3>2. Interval > 0 => \A i \in DOMAIN passes : passes[i] + Interval <= nextSlot
      BY DEF RateInv
    <3> QED
      BY <1>1, <1>2, <2>2, <3>1, <3>2
  <2>5. \A i \in DOMAIN passes' : passes'[i] <= now'
    <3>1. now' = now /\ \A i \in DOMAIN passes' : i \in DOMAIN passes \/ i = Len(passes) + 1
      BY <1>2, <2>2
    <3> QED
      BY <1>1, <2>2, <2>4, <3>1
  <2>6. Interval > 0 => \A i \in DOMAIN passes' : passes'[i] + Interval <= nextSlot'
    BY <1>1, <1>2, <2>1, <2>2, <2>4
  <2>7. \A g \in Address : thr'[g] = "sleeping" => thr[g] = "sleeping" /\ g # h
    BY <1>1, <2>1
  <2>8. /\ \A f, g \in Address : thr'[f] = "sleeping" /\ thr'[g] = "sleeping" => f = g
        /\ \A g \in Address : thr'[g] = "sleeping" => Interval > 0 /\ wakeAt' = nextSlot'
    BY <1>1, <1>2, <2>1, <2>7 DEF RateInv
  <2>9. Throttle!StrictRate'
    <3> SUFFICES ASSUME NEW i \in 2 .. Len(passes) + 1
                 PROVE  passes'[i] - passes'[i - 1] >= Interval
      BY <2>2 DEF Throttle!StrictRate
    <3>1. CASE i \in 2 .. Len(passes)
      <4>1. passes'[i] = passes[i] /\ passes'[i - 1] = passes[i - 1]
        BY <2>2, <3>1
      <4> QED
        BY <3>1, <4>1 DEF RateInv, Throttle!StrictRate
    <3>2. CASE i = Len(passes) + 1
      <4>1. i - 1 \in DOMAIN passes /\ passes'[i - 1] = passes[i - 1] /\ passes'[i] = now
        BY <2>2, <3>2
      <4>2. passes[i - 1] \in Nat /\ passes[i - 1] + Interval <= now
        BY <2>2, <2>4, <4>1
      <4> QED
        BY <1>1, <4>1, <4>2
    <3> QED
      BY <2>2, <3>1, <3>2
  <2> QED
    BY <1>2, <2>3, <2>5, <2>6, <2>8, <2>9 DEF RateInv
<1>3. ASSUME thr' = [thr EXCEPT ![h] = "queued"], UNCHANGED <<now, nextSlot, wakeAt, passes>>,
             lockQueue' \in Seq(Address), Interval > 0
      PROVE  Throttle!TypeOK' /\ RateInv'
  <2>1. \A g \in Address : thr'[g] = "sleeping" => thr[g] = "sleeping"
    BY <1>1, <1>3
  <2>2. Throttle!StrictRate'
    BY <1>3 DEF RateInv, Throttle!StrictRate
  <2>3. Throttle!TypeOK'
    BY <1>1, <1>3 DEF Throttle!TypeOK, Throttle!TaskState
  <2>4. /\ \A f, g \in Address : thr'[f] = "sleeping" /\ thr'[g] = "sleeping" => f = g
        /\ \A g \in Address : thr'[g] = "sleeping" => Interval > 0 /\ wakeAt' = nextSlot'
    BY <1>3, <2>1 DEF RateInv
  <2>5. /\ \A i \in DOMAIN passes' : passes'[i] <= now'
        /\ Interval > 0 => \A i \in DOMAIN passes' : passes'[i] + Interval <= nextSlot'
    BY <1>3 DEF RateInv
  <2> QED
    BY <1>3, <2>2, <2>3, <2>4, <2>5 DEF RateInv
<1>4. ASSUME Throttle!Enter(h), UNCHANGED now, Throttle!LockFree,
             lockQueue' \in Seq(Address), Interval > 0
      PROVE  Throttle!TypeOK' /\ RateInv'
  <2>1. \A g \in Address : thr[g] # "sleeping"
    BY <1>4 DEF Throttle!LockFree
  <2>2. CASE /\ nextSlot > now
             /\ thr' = [thr EXCEPT ![h] = "sleeping"]
             /\ wakeAt' = nextSlot
             /\ UNCHANGED <<nextSlot, passes>>
    <3>1. \A g \in Address : thr'[g] = "sleeping" => g = h
      BY <1>1, <2>1, <2>2
    <3>2. Throttle!StrictRate'
      BY <2>2 DEF RateInv, Throttle!StrictRate
    <3>3. Throttle!TypeOK'
      BY <1>1, <1>4, <2>2 DEF Throttle!TypeOK, Throttle!TaskState
    <3> QED
      BY <1>4, <2>2, <3>1, <3>2, <3>3 DEF RateInv
  <2>3. CASE nextSlot <= now /\ Throttle!Return(h, now + Interval) /\ UNCHANGED wakeAt
    BY <1>1, <1>2, <1>4, <2>1, <2>3
  <2> QED
    BY <1>4, <2>2, <2>3 DEF Throttle!Enter
<1>5. CASE Throttle!AcquireFree(h)
  <2>1. UNCHANGED <<now, lockQueue>> /\ (Interval > 0 => Throttle!LockFree)
    BY <1>5 DEF Throttle!AcquireFree
  <2>2. CASE Interval = 0
    <3>1. Throttle!Return(h, nextSlot) /\ UNCHANGED wakeAt /\ ~(Interval > 0)
      BY <1>5, <2>2 DEF Throttle!AcquireFree
    <3>2. lockQueue' \in Seq(Address) /\ (lockQueue' # <<>> => Interval > 0)
      BY <1>1, <2>1 DEF RateInv
    <3> QED
      BY <1>1, <1>2, <2>1, <2>2, <3>1, <3>2
  <2>3. CASE Interval # 0
    BY <1>1, <1>4, <1>5, <2>1, <2>3 DEF Throttle!AcquireFree
  <2> QED
    BY <2>2, <2>3
<1>6. CASE Throttle!AcquireBusy(h)
  BY <1>1, <1>3, <1>6 DEF Throttle!AcquireBusy
<1>7. CASE Throttle!Granted(h)
  <2>1. Interval > 0 /\ lockQueue' \in Seq(Address)
    BY <1>1, <1>7 DEF Throttle!Granted, RateInv
  <2>2. Throttle!Enter(h) /\ UNCHANGED now /\ Throttle!LockFree
    BY <1>7 DEF Throttle!Granted
  <2> QED
    BY <1>4, <2>1, <2>2
<1>8. CASE Throttle!Wake(h)
  <2>1. /\ thr[h] = "sleeping" /\ wakeAt <= now /\ UNCHANGED <<now, lockQueue, wakeAt>>
        /\ Throttle!Return(h, Throttle!SlotFromClock)
    BY <1>8 DEF Throttle!Wake
  <2>2. /\ nextSlot <= now /\ Interval > 0
        /\ \A g \in Address : thr[g] = "sleeping" => g = h
    BY <2>1 DEF RateInv
  <2>3. Throttle!SlotFromClock = now + Interval /\ now + Interval \in Nat
    BY <1>1, <2>2 DEF Throttle!SlotFromClock
  <2>4. now + Interval <= now + Interval
    BY <2>3
  <2>5. Throttle!Return(h, now + Interval)
    BY <2>1, <2>3
  <2>6. lockQueue' \in Seq(Address)
    BY <1>1, <2>1
  <2> QED
    BY <1>2, <2>1, <2>2, <2>3, <2>4, <2>5, <2>6
<1> QED
  BY <1>5, <1>6, <1>7, <1>8 DEF Throttle!Step, Throttle!Acquire

-----------------------------------------------------------------------------
(* What the command line says stays as it is. *)
LEMMA Fixed ==
    ASSUME UNCHANGED config
    PROVE  /\ Network' = Network /\ Hosts' = Hosts /\ TooMany' = TooMany
           /\ \A h : Rank(h)' = Rank(h)
<1>1. Network' = Network
  BY DEF Network
<1>2. Hosts' = Hosts
  BY <1>1 DEF Hosts
<1> QED
  BY <1>1, <1>2 DEF TooMany, Rank

(* No host has been found before the sweep. *)
LEMMA BeforeSweep ==
    ASSUME IInv, batch = 0
    PROVE  live = {}
<1>1. \A h \in Address : tried[h] = <<>>
  BY DEF IInv, StageInv, HostInv
<1>2. \A h \in Address : DOMAIN tried[h] = {}
  BY <1>1
<1> QED
  BY <1>2 DEF IInv, LiveInv

LEMMA InitInv == Init => IInv
<1> SUFFICES ASSUME Init PROVE IInv
  OBVIOUS
<1>1. /\ config \in Configs /\ stage = "start" /\ child = "none"
      /\ now = 0 /\ nextSlot = 0 /\ thr = [h \in Address |-> "new"] /\ lockQueue = <<>>
      /\ wakeAt = 0 /\ passes = <<>>
      /\ slots = Workers[config.method] /\ slotQueue = <<>> /\ granted = {}
      /\ batch = 0 /\ at = [h \in Address |-> "throttle"]
      /\ tried = [h \in Address |-> <<>>] /\ live = {} /\ listed = {}
  BY DEF Init, Process!Init, Throttle!Init, Sem!Init
<1>2. Workers[config.method] \in Nat \ {0}
  BY <1>1, HostFacts
<1>3. Types
  BY <1>1, <1>2 DEF Types, Process!TypeOK, Throttle!TypeOK, Throttle!TaskState, Sem!TypeOK, Phase
<1>4. StageInv
  BY <1>1 DEF StageInv
<1>5. SemInv
  <2>1. Queued = {} /\ Connecting = {} /\ granted \cup Connecting = {}
    BY <1>1 DEF Queued, Connecting
  <2>2. Cardinality(granted \cup Connecting) = 0
    BY <2>1, FS_EmptySet
  <2> QED
    BY <1>1, <1>2, <2>1, <2>2 DEF SemInv
<1>6. RateInv
  BY <1>1 DEF RateInv, Throttle!StrictRate
<1>7. HostInv /\ LiveInv
  BY <1>1 DEF HostInv, LiveInv
<1> QED
  BY <1>3, <1>4, <1>5, <1>6, <1>7 DEF IInv

(* A step that only takes the command to another stage.                    *)
LEMMA StageStep ==
    ASSUME IInv, UNCHANGED <<config, sweepVars>>,
           stage' \in {"start", "masscan", "sweep", "arp", "listed", "raised"},
           Process!TypeOK', listed' \subseteq Network, StageInv',
           stage' = "sweep" \/ batch = 0 \/ \A h \in Hosts : at[h] = "done"
    PROVE  IInv'
<1>1. UNCHANGED <<config, batch, now, nextSlot, thr, lockQueue, wakeAt, passes, slots,
                  slotQueue, granted, at, tried, live>>
  BY DEF sweepVars, throttleVars, semVars, probeVars
<1>2. Types'
  BY <1>1, Fixed DEF IInv, Types, Throttle!TypeOK, Sem!TypeOK
<1>3. SemInv'
  BY <1>1 DEF IInv, SemInv, Queued, Connecting
<1>4. RateInv'
  BY <1>1 DEF IInv, RateInv, Throttle!StrictRate
<1>5. LiveInv'
  BY <1>1 DEF IInv, LiveInv, Hit
<1>6. \A h \in Address : at[h] \in {"waiting", "connecting"} => stage' = "sweep"
  BY DEF IInv, HostInv, StageInv
<1>7. HostInv'
  BY <1>1, <1>6, Fixed DEF IInv, HostInv, Hit
<1> QED
  BY <1>2, <1>3, <1>4, <1>5, <1>7 DEF IInv

LEMMA StartStep == ASSUME IInv, Start PROVE IInv'
<1>1. /\ stage = "start" /\ UNCHANGED <<config, child, sweepVars, listed>>
      /\ stage' \in {"masscan", "sweep", "arp", "listed", "raised"}
      /\ stage' = "masscan" => config.privileged
  BY DEF Start
<1>2. batch = 0 /\ batch' = batch /\ UNCHANGED <<at, live>> /\ child = "none" /\ listed = {}
  BY <1>1 DEF IInv, StageInv, sweepVars, probeVars, Types
<1>3. live = {}
  BY <1>2, BeforeSweep
<1>4. StageInv'
  BY <1>1, <1>2, <1>3 DEF IInv, StageInv
<1>5. Process!TypeOK' /\ listed' \subseteq Network
  BY <1>1, <1>2 DEF Process!TypeOK
<1> QED
  BY <1>1, <1>2, <1>4, <1>5, StageStep

LEMMA MasscanStep == ASSUME IInv, Masscan PROVE IInv'
<1>1. stage = "masscan"
  BY DEF IInv, StageInv, Masscan, StartMasscan, MasscanExit, MasscanDone, MasscanTimeout,
         FallBack, Process!Exit, Process!Collect, Process!Exited, Process!Kill
<1>2. UNCHANGED <<config, sweepVars>>
  BY DEF Masscan, StartMasscan, MasscanExit, MasscanDone, MasscanTimeout, FallBack
<1>3. batch = 0 /\ UNCHANGED <<batch, at, live>> /\ listed = {} /\ config.privileged
  BY <1>1, <1>2 DEF IInv, StageInv, sweepVars, probeVars, Types
<1>4. live = {}
  BY <1>3, BeforeSweep
<1>5. /\ Process!TypeOK' /\ listed' \subseteq Network
      /\ \/ stage' = "masscan" /\ listed' = {}
         \/ stage' = "sweep" /\ child' = "none" /\ listed' = {}
         \/ stage' = "listed" /\ child' = "none"
  <2>1. CASE StartMasscan
    BY <1>1, <1>3, <2>1 DEF StartMasscan, Process!Start, Process!TypeOK
  <2>2. CASE MasscanExit
    BY <1>1, <1>3, <2>2 DEF MasscanExit, Process!Exit, Process!TypeOK
  <2>3. CASE MasscanDone
    BY <1>1, <1>3, <2>3 DEF MasscanDone, Process!Collect, Process!TypeOK, List
  <2>4. CASE MasscanTimeout
    BY <1>1, <1>3, <2>4 DEF MasscanTimeout, Process!Kill, Process!TypeOK
  <2>5. CASE FallBack
    BY <1>1, <1>3, <2>5 DEF FallBack, Process!Wait, Process!TypeOK
  <2> QED
    BY <2>1, <2>2, <2>3, <2>4, <2>5 DEF Masscan
<1>6. StageInv'
  BY <1>2, <1>3, <1>4, <1>5 DEF IInv, StageInv
<1> QED
  BY <1>2, <1>3, <1>5, <1>6, StageStep

(* The sweep's result is listed, or the ARP scan comes next.               *)
LEMMA SweptStep ==
    ASSUME IInv, stage = "sweep", UNCHANGED <<config, child, sweepVars>>,
           Swept(live), batch = 0 \/ \A h \in Hosts : at[h] = "done"
    PROVE  IInv'
<1>1. \/ stage' = "arp" /\ listed' = listed
      \/ stage' = "listed" /\ listed' = live
  <2>1. CASE config.method = "both"
    BY <2>1 DEF Swept
  <2>2. CASE config.method # "both"
    BY <2>2 DEF Swept, List
  <2> QED
    BY <2>1, <2>2
<1>2. UNCHANGED <<batch, at, live>> /\ child = "none" /\ listed = {}
  BY DEF IInv, StageInv, sweepVars, probeVars
<1>3. live \subseteq Hosts /\ Hosts \subseteq Network
  <2>1. \A h \in Address : \A i \in DOMAIN tried[h] : Hit(h, i) => h \in Hosts
    BY DEF IInv, HostInv
  <2> QED
    BY <2>1, HostFacts DEF IInv, Types, LiveInv
<1>4. StageInv'
  BY <1>1, <1>2, Fixed DEF IInv, StageInv
<1>5. Process!TypeOK' /\ listed' \subseteq Network
  BY <1>1, <1>2, <1>3 DEF Process!TypeOK
<1> QED
  BY <1>1, <1>4, <1>5, StageStep

LEMMA StartSweepStep == ASSUME IInv, StartSweep PROVE IInv'
<1>1. /\ stage = "sweep" /\ batch = 0
      /\ UNCHANGED <<config, child, throttleVars, semVars, probeVars>>
  BY DEF StartSweep
<1>2. CASE TooMany /\ stage' = "raised" /\ UNCHANGED <<batch, listed>>
  <2>1. UNCHANGED <<config, sweepVars>>
    BY <1>1, <1>2 DEF sweepVars
  <2>2. StageInv' /\ Process!TypeOK' /\ listed' \subseteq Network
    BY <1>1, <1>2 DEF IInv, StageInv, Types, probeVars, Process!TypeOK
  <2> QED
    BY <1>1, <1>2, <2>1, <2>2, StageStep
<1>3. CASE Swept({}) /\ UNCHANGED batch
  <2>1. live = {} /\ UNCHANGED <<config, child, sweepVars>>
    BY <1>1, <1>3, BeforeSweep DEF sweepVars
  <2> QED
    BY <1>1, <1>3, <2>1, SweptStep
<1>4. CASE /\ ~TooMany /\ config.ports > 0 /\ batch' = 1
           /\ UNCHANGED <<stage, listed>>
  <2>1. UNCHANGED <<config, stage, child, now, nextSlot, thr, lockQueue, wakeAt, passes, slots,
                    slotQueue, granted, at, tried, live, listed>>
    BY <1>1, <1>4 DEF throttleVars, semVars, probeVars
  <2>2. Types'
    BY <1>4, <2>1, Fixed DEF IInv, Types, Throttle!TypeOK, Sem!TypeOK, Process!TypeOK
  <2>3. StageInv'
    BY <1>1, <1>4, <2>1, Fixed DEF IInv, StageInv
  <2>4. SemInv' /\ RateInv' /\ LiveInv'
    BY <2>1 DEF IInv, SemInv, Queued, Connecting, RateInv, Throttle!StrictRate, LiveInv, Hit
  <2>5. \A h \in Address : at[h] = "throttle" /\ tried[h] = <<>> /\ DOMAIN tried[h] = {}
    <3>1. \A h \in Address : at[h] = "throttle" /\ tried[h] = <<>>
      BY <1>1 DEF IInv, StageInv, HostInv
    <3> QED
      BY <3>1
  <2>6. (batch' - 1) * BatchSize = 0 /\ \A h \in Hosts : Rank(h) > 0
    <3>1. batch' - 1 = 0
      BY <1>4
    <3> QED
      BY <3>1, BatchEnds, HostFacts DEF IInv, Types
  <2>7. HostInv'
    BY <2>1, <2>5, <2>6, Fixed DEF HostInv
  <2> QED
    BY <2>2, <2>3, <2>4, <2>7 DEF IInv
<1> QED
  BY <1>2, <1>3, <1>4 DEF StartSweep

LEMMA BatchOverStep == ASSUME IInv, BatchOver PROVE IInv'
<1>1. /\ stage = "sweep" /\ batch > 0 /\ batch \in Nat
      /\ \A h \in Batch(batch) : at[h] = "done"
      /\ UNCHANGED <<config, child, throttleVars, semVars, probeVars>>
  BY DEF BatchOver, IInv, Types
<1> DEFINE end == batch * BatchSize
<1>2. /\ end \in Nat /\ (batch + 1) * BatchSize = end + BatchSize /\ BatchSize \in Nat \ {0}
      /\ (batch - 1) * BatchSize = end - BatchSize
  BY <1>1, BatchEnds
<1>3. \A h \in Hosts : h \in Address /\ Rank(h) \in Nat /\ Rank(h) <= Cardinality(Hosts)
  BY HostFacts DEF IInv, Types
<1> HIDE DEF end
<1>4. \A h \in Hosts : at[h] # "done" => end < Rank(h)
  <2> SUFFICES ASSUME NEW h \in Hosts, at[h] # "done" PROVE end < Rank(h)
    OBVIOUS
  <2>1. (batch - 1) * BatchSize < Rank(h) /\ h \notin Batch(batch)
    BY <1>1, <1>3 DEF IInv, HostInv
  <2>2. ~(Rank(h) <= end)
    BY <1>1, <2>1, InBatch DEF end
  <2> QED
    BY <1>2, <1>3, <2>2
<1>5. CASE batch' = batch + 1 /\ UNCHANGED <<stage, listed>>
  <2>1. UNCHANGED <<config, stage, child, now, nextSlot, thr, lockQueue, wakeAt, passes, slots,
                    slotQueue, granted, at, tried, live, listed>>
    BY <1>1, <1>5 DEF throttleVars, semVars, probeVars
  <2>2. Types'
    BY <1>1, <1>5, <2>1, Fixed DEF IInv, Types, Throttle!TypeOK, Sem!TypeOK, Process!TypeOK
  <2>3. StageInv'
    BY <1>1, <1>5, <2>1, Fixed DEF IInv, StageInv
  <2>4. SemInv' /\ RateInv' /\ LiveInv'
    BY <2>1 DEF IInv, SemInv, Queued, Connecting, RateInv, Throttle!StrictRate, LiveInv, Hit
  <2>5. batch' * BatchSize = end + BatchSize /\ (batch' - 1) * BatchSize = end /\ batch' > 0
    <3>1. batch' - 1 = batch
      BY <1>1, <1>5
    <3> QED
      BY <1>1, <1>2, <1>5, <3>1 DEF end
  <2>6. \A h \in Address : at[h] # "throttle" => h \in Hosts /\ Rank(h) <= end
    BY DEF IInv, HostInv, end
  <2>7. \A h \in Address : at'[h] # "throttle" => h \in Hosts /\ Rank(h) <= batch' * BatchSize
    BY <1>2, <1>3, <2>1, <2>5, <2>6
  <2>8. \A h \in Hosts : at'[h] # "done" => (batch' - 1) * BatchSize < Rank(h)
    BY <1>4, <2>1, <2>5
  <2>9. HostInv'
    BY <2>1, <2>5, <2>7, <2>8, Fixed DEF IInv, HostInv, Hit
  <2> QED
    BY <2>2, <2>3, <2>4, <2>9 DEF IInv
<1>6. CASE LastBatch /\ Swept(live) /\ UNCHANGED batch
  <2>1. Cardinality(Hosts) <= end /\ Cardinality(Hosts) \in Nat
    BY <1>2, <1>6, HostFacts DEF LastBatch, end, IInv, Types
  <2>2. \A h \in Hosts : at[h] = "done"
    BY <1>2, <1>3, <1>4, <2>1
  <2>3. UNCHANGED <<config, child, sweepVars>>
    BY <1>1, <1>6 DEF sweepVars
  <2> QED
    BY <1>1, <1>6, <2>2, <2>3, SweptStep
<1> QED
  BY <1>5, <1>6 DEF BatchOver

LEMMA ArpStep == ASSUME IInv, ArpScan PROVE IInv'
<1>1. stage = "arp" /\ UNCHANGED <<config, child, sweepVars>>
  BY DEF ArpScan
<1>2. UNCHANGED <<batch, at, live>> /\ child = "none" /\ listed = {}
  BY <1>1 DEF IInv, StageInv, sweepVars, probeVars
<1>3. live \subseteq Network
  <2>1. \A h \in Address : \A i \in DOMAIN tried[h] : Hit(h, i) => h \in Hosts
    BY DEF IInv, HostInv
  <2> QED
    BY <2>1, HostFacts DEF IInv, Types, LiveInv
<1>4. /\ listed' \subseteq Network
      /\ \/ stage' = "listed" /\ live \subseteq listed'
         \/ stage' = "raised" /\ listed' = {}
  BY <1>2, <1>3 DEF ArpScan, List
<1>5. StageInv'
  BY <1>1, <1>2, <1>4, Fixed DEF IInv, StageInv
<1>6. batch = 0 \/ \A h \in Hosts : at[h] = "done"
  BY <1>1 DEF IInv, StageInv, Types
<1> QED
  BY <1>1, <1>2, <1>4, <1>5, <1>6, StageStep DEF Process!TypeOK

(* A host that is probed goes from one port's connect to the next.         *)
LEMMA HostMoves ==
    ASSUME IInv, NEW h \in Hosts, stage = "sweep", batch > 0, at[h] # "done",
           Rank(h) <= batch * BatchSize, Len(tried[h]) < config.ports,
           UNCHANGED <<config, stage, child, batch, tried, live, listed>>,
           at' = at \/ \E place \in {"waiting", "connecting"} : at' = [at EXCEPT ![h] = place],
           Sem!TypeOK', SemInv', Throttle!TypeOK', RateInv'
    PROVE  IInv'
<1>1. h \in Address /\ at \in [Address -> Phase] /\ batch \in Nat
  BY HostFacts DEF IInv, Types
<1>2. /\ at' \in [Address -> Phase]
      /\ \A g \in Address : at'[g] # at[g] => g = h /\ at'[g] \in {"waiting", "connecting"}
      /\ \A g \in Address : at'[g] = "done" <=> at[g] = "done"
  BY <1>1 DEF Phase
<1>3. Types'
  BY <1>2, Fixed DEF IInv, Types, Process!TypeOK
<1>4. StageInv'
  BY <1>1, Fixed DEF IInv, StageInv
<1>5. LiveInv'
  BY DEF IInv, LiveInv, Hit
<1>6. HostInv'
  <2> SUFFICES ASSUME NEW g \in Address
               PROVE  /\ at'[g] # "throttle" => g \in Hosts /\ Rank(g) <= batch * BatchSize
                      /\ g \in Hosts /\ at'[g] # "done" /\ batch > 0 =>
                            (batch - 1) * BatchSize < Rank(g)
                      /\ at'[g] = "throttle" => tried[g] = <<>>
                      /\ at'[g] \in {"waiting", "connecting"} =>
                            stage = "sweep" /\ batch > 0 /\ Len(tried[g]) < config.ports
                      /\ \A i \in DOMAIN tried[g] :
                            Hit(g, i) => at'[g] = "done" /\ i = Len(tried[g])
                      /\ at'[g] = "done" =>
                            Len(tried[g]) = config.ports \/ \E i \in DOMAIN tried[g] : Hit(g, i)
    BY Fixed DEF HostInv, Hit
  <2>1. CASE at'[g] = at[g]
    BY <2>1 DEF IInv, HostInv
  <2>2. CASE at'[g] # at[g]
    BY <1>2, <2>2 DEF IInv, HostInv
  <2> QED
    BY <2>1, <2>2
<1> QED
  BY <1>3, <1>4, <1>5, <1>6 DEF IInv

LEMMA PassThrottleStep == ASSUME IInv, NEW h \in Address, PassThrottle(h) PROVE IInv'
<1>1. /\ Probing(h) /\ at[h] = "throttle" /\ Throttle!Step(h)
      /\ UNCHANGED <<config, stage, child, batch, tried, live, listed>>
  BY DEF PassThrottle
<1>2. h \in Hosts /\ stage = "sweep" /\ batch > 0 /\ batch \in Nat /\ Rank(h) <= batch * BatchSize
  BY <1>1, InBatch DEF Probing, IInv, Types
<1>3. Len(tried[h]) < config.ports
  BY <1>1, <1>2 DEF IInv, HostInv, StageInv
<1>4. Throttle!TypeOK' /\ RateInv'
  BY <1>1, RateStep DEF IInv
<1>5. /\ Sem!TypeOK' /\ SemInv'
      /\ at' = at \/ \E place \in {"waiting", "connecting"} : at' = [at EXCEPT ![h] = place]
  <2>1. CASE RequestSlot(h)
    BY <1>1, <2>1, TakeSem, EnqueueSem DEF RequestSlot, IInv
  <2>2. CASE UNCHANGED <<semVars, at>>
    <3>1. UNCHANGED <<slots, slotQueue, granted, at, config>>
      BY <1>1, <2>2 DEF semVars
    <3> QED
      BY <3>1 DEF IInv, Types, Sem!TypeOK, SemInv, Queued, Connecting
  <2> QED
    BY <2>1, <2>2 DEF PassThrottle
<1> QED
  BY <1>1, <1>2, <1>3, <1>4, <1>5, HostMoves

LEMMA ResumeStep == ASSUME IInv, NEW h \in Address, Resume(h) PROVE IInv'
<1>1. /\ at[h] = "waiting" /\ Sem!Resume(h) /\ at' = [at EXCEPT ![h] = "connecting"]
      /\ UNCHANGED <<config, stage, child, batch, throttleVars, tried, live, listed>>
  BY DEF Resume
<1>2. /\ h \in Hosts /\ stage = "sweep" /\ batch > 0 /\ Rank(h) <= batch * BatchSize
      /\ Len(tried[h]) < config.ports
  BY <1>1 DEF IInv, HostInv
<1>3. Sem!TypeOK' /\ SemInv'
  BY <1>1, ResumeSem DEF IInv
<1>4. Throttle!TypeOK' /\ RateInv'
  <2>1. UNCHANGED <<now, nextSlot, thr, lockQueue, wakeAt, passes>>
    BY <1>1 DEF throttleVars
  <2> QED
    BY <2>1 DEF IInv, Types, Throttle!TypeOK, RateInv, Throttle!StrictRate
<1> QED
  BY <1>1, <1>2, <1>3, <1>4, HostMoves

LEMMA ConnectEndsStep == ASSUME IInv, NEW h \in Address, ConnectEnds(h) PROVE IInv'
<1>1. /\ at[h] = "connecting" /\ \E answer \in Answer : Answered(h, answer)
      /\ UNCHANGED <<config, stage, child, batch, listed>>
      /\ UNCHANGED <<now, nextSlot, thr, lockQueue, wakeAt, passes>>
  BY DEF ConnectEnds, throttleVars
<1>2. PICK answer \in Answer : Answered(h, answer)
  BY <1>1
<1>3. /\ h \in Hosts /\ stage = "sweep" /\ batch > 0 /\ Rank(h) <= batch * BatchSize
      /\ Len(tried[h]) < config.ports /\ config.ports \in Nat
      /\ at \in [Address -> Phase] /\ tried \in [Address -> Seq(Answer)]
      /\ \A i \in DOMAIN tried[h] : tried[h][i] \notin Reached
  BY <1>1, HostFacts DEF IInv, HostInv, Types, Hit
<1> DEFINE n == Len(tried[h])
<1>4. /\ tried' \in [Address -> Seq(Answer)] /\ \A g \in Address : g # h => tried'[g] = tried[g]
      /\ tried'[h] = Append(tried[h], answer)
  BY <1>2, <1>3 DEF Answered
<1>5. /\ n \in Nat /\ Len(tried'[h]) = n + 1 /\ DOMAIN tried'[h] = 1 .. n + 1
      /\ tried'[h][n + 1] = answer
      /\ \A i \in 1 .. n : tried'[h][i] \notin Reached
  BY <1>3, <1>4
<1>6. /\ Sem!TypeOK' /\ SemInv'
      /\ at' \in [Address -> Phase] /\ \A g \in Address : g # h => at'[g] = at[g]
      /\ \/ answer \in Reached /\ live' = live \cup {h} /\ at'[h] = "done"
         \/ /\ answer \notin Reached /\ live' = live
            /\ n + 1 < config.ports /\ at'[h] \in {"waiting", "connecting"}
         \/ answer \notin Reached /\ live' = live /\ n + 1 = config.ports /\ at'[h] = "done"
  <2>1. CASE Sem!Release /\ at' = [at EXCEPT ![h] = "done"]
    <3>1. Sem!TypeOK' /\ SemInv'
      BY <1>1, <2>1, ReleaseSem DEF IInv
    <3>2. /\ at' \in [Address -> Phase] /\ at'[h] = "done"
          /\ \A g \in Address : g # h => at'[g] = at[g]
      BY <1>3, <2>1 DEF Phase
    <3>3. CASE answer \in Reached
      BY <1>2, <3>1, <3>2, <3>3 DEF Answered
    <3>4. CASE answer \notin Reached
      <4>1. live' = live /\ (n + 1 < config.ports => NextPort(h))
        BY <1>2, <3>4 DEF Answered
      <4>2. ~(n + 1 < config.ports)
        <5>1. NextPort(h) => at'[h] # "done"
          BY <1>1, <1>3 DEF NextPort
        <5> QED
          BY <3>2, <4>1, <5>1
      <4>3. n + 1 = config.ports
        BY <1>3, <1>5, <4>2
      <4> QED
        BY <3>1, <3>2, <3>4, <4>1, <4>3
    <3> QED
      BY <3>3, <3>4
  <2>2. CASE answer \notin Reached /\ live' = live /\ n + 1 < config.ports /\ NextPort(h)
    <3>1. /\ Sem!TypeOK' /\ SemInv'
          /\ at' = at \/ at' = [at EXCEPT ![h] = "waiting"]
      BY <1>1, <2>2, NextPortSem DEF IInv
    <3> QED
      BY <1>1, <1>3, <2>2, <3>1 DEF Phase
  <2> QED
    BY <1>2, <2>1, <2>2 DEF Answered
<1> HIDE DEF n
<1>7. Types'
  BY <1>1, <1>4, <1>6, Fixed DEF IInv, Types, Throttle!TypeOK, Process!TypeOK
<1>8. StageInv' /\ RateInv'
  BY <1>1, <1>3, Fixed DEF IInv, StageInv, RateInv, Throttle!StrictRate, Types
<1>9. LiveInv'
  <2>1. (\E i \in DOMAIN tried'[h] : tried'[h][i] \in Reached) <=> answer \in Reached
    BY <1>5
  <2>2. \A i \in DOMAIN tried[h] : tried[h][i] \notin Reached
    BY <1>3
  <2> QED
    BY <1>4, <1>6, <2>1, <2>2 DEF IInv, LiveInv, Hit
<1>10. HostInv'
  <2> SUFFICES ASSUME NEW g \in Address
               PROVE  /\ at'[g] # "throttle" => g \in Hosts /\ Rank(g) <= batch * BatchSize
                      /\ g \in Hosts /\ at'[g] # "done" /\ batch > 0 =>
                            (batch - 1) * BatchSize < Rank(g)
                      /\ at'[g] = "throttle" => tried'[g] = <<>>
                      /\ at'[g] \in {"waiting", "connecting"} =>
                            stage = "sweep" /\ batch > 0 /\ Len(tried'[g]) < config.ports
                      /\ \A i \in DOMAIN tried'[g] :
                            tried'[g][i] \in Reached => at'[g] = "done" /\ i = Len(tried'[g])
                      /\ at'[g] = "done" =>
                            \/ Len(tried'[g]) = config.ports
                            \/ \E i \in DOMAIN tried'[g] : tried'[g][i] \in Reached
    BY <1>1, Fixed DEF HostInv, Hit
  <2>1. CASE g # h
    BY <1>4, <1>6, <2>1 DEF IInv, HostInv, Hit
  <2>2. CASE g = h
    <3>1. (batch - 1) * BatchSize < Rank(h)
      BY <1>1, <1>3 DEF IInv, HostInv
    <3>2. \A i \in 1 .. n + 1 : tried'[h][i] \in Reached => answer \in Reached /\ i = n + 1
      BY <1>5
    <3>3. answer \in Reached => \E i \in 1 .. n + 1 : tried'[h][i] \in Reached
      BY <1>5
    <3> QED
      BY <1>3, <1>5, <1>6, <2>2, <3>1, <3>2, <3>3
  <2> QED
    BY <2>1, <2>2
<1> QED
  BY <1>6, <1>7, <1>8, <1>9, <1>10 DEF IInv

LEMMA TickStep == ASSUME IInv, Tick PROVE IInv'
<1>1. /\ UNCHANGED <<config, stage, child, batch, slots, slotQueue, granted, at, tried, live, listed>>
      /\ UNCHANGED <<nextSlot, thr, lockQueue, wakeAt, passes>> /\ now' = now + 1
  BY DEF Tick, Throttle!Tick, semVars, probeVars
<1>2. now \in Nat /\ passes \in Seq(Nat)
  BY DEF IInv, Types, Throttle!TypeOK
<1>3. Types'
  BY <1>1, <1>2, Fixed DEF IInv, Types, Throttle!TypeOK, Sem!TypeOK, Process!TypeOK
<1>4. StageInv' /\ LiveInv' /\ HostInv'
  BY <1>1, Fixed DEF IInv, StageInv, LiveInv, HostInv, Hit
<1>5. SemInv'
  BY <1>1 DEF IInv, SemInv, Queued, Connecting
<1>6. \A i \in DOMAIN passes : passes[i] \in Nat /\ passes[i] <= now + 1
  BY <1>2 DEF IInv, RateInv
<1>7. RateInv'
  BY <1>1, <1>6 DEF IInv, RateInv, Throttle!StrictRate
<1> QED
  BY <1>3, <1>4, <1>5, <1>7 DEF IInv

LEMMA Stutter == ASSUME IInv, UNCHANGED vars PROVE IInv'
<1>1. UNCHANGED <<config, stage, child, sweepVars, listed>>
  BY DEF vars
<1>2. batch' = batch /\ at' = at /\ live' = live
  BY <1>1 DEF sweepVars, probeVars
<1>3. StageInv' /\ Process!TypeOK' /\ listed' \subseteq Network
  BY <1>1, <1>2, Fixed DEF IInv, StageInv, Types, Process!TypeOK
<1>4. stage = "sweep" \/ batch = 0 \/ \A h \in Hosts : at[h] = "done"
  BY DEF IInv, StageInv, Types
<1>5. stage' \in {"start", "masscan", "sweep", "arp", "listed", "raised"}
  BY <1>1 DEF IInv, Types
<1> QED
  BY <1>1, <1>3, <1>4, <1>5, StageStep

LEMMA Invariance == Spec => []IInv
<1>1. IInv /\ [Next]_vars => IInv'
  <2> SUFFICES ASSUME IInv, [Next]_vars PROVE IInv'
    OBVIOUS
  <2>1. CASE Start
    BY <2>1, StartStep
  <2>2. CASE Masscan
    BY <2>2, MasscanStep
  <2>3. CASE StartSweep
    BY <2>3, StartSweepStep
  <2>4. ASSUME NEW h \in Address, PassThrottle(h) \/ Resume(h) \/ ConnectEnds(h)
        PROVE  IInv'
    BY <2>4, PassThrottleStep, ResumeStep, ConnectEndsStep
  <2>5. CASE BatchOver
    BY <2>5, BatchOverStep
  <2>6. CASE Tick
    BY <2>6, TickStep
  <2>7. CASE ArpScan
    BY <2>7, ArpStep
  <2>8. CASE UNCHANGED vars
    BY <2>8, Stutter
  <2> QED
    BY <2>1, <2>2, <2>3, <2>4, <2>5, <2>6, <2>7, <2>8 DEF Next, Finished
<1> QED
  BY InitInv, <1>1, PTL DEF Spec

-----------------------------------------------------------------------------
(* fast.py:131-180: every host that is probed has a place in its batch, a  *)
(* slot is never freed twice, and what the command lists is in the range   *)
(* it was given.                                                           *)
THEOREM TypeCorrectness == Spec => []TypeOK
<1>1. IInv => TypeOK
  <2> SUFFICES ASSUME IInv PROVE TypeOK
    OBVIOUS
  <2>1. slots <= Workers[config.method]
    <3>1. granted \cup Connecting \in SUBSET Address
      BY DEF IInv, Types, Sem!TypeOK, Connecting
    <3>2. Cardinality(granted \cup Connecting) \in Nat
      BY <3>1, CountNat
    <3> QED
      BY <3>2 DEF IInv, SemInv, Types, Sem!TypeOK
  <2>2. live \subseteq Hosts
    BY DEF IInv, HostInv, LiveInv
  <2>3. child # "none" => stage = "masscan" /\ config.privileged
    BY DEF IInv, StageInv
  <2> QED
    BY <2>1, <2>2, <2>3 DEF IInv, Types, TypeOK
<1> QED
  BY Invariance, <1>1, PTL

(* fast.py:131-180 over all batches, however many there are: the sweep     *)
(* hands on exactly the hosts that answered, after it has tried every      *)
(* other host of the range on every port, and never an address twice or    *)
(* one outside; and a range of more than MaxTargets hosts sends nothing.   *)
THEOREM SweepIsComplete == Spec => []SweepComplete
<1>1. IInv => SweepComplete
  <2> SUFFICES ASSUME IInv PROVE SweepComplete
    OBVIOUS
  <2>1. live = {h \in Address : \E i \in DOMAIN tried[h] : tried[h][i] \in Reached}
    BY DEF IInv, LiveInv, Hit
  <2>2. ASSUME NEW h \in Address
        PROVE  /\ tried[h] # <<>> => h \in Hosts /\ ~TooMany
               /\ \A i \in 1 .. Len(tried[h]) - 1 : tried[h][i] \notin Reached
    <3>1. tried[h] # <<>> => h \in Hosts /\ batch > 0
      BY DEF IInv, HostInv, StageInv, Types
    <3>2. tried[h] \in Seq(Answer)
      BY DEF IInv, Types
    <3>3. \A i \in DOMAIN tried[h] : tried[h][i] \in Reached => i = Len(tried[h])
      BY DEF IInv, HostInv, Hit
    <3>4. \A i \in 1 .. Len(tried[h]) - 1 : i \in DOMAIN tried[h] /\ i # Len(tried[h])
      BY <3>2
    <3> QED
      BY <3>1, <3>3, <3>4 DEF IInv, StageInv
  <2>3. ASSUME stage \in {"arp", "listed"}, batch > 0, NEW h \in Hosts \ live
        PROVE  Len(tried[h]) = config.ports
    <3>1. h \in Address /\ at[h] = "done"
      BY <2>3, HostFacts DEF IInv, StageInv, Types
    <3>2. ~\E i \in DOMAIN tried[h] : Hit(h, i)
      BY <2>3, <3>1 DEF IInv, LiveInv
    <3> QED
      BY <3>1, <3>2 DEF IInv, HostInv
  <2>4. (stage = "listed" => live \subseteq listed) /\ (stage = "raised" => listed = {})
    BY DEF IInv, StageInv
  <2> QED
    BY <2>1, <2>2, <2>3, <2>4 DEF SweepComplete
<1> QED
  BY Invariance, <1>1, PTL

(* fast.py:169-172 and cli.py:313-329, for any batch size, connection      *)
(* limit and rate: the open connects stay within the limit although a host *)
(* may keep its slot from one port to the next, they belong to one batch,  *)
(* no two hosts are started within an interval, and no masscan runs beside *)
(* them.                                                                   *)
THEOREM SweepIsBounded == Spec => []SweepBounded
<1>1. IInv => SweepBounded
  <2> SUFFICES ASSUME IInv PROVE SweepBounded
    OBVIOUS
  <2>1. Cardinality(Connecting) <= Workers[config.method]
    <3>1. granted \cup Connecting \in SUBSET Address /\ Connecting \subseteq granted \cup Connecting
      BY DEF IInv, Types, Sem!TypeOK, Connecting
    <3>2. /\ Cardinality(granted \cup Connecting) \in Nat /\ Cardinality(Connecting) \in Nat
          /\ Cardinality(Connecting) <= Cardinality(granted \cup Connecting)
      BY <3>1, CountNat, FS_Subset
    <3>3. slots \in Nat /\ slots + Cardinality(granted \cup Connecting) = Workers[config.method]
      BY DEF IInv, Types, Sem!TypeOK, SemInv
    <3> QED
      BY <3>2, <3>3
  <2>2. ASSUME NEW h \in Address, at[h] = "connecting"
        PROVE  stage = "sweep" /\ child = "none" /\ h \in Batch(batch)
    <3>1. /\ stage = "sweep" /\ batch > 0 /\ batch \in Nat /\ h \in Hosts
          /\ Rank(h) <= batch * BatchSize /\ (batch - 1) * BatchSize < Rank(h)
      BY <2>2 DEF IInv, HostInv, Types
    <3> QED
      BY <3>1, InBatch DEF IInv, StageInv
  <2>3. ASSUME NEW h \in Hosts, at[h] # "throttle", NEW g \in Hosts
        PROVE  g \in Batch(batch) \/ Rank(g) > Rank(h) \/ at[g] = "done"
    <3>1. h \in Address /\ g \in Address /\ Rank(h) \in Nat /\ Rank(g) \in Nat
      BY HostFacts DEF IInv, Types
    <3>2. batch \in Nat /\ batch > 0 /\ Rank(h) <= batch * BatchSize
      BY <2>3, <3>1 DEF IInv, Types, StageInv, HostInv
    <3>3. at[g] # "done" => (batch - 1) * BatchSize < Rank(g)
      BY <3>1, <3>2 DEF IInv, HostInv
    <3>4. batch * BatchSize \in Nat
      BY <3>2, BatchEnds
    <3>5. Rank(g) <= batch * BatchSize \/ Rank(g) > Rank(h)
      BY <3>1, <3>2, <3>4
    <3> QED
      BY <3>2, <3>3, <3>5, InBatch
  <2>4. Throttle!StrictRate
    BY DEF IInv, RateInv
  <2>5. Connecting = {h \in Address : at[h] = "connecting"}
    BY DEF Connecting
  <2>6. Connecting # {} => stage = "sweep" /\ child = "none" /\ Connecting \subseteq Batch(batch)
    BY <2>2, <2>5
  <2> QED
    BY <2>1, <2>3, <2>4, <2>5, <2>6 DEF SweepBounded
<1> QED
  BY Invariance, <1>1, PTL

-----------------------------------------------------------------------------
(***************************************************************************)
(* Capture, for any kinds of packet, however many are read and wherever    *)
(* the capture ends.  HostTypes are the types of the inventory's records;  *)
(* Agreed is InventoryAgrees at every address, recorded or not, with the   *)
(* latest packet that tells a hardware address named (it has to exist).    *)
(***************************************************************************)
CONSTANTS Packets, OTPorts, IoTPorts, MaxPackets

VARIABLES reader, pc, seen, hosts, credentials, packet_count, open

Passive == INSTANCE Capture

HostRecord ==
    [mac : STRING \cup {""}, ports : SUBSET Nat, protocols : SUBSET {"tcp", "udp"}, is_ot : BOOLEAN,
     is_iot : BOOLEAN]

Severity == {"low", "medium", "high"}

Shown == {"user", "community", "nothing"}

Finding == [host : STRING, port : Nat, severity : Severity, shows : Shown]

CaptureTypes ==
    /\ reader \in {"live", "analyze", "load"}
    /\ pc \in {"start", "reading", "done", "raised"}
    /\ seen \in Seq(Packets)
    /\ \A ip \in DOMAIN hosts : hosts[ip] \in HostRecord
    /\ credentials \in Seq(Finding)
    /\ packet_count = IF reader = "analyze" THEN Len(seen) ELSE 0
    /\ open <=> (pc = "reading" \/ pc = "raised") /\ reader # "live"
    /\ reader # "analyze" => credentials = <<>>
    /\ pc = "raised" => reader = "load"

Ported(ip) == {i \in Passive!To(ip) : seen[i].layer # "none"}

Telling(ip) == {i \in Passive!At(ip) : Passive!MacOf(ip, seen[i]) # ""}

Latest(S, m) == m \in S /\ \A k \in S : k <= m

Agreed(ip) ==
    LET h == Passive!Host(hosts, ip)
    IN  /\ ip \in DOMAIN hosts <=> Passive!At(ip) # {}
        /\ h.ports = {seen[i].dport : i \in Ported(ip)}
        /\ h.protocols = {seen[i].layer : i \in Passive!At(ip)} \ {"none"}
        /\ h.is_ot <=> h.ports \cap OTPorts # {}
        /\ h.is_iot <=> h.ports \cap IoTPorts # {}
        /\ \/ Telling(ip) = {} /\ h.mac = ""
           \/ \E m \in Telling(ip) :
                 Latest(Telling(ip), m) /\ h.mac = Passive!MacOf(ip, seen[m])

CaptureInv == CaptureTypes /\ (\A ip : Agreed(ip)) /\ Passive!SecretsAttributed

LEMMA BlankType == Passive!BlankHost \in HostRecord
<1>1. "" \in STRING \cup {""}
  OBVIOUS
<1>2. {} \in SUBSET Nat /\ {} \in SUBSET {"tcp", "udp"}
  OBVIOUS
<1>3. FALSE \in BOOLEAN
  OBVIOUS
<1> QED
  BY <1>1, <1>2, <1>3, Zenon DEF Passive!BlankHost, HostRecord

LEMMA RecordFields ==
    ASSUME NEW r \in HostRecord
    PROVE  /\ r.mac \in STRING \cup {""} /\ r.ports \in SUBSET Nat
           /\ r.protocols \in SUBSET {"tcp", "udp"}
           /\ r.is_ot \in BOOLEAN /\ r.is_iot \in BOOLEAN
           /\ DOMAIN r = {"mac", "ports", "protocols", "is_ot", "is_iot"}
BY DEF HostRecord

LEMMA PutDomain ==
    ASSUME NEW inventory, NEW h, NEW r
    PROVE  DOMAIN Passive!Put(inventory, h, r) = DOMAIN inventory \cup {h}
BY DEF Passive!Put

LEMMA PutHost ==
    ASSUME NEW inventory, NEW h, NEW r, NEW g
    PROVE  Passive!Host(Passive!Put(inventory, h, r), g) =
               IF g = h THEN r ELSE Passive!Host(inventory, g)
BY DEF Passive!Put, Passive!Host

(* A record with what a packet tells of an end of it, but for the port.    *)
Merged(old, new, mac, pkt) ==
    /\ old \in HostRecord /\ new \in HostRecord
    /\ new.mac = IF mac = "" THEN old.mac ELSE mac
    /\ new.protocols = IF pkt.layer = "none" THEN old.protocols
                       ELSE old.protocols \cup {pkt.layer}
    /\ new.ports = old.ports /\ new.is_ot = old.is_ot /\ new.is_iot = old.is_iot

LEMMA TouchedFacts ==
    ASSUME NEW inventory, \A h \in DOMAIN inventory : inventory[h] \in HostRecord,
           NEW ip, NEW mac \in STRING, NEW pkt \in Passive!PacketType
    PROVE  Merged(Passive!Host(inventory, ip), Passive!Touched(inventory, ip, mac, pkt), mac, pkt)
<1> DEFINE t == Passive!Touched(inventory, ip, mac, pkt)
           o == Passive!Host(inventory, ip)
<1>1. o \in HostRecord
  BY BlankType DEF Passive!Host
<1>2. pkt.layer \in {"tcp", "udp", "none"}
  BY DEF Passive!PacketType, Passive!Layer
<1> DEFINE m == IF mac = "" THEN o.mac ELSE mac
           p == IF pkt.layer = "none" THEN o.protocols ELSE o.protocols \cup {pkt.layer}
<1>3. m \in STRING \cup {""} /\ p \in SUBSET {"tcp", "udp"}
  BY <1>1, <1>2 DEF HostRecord
<1>4. t = [o EXCEPT !.mac = m, !.protocols = p]
  BY DEF Passive!Touched
<1> HIDE DEF m, p, t, o
<1>5. /\ t \in HostRecord /\ t.mac = m /\ t.protocols = p
      /\ t.ports = o.ports /\ t.is_ot = o.is_ot /\ t.is_iot = o.is_iot
  BY <1>1, <1>3, <1>4 DEF HostRecord
<1> QED
  BY <1>1, <1>5 DEF Merged, m, p, t, o

(* What the destination's record becomes with the packet's port.           *)
LEMMA WithPort ==
    ASSUME NEW r \in HostRecord, NEW port \in Nat
    PROVE  LET n == [r EXCEPT !.ports = @ \cup {port},
                              !.is_ot = @ \/ port \in OTPorts,
                              !.is_iot = @ \/ port \in IoTPorts]
           IN  /\ n \in HostRecord
               /\ n.mac = r.mac /\ n.protocols = r.protocols
               /\ n.ports = r.ports \cup {port}
               /\ n.is_ot = (r.is_ot \/ port \in OTPorts)
               /\ n.is_iot = (r.is_iot \/ port \in IoTPorts)
<1> DEFINE n == [r EXCEPT !.ports = @ \cup {port}, !.is_ot = @ \/ port \in OTPorts,
                          !.is_iot = @ \/ port \in IoTPorts]
<1>1. r.ports \cup {port} \in SUBSET Nat
  BY RecordFields
<1>2. (r.is_ot \/ port \in OTPorts) \in BOOLEAN /\ (r.is_iot \/ port \in IoTPorts) \in BOOLEAN
  OBVIOUS
<1>3. n \in HostRecord
  BY <1>1, <1>2, Zenon DEF HostRecord
<1>4. n.mac = r.mac /\ n.protocols = r.protocols
  BY RecordFields, Zenon
<1>5. n.ports = r.ports \cup {port}
  BY RecordFields, Zenon
<1>6. "is_ot" \in DOMAIN r /\ "is_iot" \in DOMAIN r
  BY RecordFields
<1>7. n.is_ot = (r.is_ot \/ port \in OTPorts)
  BY <1>6, SMT
<1>8. n.is_iot = (r.is_iot \/ port \in IoTPorts)
  BY <1>6, SMT
<1> QED
  BY <1>3, <1>4, <1>5, <1>7, <1>8, Zenon

(* The record of one address after a packet: of an end of it, what the     *)
(* packet tells; of any other, what it was.                                *)
Updated(old, new, ip, pkt) ==
    /\ old \in HostRecord /\ new \in HostRecord
    /\ ip \notin {pkt.src, pkt.dst} => new = old
    /\ ip \in {pkt.src, pkt.dst} =>
          /\ new.mac = IF Passive!MacOf(ip, pkt) = "" THEN old.mac ELSE Passive!MacOf(ip, pkt)
          /\ new.protocols = IF pkt.layer = "none" THEN old.protocols
                             ELSE old.protocols \cup {pkt.layer}
          /\ new.ports = IF ip = pkt.dst /\ pkt.layer # "none"
                         THEN old.ports \cup {pkt.dport} ELSE old.ports
          /\ new.is_ot = (old.is_ot \/ (ip = pkt.dst /\ pkt.layer # "none" /\ pkt.dport \in OTPorts))
          /\ new.is_iot = (old.is_iot \/ (ip = pkt.dst /\ pkt.layer # "none" /\ pkt.dport \in IoTPorts))

LEMMA Observed ==
    ASSUME NEW inventory, \A h \in DOMAIN inventory : inventory[h] \in HostRecord,
           NEW pkt \in Passive!PacketType, NEW ip
    PROVE  LET out == Passive!AddObservation(inventory, pkt)
           IN  /\ DOMAIN out = DOMAIN inventory \cup {pkt.src, pkt.dst}
               /\ Updated(Passive!Host(inventory, ip), Passive!Host(out, ip), ip, pkt)
<1> DEFINE first == Passive!Put(inventory, pkt.src,
                        Passive!Touched(inventory, pkt.src, pkt.src_mac, pkt))
           dst == Passive!Touched(first, pkt.dst, pkt.dst_mac, pkt)
           final == IF pkt.layer = "none" THEN dst
                    ELSE [dst EXCEPT !.ports = @ \cup {pkt.dport},
                                     !.is_ot = @ \/ pkt.dport \in OTPorts,
                                     !.is_iot = @ \/ pkt.dport \in IoTPorts]
           out == Passive!AddObservation(inventory, pkt)
<1>1. out = Passive!Put(first, pkt.dst, final)
  BY DEF Passive!AddObservation
<1>2. /\ pkt.layer \in {"tcp", "udp", "none"} /\ pkt.dport \in Nat
      /\ pkt.src \in STRING /\ pkt.dst \in STRING
      /\ pkt.src_mac \in STRING /\ pkt.dst_mac \in STRING
  BY DEF Passive!PacketType, Passive!Layer
<1>5. /\ DOMAIN first = DOMAIN inventory \cup {pkt.src}
      /\ \A h \in DOMAIN first : first[h] \in HostRecord
  <2>1. Passive!Touched(inventory, pkt.src, pkt.src_mac, pkt) \in HostRecord
    BY <1>2, TouchedFacts DEF Merged
  <2> QED
    BY <2>1 DEF Passive!Put
<1>6. /\ dst \in HostRecord /\ final \in HostRecord
      /\ final.mac = dst.mac /\ final.protocols = dst.protocols
      /\ final.ports = IF pkt.layer = "none" THEN dst.ports ELSE dst.ports \cup {pkt.dport}
      /\ final.is_ot = (dst.is_ot \/ (pkt.layer # "none" /\ pkt.dport \in OTPorts))
      /\ final.is_iot = (dst.is_iot \/ (pkt.layer # "none" /\ pkt.dport \in IoTPorts))
  <2>1. dst \in HostRecord
    <3> HIDE DEF first
    <3> QED
      BY <1>2, <1>5, TouchedFacts DEF Merged
  <2> HIDE DEF dst, first, out
  <2>2. /\ dst.mac \in STRING \cup {""} /\ dst.ports \in SUBSET Nat
        /\ dst.protocols \in SUBSET {"tcp", "udp"} /\ dst.is_ot \in BOOLEAN
        /\ dst.is_iot \in BOOLEAN
        /\ DOMAIN dst = {"mac", "ports", "protocols", "is_ot", "is_iot"}
    BY <2>1 DEF HostRecord
  <2>3. CASE pkt.layer = "none"
    BY <2>1, <2>2, <2>3
  <2>4. CASE pkt.layer # "none"
    <3> DEFINE n == [dst EXCEPT !.ports = @ \cup {pkt.dport},
                                !.is_ot = @ \/ pkt.dport \in OTPorts,
                                !.is_iot = @ \/ pkt.dport \in IoTPorts]
    <3>1. /\ n \in HostRecord
          /\ n.mac = dst.mac /\ n.protocols = dst.protocols
          /\ n.ports = dst.ports \cup {pkt.dport}
          /\ n.is_ot = (dst.is_ot \/ pkt.dport \in OTPorts)
          /\ n.is_iot = (dst.is_iot \/ pkt.dport \in IoTPorts)
      BY <1>2, <2>1, WithPort, Zenon
    <3>2. final = n
      BY <2>4
    <3> HIDE DEF n, final
    <3> QED
      BY <2>1, <2>4, <3>1, <3>2
  <2> QED
    BY <2>3, <2>4
<1>7. DOMAIN out = DOMAIN inventory \cup {pkt.src, pkt.dst}
  <2> HIDE DEF first, final, out
  <2>1. DOMAIN out = DOMAIN first \cup {pkt.dst}
    BY <1>1, PutDomain
  <2> QED
    BY <1>5, <2>1
<1>8. /\ Passive!Host(inventory, ip) \in HostRecord
      /\ Passive!Host(first, ip) =
            IF ip = pkt.src THEN Passive!Touched(inventory, pkt.src, pkt.src_mac, pkt)
            ELSE Passive!Host(inventory, ip)
      /\ Passive!Host(out, ip) = IF ip = pkt.dst THEN final ELSE Passive!Host(first, ip)
  <2>1. Passive!Host(inventory, ip) \in HostRecord
    BY BlankType DEF Passive!Host
  <2>2. Passive!Host(first, ip) =
            IF ip = pkt.src THEN Passive!Touched(inventory, pkt.src, pkt.src_mac, pkt)
            ELSE Passive!Host(inventory, ip)
    BY PutHost
  <2>3. Passive!Host(out, ip) = IF ip = pkt.dst THEN final ELSE Passive!Host(first, ip)
    <3> HIDE DEF first, final, out
    <3> QED
      BY <1>1, PutHost
  <2> QED
    BY <2>1, <2>2, <2>3
<1> DEFINE a == Passive!Host(inventory, ip)
           b == Passive!Host(first, ip)
           c == Passive!Host(out, ip)
<1>9. /\ b \in HostRecord
      /\ ip # pkt.src => b = a
      /\ ip = pkt.src => /\ b.mac = IF pkt.src_mac = "" THEN a.mac ELSE pkt.src_mac
                         /\ b.protocols = IF pkt.layer = "none" THEN a.protocols
                                          ELSE a.protocols \cup {pkt.layer}
                         /\ b.ports = a.ports /\ b.is_ot = a.is_ot /\ b.is_iot = a.is_iot
  <2> DEFINE t == Passive!Touched(inventory, pkt.src, pkt.src_mac, pkt)
             o == Passive!Host(inventory, pkt.src)
  <2>1. Merged(o, t, pkt.src_mac, pkt)
    BY <1>2, TouchedFacts
  <2>2. b = IF ip = pkt.src THEN t ELSE a
    BY <1>8
  <2>3. a \in HostRecord
    BY <1>8
  <2>4. ip = pkt.src => o = a
    OBVIOUS
  <2> HIDE DEF first, t, o, a, b
  <2> QED
    BY <2>1, <2>2, <2>3, <2>4 DEF Merged
<1>10. /\ c \in HostRecord
       /\ ip # pkt.dst => c = b
       /\ ip = pkt.dst => /\ c.mac = IF pkt.dst_mac = "" THEN b.mac ELSE pkt.dst_mac
                          /\ c.protocols = IF pkt.layer = "none" THEN b.protocols
                                           ELSE b.protocols \cup {pkt.layer}
                          /\ c.ports = IF pkt.layer = "none" THEN b.ports
                                       ELSE b.ports \cup {pkt.dport}
                          /\ c.is_ot = (b.is_ot \/ (pkt.layer # "none" /\ pkt.dport \in OTPorts))
                          /\ c.is_iot = (b.is_iot \/ (pkt.layer # "none" /\ pkt.dport \in IoTPorts))
  <2> DEFINE o == Passive!Host(first, pkt.dst)
  <2>1. Merged(o, dst, pkt.dst_mac, pkt)
    <3> HIDE DEF first
    <3> QED
      BY <1>2, <1>5, TouchedFacts
  <2>2. ip = pkt.dst => o = b
    OBVIOUS
  <2>3. c = IF ip = pkt.dst THEN final ELSE b
    BY <1>8
  <2> HIDE DEF dst, final, first, out, o, a, b, c
  <2> QED
    BY <1>6, <1>9, <2>1, <2>2, <2>3 DEF Merged
<1>11. /\ a \in HostRecord
       /\ a.is_ot \in BOOLEAN /\ a.is_iot \in BOOLEAN
  BY <1>8 DEF HostRecord
<1> HIDE DEF a, b, c, first, dst, final, out
<1>12. /\ ip \notin {pkt.src, pkt.dst} => c = a
       /\ ip \in {pkt.src, pkt.dst} =>
             /\ c.mac = IF Passive!MacOf(ip, pkt) = "" THEN a.mac ELSE Passive!MacOf(ip, pkt)
             /\ c.protocols = IF pkt.layer = "none" THEN a.protocols
                              ELSE a.protocols \cup {pkt.layer}
             /\ c.ports = IF ip = pkt.dst /\ pkt.layer # "none" THEN a.ports \cup {pkt.dport}
                          ELSE a.ports
  BY <1>9, <1>10 DEF Passive!MacOf
<1>13. ip \in {pkt.src, pkt.dst} =>
         /\ c.is_ot = (a.is_ot \/ (ip = pkt.dst /\ pkt.layer # "none" /\ pkt.dport \in OTPorts))
         /\ c.is_iot = (a.is_iot \/ (ip = pkt.dst /\ pkt.layer # "none" /\ pkt.dport \in IoTPorts))
  BY <1>9, <1>10, <1>11
<1>14. Updated(a, c, ip, pkt)
  BY <1>10, <1>11, <1>12, <1>13 DEF Updated
<1> QED
  BY <1>7, <1>14 DEF a, c, out

(* One more packet in the history.                                         *)
LEMMA SeenStep ==
    ASSUME CaptureTypes, NEW pkt \in Packets, seen' = Append(seen, pkt), NEW ip
    PROVE  LET n == Len(seen) + 1
               end == Passive!Observable(pkt) /\ ip \in {pkt.src, pkt.dst}
               receiver == Passive!Observable(pkt) /\ ip = pkt.dst
           IN  /\ n \in Nat /\ \A i \in DOMAIN seen : i \in Nat /\ i < n
               /\ DOMAIN seen' = DOMAIN seen \cup {n}
               /\ seen'[n] = pkt /\ \A i \in DOMAIN seen : seen'[i] = seen[i]
               /\ Passive!At(ip) \subseteq DOMAIN seen /\ Passive!To(ip) \subseteq DOMAIN seen
               /\ Passive!At(ip)' = Passive!At(ip) \cup (IF end THEN {n} ELSE {})
               /\ Passive!To(ip)' = Passive!To(ip) \cup (IF receiver THEN {n} ELSE {})
<1> DEFINE n == Len(seen) + 1
<1>1. /\ seen \in Seq(Packets) /\ n \in Nat /\ DOMAIN seen = 1 .. Len(seen)
      /\ DOMAIN seen' = 1 .. n
      /\ seen'[n] = pkt /\ \A i \in DOMAIN seen : seen'[i] = seen[i]
  BY DEF CaptureTypes
<1>2. (\A i \in DOMAIN seen : i \in Nat /\ i < n) /\ DOMAIN seen' = DOMAIN seen \cup {n}
  BY <1>1
<1>3. Passive!At(ip) \subseteq DOMAIN seen /\ Passive!To(ip) \subseteq DOMAIN seen
  BY DEF Passive!At, Passive!To
<1> HIDE DEF n
<1>4. Passive!At(ip)' = Passive!At(ip) \cup
          (IF Passive!Observable(pkt) /\ ip \in {pkt.src, pkt.dst} THEN {n} ELSE {})
  BY <1>1, <1>2 DEF Passive!At
<1>5. Passive!To(ip)' = Passive!To(ip) \cup
          (IF Passive!Observable(pkt) /\ ip = pkt.dst THEN {n} ELSE {})
  BY <1>1, <1>2 DEF Passive!To
<1> QED
  BY <1>1, <1>2, <1>3, <1>4, <1>5 DEF n

LEMMA HandledFacts ==
    ASSUME Passive!CaptureAssumption, CaptureTypes, NEW pkt \in Packets,
           hosts' = Passive!Handled(hosts, pkt), NEW ip
    PROVE  LET old == Passive!Host(hosts, ip)
               new == Passive!Host(hosts, ip)'
               end == Passive!Observable(pkt) /\ ip \in {pkt.src, pkt.dst}
           IN  /\ old \in HostRecord
               /\ ip \in DOMAIN hosts' <=> ip \in DOMAIN hosts \/ end
               /\ ~end => new = old
               /\ end => Updated(old, new, ip, pkt)
<1>1. pkt \in Passive!PacketType /\ \A h \in DOMAIN hosts : hosts[h] \in HostRecord
  BY DEF Passive!CaptureAssumption, CaptureTypes
<1>2. Passive!Host(hosts, ip) \in HostRecord
  BY <1>1, BlankType DEF Passive!Host
<1>3. CASE ~Passive!Observable(pkt)
  BY <1>2, <1>3 DEF Passive!Handled, Passive!Host
<1>4. CASE Passive!Observable(pkt)
  <2>1. hosts' = Passive!AddObservation(hosts, pkt)
    BY <1>4 DEF Passive!Handled
  <2>2. /\ DOMAIN hosts' = DOMAIN hosts \cup {pkt.src, pkt.dst}
        /\ Updated(Passive!Host(hosts, ip), Passive!Host(hosts', ip), ip, pkt)
    BY <1>1, <2>1, Observed
  <2>3. Passive!Host(hosts, ip)' = Passive!Host(hosts', ip)
    BY DEF Passive!Host
  <2>4. ip \notin {pkt.src, pkt.dst} => Passive!Host(hosts', ip) = Passive!Host(hosts, ip)
    BY <2>2 DEF Updated
  <2> QED
    BY <1>2, <1>4, <2>2, <2>3, <2>4
<1> QED
  BY <1>3, <1>4

LEMMA AgreedStep ==
    ASSUME Passive!CaptureAssumption, CaptureTypes, NEW pkt \in Packets,
           seen' = Append(seen, pkt), hosts' = Passive!Handled(hosts, pkt),
           NEW ip, Agreed(ip)
    PROVE  Agreed(ip)'
<1> DEFINE n == Len(seen) + 1
           end == Passive!Observable(pkt) /\ ip \in {pkt.src, pkt.dst}
           receiver == Passive!Observable(pkt) /\ ip = pkt.dst
           port == receiver /\ pkt.layer # "none"
           old == Passive!Host(hosts, ip)
           new == Passive!Host(hosts, ip)'
           ends == Passive!At(ip)
           to == Passive!To(ip)
           mac == Passive!MacOf(ip, pkt)
<1>1. /\ \A i \in DOMAIN seen : i < n /\ n # i /\ i <= n
      /\ n <= n
      /\ seen'[n] = pkt /\ \A i \in DOMAIN seen : seen'[i] = seen[i]
      /\ ends \subseteq DOMAIN seen /\ to \subseteq DOMAIN seen
      /\ ends' = ends \cup (IF end THEN {n} ELSE {})
      /\ to' = to \cup (IF receiver THEN {n} ELSE {})
  BY SeenStep
<1>2. /\ old \in HostRecord
      /\ ip \in DOMAIN hosts' <=> ip \in DOMAIN hosts \/ end
      /\ ~end => new = old
      /\ end => Updated(old, new, ip, pkt)
  BY HandledFacts
<1>3. /\ ip \in DOMAIN hosts <=> ends # {}
      /\ old.ports = {seen[i].dport : i \in Ported(ip)}
      /\ old.protocols = {seen[i].layer : i \in ends} \ {"none"}
      /\ old.is_ot <=> old.ports \cap OTPorts # {}
      /\ old.is_iot <=> old.ports \cap IoTPorts # {}
      /\ \/ Telling(ip) = {} /\ old.mac = ""
         \/ \E m \in Telling(ip) :
               Latest(Telling(ip), m) /\ old.mac = Passive!MacOf(ip, seen[m])
  BY DEF Agreed
<1>4. /\ Ported(ip)' = Ported(ip) \cup (IF port THEN {n} ELSE {})
      /\ Ported(ip) \subseteq to
  <2> HIDE DEF n, receiver, to
  <2> QED
    BY <1>1 DEF Ported, to
<1>5. /\ Telling(ip)' = Telling(ip) \cup (IF end /\ mac # "" THEN {n} ELSE {})
      /\ Telling(ip) \subseteq ends
  <2>1. Telling(ip) = {i \in ends : Passive!MacOf(ip, seen[i]) # ""}
    BY DEF Telling
  <2>2. Telling(ip)' = {i \in ends' : Passive!MacOf(ip, seen'[i]) # ""}
    BY DEF Telling, Passive!MacOf
  <2> HIDE DEF n, end, ends
  <2> QED
    BY <1>1, <2>1, <2>2
<1>6. /\ end => /\ new.mac = IF mac = "" THEN old.mac ELSE mac
                /\ new.protocols = IF pkt.layer = "none" THEN old.protocols
                                   ELSE old.protocols \cup {pkt.layer}
                /\ new.ports = IF port THEN old.ports \cup {pkt.dport} ELSE old.ports
                /\ new.is_ot = (old.is_ot \/ (port /\ pkt.dport \in OTPorts))
                /\ new.is_iot = (old.is_iot \/ (port /\ pkt.dport \in IoTPorts))
      /\ port => end
  BY <1>2 DEF Updated
<1> HIDE DEF n, end, receiver, port, old, new, ends, to, mac
<1>7. ip \in DOMAIN hosts' <=> ends' # {}
  BY <1>1, <1>2, <1>3
<1>8. new.ports = {seen'[i].dport : i \in Ported(ip)'}
  <2>1. \A i \in Ported(ip) : seen'[i] = seen[i]
    BY <1>1, <1>4
  <2>2. new.ports = IF port THEN old.ports \cup {pkt.dport} ELSE old.ports
    BY <1>2, <1>6
  <2>3. {seen'[i].dport : i \in Ported(ip)} = old.ports
    BY <1>3, <2>1
  <2>4. CASE port
    <3>1. {seen'[i].dport : i \in Ported(ip)'} =
              {seen'[i].dport : i \in Ported(ip)} \cup {pkt.dport}
      BY <1>1, <1>4, <2>4
    <3> QED
      BY <2>2, <2>3, <2>4, <3>1
  <2>5. CASE ~port
    <3>1. Ported(ip)' = Ported(ip)
      BY <1>4, <2>5
    <3> QED
      BY <2>2, <2>3, <2>5, <3>1
  <2> QED
    BY <2>4, <2>5
<1>9. new.protocols = {seen'[i].layer : i \in ends'} \ {"none"}
  <2>1. \A i \in ends : seen'[i] = seen[i]
    BY <1>1
  <2>2. {seen'[i].layer : i \in ends} \ {"none"} = old.protocols
    BY <1>3, <2>1
  <2>3. CASE end
    <3>1. {seen'[i].layer : i \in ends'} = {seen'[i].layer : i \in ends} \cup {pkt.layer}
      BY <1>1, <2>3
    <3> QED
      BY <1>6, <2>2, <2>3, <3>1
  <2>4. CASE ~end
    BY <1>1, <1>2, <2>2, <2>4
  <2> QED
    BY <2>3, <2>4
<1>10. /\ new.is_ot <=> new.ports \cap OTPorts # {}
       /\ new.is_iot <=> new.ports \cap IoTPorts # {}
  BY <1>2, <1>3, <1>6
<1>11. \/ Telling(ip)' = {} /\ new.mac = ""
       \/ \E m \in Telling(ip)' :
             Latest(Telling(ip)', m) /\ new.mac = Passive!MacOf(ip, seen'[m])
  <2>1. CASE end /\ mac # ""
    <3>1. n \in Telling(ip)' /\ Latest(Telling(ip)', n)
      BY <1>1, <1>5, <2>1 DEF Latest
    <3>2. new.mac = Passive!MacOf(ip, seen'[n])
      BY <1>1, <1>6, <2>1 DEF mac
    <3> QED
      BY <3>1, <3>2
  <2>2. CASE ~(end /\ mac # "")
    <3>1. Telling(ip)' = Telling(ip)
      BY <1>5, <2>2
    <3>2. new.mac = old.mac
      BY <1>2, <1>6, <2>2
    <3>3. ASSUME NEW m \in Telling(ip) PROVE seen'[m] = seen[m]
      BY <1>1, <1>5
    <3> QED
      BY <1>3, <3>1, <3>2, <3>3
  <2> QED
    BY <2>1, <2>2
<1> QED
  <2>1. /\ Passive!Host(hosts, ip)' = new /\ Passive!At(ip)' = ends'
    BY DEF new, ends
  <2> QED
    BY <1>7, <1>8, <1>9, <1>10, <1>11, <2>1 DEF Agreed, Latest, Passive!MacOf

(* The instance counts as this module does. *)
LEMMA SameCount == ASSUME NEW S PROVE Passive!Cardinality(S) = Cardinality(S)
BY DEF Passive!Cardinality, Cardinality

(* SetToSeq lists the elements of a finite set. *)
LEMMA Listing ==
    ASSUME NEW S, IsFiniteSet(S)
    PROVE  LET s == Passive!SetToSeq(S)
           IN  s \in Seq(S) /\ \A x \in S : \E k \in DOMAIN s : s[k] = x
<1> DEFINE c == Cardinality(S)
           s == Passive!SetToSeq(S)
<1>1. c \in Nat /\ ExistsBijection(1 .. c, S)
  BY FS_CardinalityType
<1>2. PICK g : g \in Bijection(1 .. c, S)
  BY <1>1 DEF ExistsBijection
<1>3. g \in [1 .. c -> S] /\ IsInjective(g)
  BY <1>2 DEF Bijection, Injection
<1>4. s \in [1 .. c -> S] /\ Passive!IsInjective(s)
  <2>1. Passive!IsInjective(g)
    BY <1>3 DEF Passive!IsInjective, IsInjective
  <2>2. s = CHOOSE f \in [1 .. c -> S] : Passive!IsInjective(f)
    BY SameCount DEF Passive!SetToSeq
  <2> HIDE DEF s
  <2> QED
    BY <1>3, <2>1, <2>2
<1> HIDE DEF s
<1>5. s \in Injection(1 .. c, S)
  BY <1>4 DEF Injection, Passive!IsInjective, IsInjective
<1>6. IsFiniteSet(1 .. c) /\ Cardinality(1 .. c) = c
  BY <1>1, FS_Interval
<1>7. s \in Surjection(1 .. c, S)
  BY <1>5, <1>6, FS_Injection
<1>8. s \in Seq(S) /\ DOMAIN s = 1 .. c
  BY <1>1, <1>4
<1> QED
  BY <1>7, <1>8 DEF Surjection, s

(* Nothing, or one entry that shows no community but a default one.        *)
OneAtMost(found, content) ==
    \/ found = {}
    \/ \E severity \in Severity, shows \in Shown :
          found = {<<severity, shows>>} /\ (shows = "community" => content # "snmp custom")

LEMMA OneEntry ==
    ASSUME NEW content, NEW severity \in Severity, NEW shows \in Shown,
           shows = "community" => content # "snmp custom",
           NEW found \in {{}, {<<severity, shows>>}}
    PROVE  OneAtMost(found, content)
<1>1. CASE found = {}
  BY <1>1, Zenon DEF OneAtMost
<1>2. CASE found = {<<severity, shows>>}
  BY <1>2, Zenon DEF OneAtMost
<1> QED
  BY <1>1, <1>2

LEMMA FoundFacts ==
    ASSUME NEW protocol, NEW content \in Passive!Content
    PROVE  OneAtMost(Passive!Found(protocol, content), content)
<1> DEFINE found == Passive!Found(protocol, content)
<1>1. CASE content \in {"empty", "noise", "basic"}
  BY <1>1 DEF Passive!Found, OneAtMost
<1>2. CASE content = "user"
  <2>1. found \in {{}, {<<"medium", "user">>}}
    BY <1>2 DEF Passive!Found
  <2> HIDE DEF found
  <2>2. "medium" \in Severity /\ "user" \in Shown
    BY DEF Severity, Shown
  <2>3. "user" = "community" => content # "snmp custom"
    BY <1>2
  <2> QED
    BY <1>2, <2>1, <2>2, <2>3, OneEntry DEF found
<1>3. CASE content = "pass"
  <2>1. found \in {{}, {<<"high", "nothing">>}}
    BY <1>3 DEF Passive!Found
  <2> HIDE DEF found
  <2>2. "high" \in Severity /\ "nothing" \in Shown
    BY DEF Severity, Shown
  <2>3. "nothing" = "community" => content # "snmp custom"
    BY <1>3
  <2> QED
    BY <1>3, <2>1, <2>2, <2>3, OneEntry DEF found
<1>4. CASE content = "prompt"
  <2>1. found \in {{}, {<<"medium", "nothing">>}}
    BY <1>4 DEF Passive!Found
  <2> HIDE DEF found
  <2>2. "medium" \in Severity /\ "nothing" \in Shown
    BY DEF Severity, Shown
  <2>3. "nothing" = "community" => content # "snmp custom"
    BY <1>4
  <2> QED
    BY <1>4, <2>1, <2>2, <2>3, OneEntry DEF found
<1>5. CASE content = "login"
  <2>1. found \in {{}, {<<"high", "user">>}}
    BY <1>5 DEF Passive!Found
  <2> HIDE DEF found
  <2>2. "high" \in Severity /\ "user" \in Shown
    BY DEF Severity, Shown
  <2>3. "user" = "community" => content # "snmp custom"
    BY <1>5
  <2> QED
    BY <1>5, <2>1, <2>2, <2>3, OneEntry DEF found
<1>6. CASE content = "auth plain"
  <2>1. found \in {{}, {<<"medium", "user">>}}
    BY <1>6 DEF Passive!Found
  <2> HIDE DEF found
  <2>2. "medium" \in Severity /\ "user" \in Shown
    BY DEF Severity, Shown
  <2>3. "user" = "community" => content # "snmp custom"
    BY <1>6
  <2> QED
    BY <1>6, <2>1, <2>2, <2>3, OneEntry DEF found
<1>7. CASE content = "auth login"
  <2>1. found \in {{}, {<<"medium", "nothing">>}}
    BY <1>7 DEF Passive!Found
  <2> HIDE DEF found
  <2>2. "medium" \in Severity /\ "nothing" \in Shown
    BY DEF Severity, Shown
  <2>3. "nothing" = "community" => content # "snmp custom"
    BY <1>7
  <2> QED
    BY <1>7, <2>1, <2>2, <2>3, OneEntry DEF found
<1>8. CASE content = "snmp public"
  <2>1. found \in {{}, {<<"low", "community">>}}
    BY <1>8 DEF Passive!Found
  <2> HIDE DEF found
  <2>2. "low" \in Severity /\ "community" \in Shown
    BY DEF Severity, Shown
  <2>3. "community" = "community" => content # "snmp custom"
    BY <1>8
  <2> QED
    BY <1>8, <2>1, <2>2, <2>3, OneEntry DEF found
<1>9. CASE content = "snmp private"
  <2>1. found \in {{}, {<<"medium", "community">>}}
    BY <1>9 DEF Passive!Found
  <2> HIDE DEF found
  <2>2. "medium" \in Severity /\ "community" \in Shown
    BY DEF Severity, Shown
  <2>3. "community" = "community" => content # "snmp custom"
    BY <1>9
  <2> QED
    BY <1>9, <2>1, <2>2, <2>3, OneEntry DEF found
<1>10. CASE content = "snmp custom"
  <2>1. found \in {{}, {<<"low", "nothing">>}}
    BY <1>10 DEF Passive!Found
  <2> HIDE DEF found
  <2>2. "low" \in Severity /\ "nothing" \in Shown
    BY DEF Severity, Shown
  <2>3. "nothing" = "community" => content # "snmp custom"
    BY <1>10
  <2> QED
    BY <1>10, <2>1, <2>2, <2>3, OneEntry DEF found
<1> QED
  BY <1>1, <1>2, <1>3, <1>4, <1>5, <1>6, <1>7, <1>8, <1>9, <1>10 DEF Passive!Content

(* A packet yields at most one report, of the server's end as Record finds *)
(* it, and yields it whenever a detector finds something.                  *)
LEMMA FindingsFacts ==
    ASSUME Passive!CaptureAssumption, NEW pkt \in Packets
    PROVE  /\ IsFiniteSet(Passive!Findings(pkt))
           /\ \A f \in Passive!Findings(pkt) :
                 /\ f \in Finding
                 /\ Passive!Recorded(pkt) /\ Passive!Attributed(f, pkt)
                 /\ f.shows = "community" => pkt.content # "snmp custom"
           /\ Passive!Recorded(pkt) /\ Passive!ServerPort(pkt) \in Passive!CredentialPorts
              /\ Passive!Found(Passive!Detector[Passive!ServerPort(pkt)], pkt.content) # {}
              => \E f \in Passive!Findings(pkt) : Passive!Attributed(f, pkt)
<1> DEFINE r == Passive!Record(pkt)
           all == IF pkt.content = "basic" THEN {<<"high", "user">>}
                  ELSE IF r.port \in Passive!CredentialPorts
                       THEN Passive!Found(Passive!Detector[r.port], pkt.content)
                       ELSE {}
           entry(f) == [host |-> r.host, port |-> r.port, severity |-> f[1], shows |-> f[2]]
<1>1. /\ pkt \in Passive!PacketType /\ Passive!ClientPort(pkt) \notin Passive!CredentialPorts
      /\ pkt.src \in STRING /\ pkt.dst \in STRING /\ pkt.sport \in Nat /\ pkt.dport \in Nat
      /\ pkt.fromServer \in BOOLEAN
  BY DEF Passive!CaptureAssumption, Passive!PacketType
<1>2. pkt.content \in Passive!Content
  BY <1>1 DEF Passive!PacketType
<1>3. OneAtMost(all, pkt.content)
  <2>1. CASE pkt.content = "basic"
    <3>1. all = {<<"high", "user">>} /\ "high" \in Severity /\ "user" \in Shown
      BY <2>1 DEF Severity, Shown
    <3> HIDE DEF all
    <3> QED
      BY <2>1, <3>1, OneEntry
  <2>2. CASE pkt.content # "basic" /\ r.port \in Passive!CredentialPorts
    BY <1>2, <2>2, FoundFacts
  <2>3. CASE pkt.content # "basic" /\ r.port \notin Passive!CredentialPorts
    BY <2>3 DEF OneAtMost
  <2> QED
    BY <2>1, <2>2, <2>3
<1>4. r.host \in STRING /\ r.port \in Nat
  BY <1>1 DEF Passive!Record
<1>5. pkt.content = "basic" \/ r.port \in Passive!CredentialPorts =>
          IF Passive!Echoed(pkt) THEN r.host = pkt.dst /\ r.port = pkt.dport
          ELSE r.host = Passive!Server(pkt) /\ r.port = Passive!ServerPort(pkt)
  BY <1>1 DEF Passive!Record, Passive!Echoed, Passive!Server, Passive!ServerPort,
              Passive!ClientPort
<1>6. Passive!ServerPort(pkt) \in Passive!CredentialPorts => r.port = Passive!ServerPort(pkt)
  BY <1>1 DEF Passive!Record, Passive!ServerPort, Passive!ClientPort
<1>7. Passive!Findings(pkt) = IF ~Passive!Recorded(pkt) THEN {} ELSE {entry(f) : f \in all}
  BY DEF Passive!Findings
<1> HIDE DEF all, r
<1>8. \A f \in all : \E severity \in Severity, shows \in Shown :
          f = <<severity, shows>> /\ (shows = "community" => pkt.content # "snmp custom")
  <2>1. CASE all = {}
    BY <2>1
  <2>2. CASE all # {}
    <3>1. PICK severity \in Severity, shows \in Shown :
              /\ all = {<<severity, shows>>}
              /\ shows = "community" => pkt.content # "snmp custom"
      BY <1>3, <2>2, Zenon DEF OneAtMost
    <3> QED
      BY <3>1
  <2> QED
    BY <2>1, <2>2
<1>9. IsFiniteSet(Passive!Findings(pkt))
  <2>1. CASE ~Passive!Recorded(pkt) \/ all = {}
    <3>1. Passive!Findings(pkt) = {}
      BY <1>7, <2>1
    <3> QED
      BY <3>1, FS_EmptySet
  <2>2. CASE Passive!Recorded(pkt) /\ all # {}
    <3>1. PICK f : all = {f}
      BY <1>3, <2>2 DEF OneAtMost
    <3>2. Passive!Findings(pkt) = {entry(f)}
      BY <1>7, <2>2, <3>1
    <3> QED
      BY <3>2, FS_Singleton
  <2> QED
    BY <2>1, <2>2
<1>10. ASSUME NEW e \in Passive!Findings(pkt)
       PROVE  /\ e \in Finding /\ Passive!Recorded(pkt) /\ Passive!Attributed(e, pkt)
              /\ e.shows = "community" => pkt.content # "snmp custom"
  <2>1. PICK f \in all : e = entry(f) /\ Passive!Recorded(pkt)
    BY <1>7
  <2>2. PICK severity \in Severity, shows \in Shown :
            f = <<severity, shows>> /\ (shows = "community" => pkt.content # "snmp custom")
    BY <1>8
  <2>3. e = [host |-> r.host, port |-> r.port, severity |-> severity, shows |-> shows]
    BY <2>1, <2>2
  <2>4. pkt.content = "basic" \/ r.port \in Passive!CredentialPorts
    BY <2>1 DEF all
  <2> QED
    <3>1. e \in Finding
      BY <1>4, <2>2, <2>3 DEF Finding
    <3>2. e.host = r.host /\ e.port = r.port /\ e.shows = shows
      BY <2>3
    <3>3. Passive!Attributed(e, pkt)
      BY <1>5, <2>4, <3>2 DEF Passive!Attributed
    <3> QED
      BY <2>1, <2>2, <3>1, <3>2, <3>3
<1>11. ASSUME Passive!Recorded(pkt), Passive!ServerPort(pkt) \in Passive!CredentialPorts,
              Passive!Found(Passive!Detector[Passive!ServerPort(pkt)], pkt.content) # {}
       PROVE  \E f \in Passive!Findings(pkt) : Passive!Attributed(f, pkt)
  <2>1. all # {}
    BY <1>6, <1>11 DEF all
  <2>2. Passive!Findings(pkt) # {}
    BY <1>7, <1>11, <2>1
  <2> QED
    BY <1>10, <2>2
<1> QED
  BY <1>9, <1>10, <1>11

(* One more packet of a capture file keeps what is reported.               *)
LEMMA SecretsStep ==
    ASSUME Passive!CaptureAssumption, CaptureTypes, Passive!SecretsAttributed,
           NEW pkt \in Packets, seen' = Append(seen, pkt), reader' = reader,
           IF reader = "analyze"
           THEN credentials' = credentials \o Passive!SetToSeq(Passive!Findings(pkt))
           ELSE credentials' = credentials
    PROVE  credentials' \in Seq(Finding) /\ Passive!SecretsAttributed'
<1> DEFINE n == Len(seen) + 1
           news == Passive!SetToSeq(Passive!Findings(pkt))
           good(f, p) == /\ Passive!Recorded(p) /\ Passive!Attributed(f, p)
                         /\ f.shows = "community" => p.content # "snmp custom"
           secret(p) == /\ Passive!Recorded(p)
                        /\ Passive!ServerPort(p) \in Passive!CredentialPorts
                        /\ Passive!Found(Passive!Detector[Passive!ServerPort(p)], p.content) # {}
<1>1. /\ DOMAIN seen' = DOMAIN seen \cup {n}
      /\ seen'[n] = pkt /\ \A i \in DOMAIN seen : seen'[i] = seen[i]
  BY SeenStep
<1>2. /\ news \in Seq(Finding)
      /\ \A k \in DOMAIN news : good(news[k], pkt)
      /\ secret(pkt) => \E k \in DOMAIN news : Passive!Attributed(news[k], pkt)
  <2>1. news \in Seq(Passive!Findings(pkt))
        /\ \A f \in Passive!Findings(pkt) : \E k \in DOMAIN news : news[k] = f
    BY FindingsFacts, Listing
  <2>2. \A k \in DOMAIN news : news[k] \in Passive!Findings(pkt)
    <3> HIDE DEF news
    <3> QED
      BY <2>1
  <2>3. Passive!Findings(pkt) \subseteq Finding
    BY FindingsFacts
  <2>4. news \in Seq(Finding)
    <3> HIDE DEF news
    <3> QED
      BY <2>1, <2>3
  <2>5. \A k \in DOMAIN news : good(news[k], pkt)
    BY <2>2, FindingsFacts
  <2>6. ASSUME secret(pkt) PROVE \E k \in DOMAIN news : Passive!Attributed(news[k], pkt)
    <3>1. PICK f \in Passive!Findings(pkt) : Passive!Attributed(f, pkt)
      BY <2>6, FindingsFacts
    <3> QED
      BY <2>1, <3>1
  <2> QED
    BY <2>4, <2>5, <2>6
<1>3. /\ \A k \in DOMAIN credentials : \E i \in DOMAIN seen : good(credentials[k], seen[i])
      /\ reader = "analyze" => \A i \in DOMAIN seen :
            secret(seen[i]) => \E k \in DOMAIN credentials :
                Passive!Attributed(credentials[k], seen[i])
  BY DEF Passive!SecretsAttributed
<1>4. credentials \in Seq(Finding) /\ (reader # "analyze" => credentials = <<>>)
  BY DEF CaptureTypes
<1> HIDE DEF n, news
<1>5. SUFFICES /\ credentials' \in Seq(Finding)
               /\ \A k \in DOMAIN credentials' : \E i \in DOMAIN seen' :
                     good(credentials'[k], seen'[i])
               /\ reader = "analyze" => \A i \in DOMAIN seen' :
                     secret(seen'[i]) => \E k \in DOMAIN credentials' :
                         Passive!Attributed(credentials'[k], seen'[i])
  BY DEF Passive!SecretsAttributed
<1> HIDE DEF good, secret
<1>6. CASE reader = "analyze"
  <2>1. credentials' = credentials \o news
    BY <1>6 DEF news
  <2>2. /\ credentials' \in Seq(Finding)
        /\ Len(credentials') = Len(credentials) + Len(news)
        /\ \A k \in 1 .. Len(credentials) : credentials'[k] = credentials[k]
        /\ \A k \in 1 .. Len(news) : credentials'[Len(credentials) + k] = news[k]
    BY <1>2, <1>4, <2>1
  <2>3. /\ Len(credentials) \in Nat /\ Len(news) \in Nat
        /\ DOMAIN credentials = 1 .. Len(credentials) /\ DOMAIN news = 1 .. Len(news)
        /\ DOMAIN credentials' = 1 .. Len(credentials')
    BY <1>2, <1>4, <2>2
  <2>4. ASSUME NEW k \in DOMAIN credentials'
        PROVE  \E i \in DOMAIN seen' : good(credentials'[k], seen'[i])
    <3>1. CASE k \in 1 .. Len(credentials)
      BY <1>1, <1>3, <2>2, <2>3, <3>1
    <3>2. CASE k \notin 1 .. Len(credentials)
      <4>1. /\ k - Len(credentials) \in 1 .. Len(news)
            /\ k = Len(credentials) + (k - Len(credentials))
        BY <2>2, <2>3, <2>4, <3>2
      <4>2. credentials'[k] = news[k - Len(credentials)]
        BY <2>2, <4>1
      <4> QED
        BY <1>1, <1>2, <2>3, <4>1, <4>2
    <3> QED
      BY <3>1, <3>2
  <2>5. ASSUME NEW i \in DOMAIN seen', secret(seen'[i])
        PROVE  \E k \in DOMAIN credentials' : Passive!Attributed(credentials'[k], seen'[i])
    <3>1. CASE i \in DOMAIN seen
      <4>1. PICK k \in DOMAIN credentials : Passive!Attributed(credentials[k], seen[i])
        BY <1>1, <1>3, <1>6, <2>5, <3>1
      <4>2. k \in DOMAIN credentials' /\ credentials'[k] = credentials[k]
        BY <2>2, <2>3
      <4> QED
        BY <1>1, <3>1, <4>1, <4>2
    <3>2. CASE i = n
      <4>1. PICK k \in DOMAIN news : Passive!Attributed(news[k], pkt)
        BY <1>1, <1>2, <2>5, <3>2
      <4>2. /\ Len(credentials) + k \in DOMAIN credentials'
            /\ credentials'[Len(credentials) + k] = news[k]
        BY <2>2, <2>3
      <4> QED
        BY <1>1, <3>2, <4>1, <4>2
    <3> QED
      BY <1>1, <3>1, <3>2
  <2> QED
    BY <2>2, <2>4, <2>5
<1>7. CASE reader # "analyze"
  BY <1>4, <1>7
<1> QED
  BY <1>6, <1>7

LEMMA CaptureInit == ASSUME Passive!Init PROVE CaptureInv
<1>1. /\ reader \in {"live", "analyze", "load"} /\ pc = "start" /\ seen = <<>> /\ hosts = <<>>
      /\ credentials = <<>> /\ packet_count = 0 /\ open = FALSE
  BY DEF Passive!Init
<1>2. DOMAIN hosts = {} /\ DOMAIN seen = {} /\ DOMAIN credentials = {} /\ Len(seen) = 0
  BY <1>1
<1>3. CaptureTypes
  BY <1>1, <1>2 DEF CaptureTypes
<1>4. ASSUME NEW ip PROVE Agreed(ip)
  <2>1. Passive!At(ip) = {} /\ Ported(ip) = {} /\ Telling(ip) = {}
    BY <1>2 DEF Passive!At, Passive!To, Ported, Telling
  <2>2. Passive!Host(hosts, ip) = Passive!BlankHost
    BY <1>2 DEF Passive!Host
  <2> DEFINE h == Passive!Host(hosts, ip)
  <2>3. /\ h.ports = {} /\ h.protocols = {} /\ ~h.is_ot /\ ~h.is_iot /\ h.mac = ""
    <3>1. h = [mac |-> "", ports |-> {}, protocols |-> {}, is_ot |-> FALSE, is_iot |-> FALSE]
      BY <2>2 DEF Passive!BlankHost
    <3> HIDE DEF h
    <3> QED
      BY <3>1
  <2> HIDE DEF h
  <2>4. /\ h.ports = {seen[i].dport : i \in Ported(ip)}
        /\ h.protocols = {seen[i].layer : i \in Passive!At(ip)} \ {"none"}
        /\ h.ports \cap OTPorts = {} /\ h.ports \cap IoTPorts = {}
    BY <2>1, <2>3
  <2> QED
    BY <1>2, <2>1, <2>3, <2>4 DEF Agreed, h
<1>5. Passive!SecretsAttributed
  BY <1>2 DEF Passive!SecretsAttributed
<1> QED
  BY <1>3, <1>4, <1>5 DEF CaptureInv

LEMMA PacketStep ==
    ASSUME Passive!CaptureAssumption, CaptureInv, Passive!Packet
    PROVE  CaptureInv'
<1>1. PICK pkt \in Packets :
          /\ seen' = Append(seen, pkt)
          /\ hosts' = Passive!Handled(hosts, pkt)
          /\ IF reader = "analyze"
             THEN /\ packet_count' = packet_count + 1
                  /\ credentials' = credentials \o Passive!SetToSeq(Passive!Findings(pkt))
             ELSE UNCHANGED <<packet_count, credentials>>
          /\ UNCHANGED <<reader, pc, open>>
  BY DEF Passive!Packet
<1>2. CaptureTypes /\ Passive!SecretsAttributed /\ \A ip : Agreed(ip)
  BY DEF CaptureInv
<1>3. \A ip : Agreed(ip)'
  BY <1>1, <1>2, AgreedStep
<1>4. credentials' \in Seq(Finding) /\ Passive!SecretsAttributed'
  BY <1>1, <1>2, SecretsStep
<1>5. \A ip \in DOMAIN hosts' : hosts'[ip] \in HostRecord
  <2> SUFFICES ASSUME NEW ip \in DOMAIN hosts' PROVE hosts'[ip] \in HostRecord
    OBVIOUS
  <2>1. Passive!Host(hosts, ip)' \in HostRecord
    BY <1>1, <1>2, HandledFacts DEF Updated
  <2> QED
    BY <2>1 DEF Passive!Host
<1>6. CaptureTypes'
  <2>1. seen' \in Seq(Packets) /\ Len(seen') = Len(seen) + 1
    BY <1>1, <1>2 DEF CaptureTypes
  <2> QED
    BY <1>1, <1>2, <1>4, <1>5, <2>1 DEF CaptureTypes
<1> QED
  BY <1>3, <1>4, <1>6 DEF CaptureInv

LEMMA CaptureNext ==
    ASSUME Passive!CaptureAssumption, CaptureInv, [Passive!Next]_Passive!vars
    PROVE  CaptureInv'
<1>1. CASE Passive!Packet
  BY <1>1, PacketStep
<1>2. CASE \/ Passive!Unavailable \/ Passive!Begin \/ Passive!End \/ Passive!BreakOff
           \/ Passive!Over \/ UNCHANGED Passive!vars
  <2>1. UNCHANGED <<reader, seen, hosts, credentials, packet_count>>
    BY <1>2 DEF Passive!Unavailable, Passive!Begin, Passive!End, Passive!BreakOff,
                Passive!Over, Passive!vars
  <2>2. (\A ip : Agreed(ip))' /\ Passive!SecretsAttributed'
    <3>1. (\A ip : Agreed(ip)) /\ Passive!SecretsAttributed
      BY DEF CaptureInv
    <3>2. ASSUME NEW ip PROVE Agreed(ip)'
      <4>1. /\ Passive!Host(hosts, ip)' = Passive!Host(hosts, ip)
            /\ Passive!At(ip)' = Passive!At(ip) /\ Passive!To(ip)' = Passive!To(ip)
        BY <2>1 DEF Passive!Host, Passive!At, Passive!To
      <4>2. Ported(ip)' = Ported(ip) /\ Telling(ip)' = Telling(ip)
        BY <2>1, <4>1 DEF Ported, Telling
      <4> QED
        <5> DEFINE h == Passive!Host(hosts, ip)
        <5>1. /\ ip \in DOMAIN hosts <=> Passive!At(ip) # {}
              /\ h.ports = {seen[i].dport : i \in Ported(ip)}
              /\ h.protocols = {seen[i].layer : i \in Passive!At(ip)} \ {"none"}
              /\ h.is_ot <=> h.ports \cap OTPorts # {}
              /\ h.is_iot <=> h.ports \cap IoTPorts # {}
              /\ \/ Telling(ip) = {} /\ h.mac = ""
                 \/ \E m \in Telling(ip) :
                       Latest(Telling(ip), m) /\ h.mac = Passive!MacOf(ip, seen[m])
          BY <3>1 DEF Agreed
        <5>2. Passive!Host(hosts, ip)' = h
          BY <4>1
        <5> HIDE DEF h
        <5>3. seen' = seen /\ hosts' = hosts
          BY <2>1
        <5>4. ip \in DOMAIN hosts' <=> Passive!At(ip)' # {}
          BY <4>1, <5>1, <5>3
        <5>5. /\ h.ports = {seen'[i].dport : i \in Ported(ip)'}
              /\ h.protocols = {seen'[i].layer : i \in Passive!At(ip)'} \ {"none"}
          <6>1. {seen'[i].dport : i \in Ported(ip)'} = {seen[i].dport : i \in Ported(ip)}
            BY <4>2, <5>3
          <6>2. {seen'[i].layer : i \in Passive!At(ip)'} = {seen[i].layer : i \in Passive!At(ip)}
            BY <4>1, <5>3
          <6> QED
            BY <5>1, <6>1, <6>2
        <5>6. \/ Telling(ip)' = {} /\ h.mac = ""
              \/ \E m \in Telling(ip)' :
                    Latest(Telling(ip)', m) /\ h.mac = Passive!MacOf(ip, seen'[m])
          BY <4>2, <5>1, <5>3
        <5> QED
          BY <5>1, <5>2, <5>4, <5>5, <5>6 DEF Agreed, Latest, Passive!MacOf
    <3>3. Passive!SecretsAttributed'
      BY <2>1, <3>1 DEF Passive!SecretsAttributed
    <3> QED
      BY <3>2, <3>3
  <2>3. CaptureTypes'
    <3>1. CaptureTypes
      BY DEF CaptureInv
    <3>2. \/ pc = "start" /\ pc' = "done" /\ open' = open
          \/ pc = "start" /\ pc' = "reading" /\ open' = (reader # "live")
          \/ pc = "reading" /\ pc' = "done" /\ open' = FALSE
          \/ /\ pc = "reading" /\ pc' = IF reader = "load" THEN "raised" ELSE "done"
             /\ open' = (reader = "load")
          \/ pc' = pc /\ open' = open
      BY <1>2 DEF Passive!Unavailable, Passive!Begin, Passive!End, Passive!BreakOff,
                  Passive!Over, Passive!vars
    <3>3. /\ pc' \in {"start", "reading", "done", "raised"}
          /\ open' <=> (pc' = "reading" \/ pc' = "raised") /\ reader # "live"
          /\ pc' = "raised" => reader = "load"
      <4>1. /\ pc \in {"start", "reading", "done", "raised"}
            /\ reader \in {"live", "analyze", "load"}
            /\ open <=> (pc = "reading" \/ pc = "raised") /\ reader # "live"
            /\ pc = "raised" => reader = "load"
        BY <3>1 DEF CaptureTypes
      <4>2. CASE pc' = pc /\ open' = open
        BY <4>1, <4>2, Zenon
      <4>3. CASE pc = "start" /\ pc' = "done" /\ open' = open
        BY <4>1, <4>3
      <4>4. CASE pc = "start" /\ pc' = "reading" /\ open' = (reader # "live")
        BY <4>1, <4>4
      <4>5. CASE pc = "reading" /\ pc' = "done" /\ open' = FALSE
        BY <4>1, <4>5
      <4>6. CASE /\ pc = "reading" /\ pc' = IF reader = "load" THEN "raised" ELSE "done"
                 /\ open' = (reader = "load")
        BY <4>1, <4>6
      <4> QED
        BY <3>2, <4>2, <4>3, <4>4, <4>5, <4>6
    <3> QED
      BY <2>1, <3>1, <3>3 DEF CaptureTypes
  <2> QED
    BY <2>2, <2>3 DEF CaptureInv
<1> QED
  BY <1>1, <1>2 DEF Passive!Next

LEMMA CaptureInvariance ==
    ASSUME Passive!CaptureAssumption
    PROVE  Passive!Spec => []CaptureInv
<1>1. Passive!Init => CaptureInv
  BY CaptureInit
<1>2. CaptureInv /\ [Passive!Next]_Passive!vars => CaptureInv'
  BY CaptureNext
<1> QED
  BY <1>1, <1>2, PTL DEF Passive!Spec

(* The types of Capture, its file and its readers. *)
THEOREM CaptureTypeCorrectness ==
    ASSUME Passive!CaptureAssumption
    PROVE  Passive!Spec => []Passive!TypeOK
<1>1. CaptureInv => Passive!TypeOK
  <2> SUFFICES ASSUME CaptureInv PROVE Passive!TypeOK
    OBVIOUS
  <2>1. CaptureTypes
    BY DEF CaptureInv
  <2>2. ASSUME NEW h \in DOMAIN hosts
        PROVE  /\ DOMAIN hosts[h] = {"mac", "ports", "protocols", "is_ot", "is_iot"}
               /\ hosts[h].protocols \subseteq {"tcp", "udp"}
    BY <2>1, RecordFields DEF CaptureTypes
  <2>3. packet_count \in 0 .. Len(seen)
    BY <2>1 DEF CaptureTypes
  <2> QED
    BY <2>1, <2>2, <2>3 DEF CaptureTypes, Passive!TypeOK
<1> QED
  BY <1>1, CaptureInvariance, PTL

(* passive.py:97, pcap.py:142: at any time, and wherever the capture       *)
(* breaks off, the inventory holds exactly the hosts of the packets read,  *)
(* with the ports, protocols, classes and latest hardware address that     *)
(* those packets tell, whatever packets there are.                         *)
THEOREM InventoriesAgree ==
    ASSUME Passive!CaptureAssumption
    PROVE  Passive!Spec => []Passive!InventoryAgrees
<1>1. CaptureInv => Passive!InventoryAgrees
  <2> SUFFICES ASSUME CaptureInv PROVE Passive!InventoryAgrees
    OBVIOUS
  <2>1. CaptureTypes /\ \A ip : Agreed(ip)
    BY DEF CaptureInv
  <2>2. DOMAIN hosts = {ip \in UNION {{seen[i].src, seen[i].dst} : i \in DOMAIN seen} :
                           Passive!At(ip) # {}}
    <3>1. \A ip : ip \in DOMAIN hosts <=> Passive!At(ip) # {}
      BY <2>1 DEF Agreed
    <3>2. \A ip : Passive!At(ip) # {} =>
              ip \in UNION {{seen[i].src, seen[i].dst} : i \in DOMAIN seen}
      BY DEF Passive!At
    <3> QED
      BY <3>1, <3>2
  <2>3. reader = "analyze" => packet_count = Len(seen)
    BY <2>1 DEF CaptureTypes
  <2>4. ASSUME NEW ip \in DOMAIN hosts
        PROVE  LET h == hosts[ip]
               IN  /\ h.ports = {seen[i].dport : i \in Ported(ip)}
                   /\ h.protocols = {seen[i].layer : i \in Passive!At(ip)} \ {"none"}
                   /\ h.is_ot <=> h.ports \cap OTPorts # {}
                   /\ h.is_iot <=> h.ports \cap IoTPorts # {}
                   /\ h.mac = IF Telling(ip) = {} THEN ""
                              ELSE Passive!MacOf(ip, seen[Passive!Max(Telling(ip))])
    <3>1. Passive!Host(hosts, ip) = hosts[ip]
      BY <2>4 DEF Passive!Host
    <3>2. Agreed(ip)
      BY <2>1
    <3>3. ASSUME NEW m \in Telling(ip), Latest(Telling(ip), m)
          PROVE  Passive!Max(Telling(ip)) = m
      <4>1. DOMAIN seen \subseteq Nat
        BY <2>1 DEF CaptureTypes
      <4>2. Telling(ip) \subseteq DOMAIN seen
        BY DEF Telling, Passive!At
      <4> QED
        BY <3>3, <4>1, <4>2 DEF Latest, Passive!Max
    <3> QED
      BY <3>1, <3>2, <3>3 DEF Agreed
  <2> QED
    BY <2>2, <2>3, <2>4 DEF Passive!InventoryAgrees, Ported, Telling
<1> QED
  BY <1>1, CaptureInvariance, PTL

(* pcap.py:131: every secret that was read is reported under its server's  *)
(* address and port and nothing else is, for any packets in any order.     *)
THEOREM SecretsAreAttributed ==
    ASSUME Passive!CaptureAssumption
    PROVE  Passive!Spec => []Passive!SecretsAttributed
<1>1. CaptureInv => Passive!SecretsAttributed
  BY DEF CaptureInv
<1> QED
  BY <1>1, CaptureInvariance, PTL

=============================================================================
