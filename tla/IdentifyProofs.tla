--------------------------- MODULE IdentifyProofs ---------------------------
(***************************************************************************)
(* Proofs about Identify, for any hosts, ports, probes, command lines,     *)
(* scopes, scan results and rates.                                         *)
(*                                                                         *)
(* The interlock: every coroutine past "off", and every probe sent, was    *)
(* chosen for its host under that host's profile; the rest follows from    *)
(* how the commands choose ports, profile and probes.                      *)
(*                                                                         *)
(* The pace of industrial hosts: with one worker, whoever has the slot is  *)
(* the only one probing or sleeping the delay, and its delay ends no       *)
(* earlier than the delay after the last probe that was sent.              *)
(***************************************************************************)
EXTENDS Identify, FiniteSetTheorems, TLAPS

Sent == [host : Host, probe : Probe, at : Nat, profile : DOMAIN Profiles]

Chosen(s) == s.probe \in Selected(s.host) /\ s.profile = ProfileName(s.host)

IInv ==
    /\ cfg \in Configs
    /\ host \subseteq Host
    /\ now \in Nat
    /\ phase \in [Probe -> Phase]
    /\ \A h \in host, p \in Probe : phase[p] # "off" => p \in Selected(h)
    /\ sent \in Seq(Sent)
    /\ \A i \in DOMAIN sent : Chosen(sent[i])

-----------------------------------------------------------------------------
LEMMA ProfileNames ==
    ASSUME cfg \in Configs, NEW h \in Host
    PROVE  ProfileName(h) \in {"it", "iot", "ot"} /\ DOMAIN Profiles = {"it", "iot", "ot"}
<1>1. cfg.command \in {"identify", "audit"} /\ cfg.otSafe \in BOOLEAN
      /\ cfg.profile \in {"auto", "it", "iot", "ot"}
  BY IdentifyAssumption DEF ConfigType
<1>2. ASSUME NEW profile \in {"it", "iot", "ot"}, NEW ports, NEW forced \in BOOLEAN
      PROVE  Interlock(profile, ports, forced) \in {"it", "iot", "ot"}
  BY DEF Interlock
<1>3. ProfileName(h) \in {"it", "iot", "ot"}
  BY <1>1, <1>2 DEF ProfileName
<1>4. QED
  BY <1>3 DEF Profiles

(* What is fixed with the configuration. *)
LEMMA Fixed ==
    ASSUME cfg' = cfg
    PROVE  \A h \in Host : Selected(h)' = Selected(h) /\ ProfileName(h)' = ProfileName(h)
BY DEF Selected, Profile, ProfileName, TcpPorts, UdpPorts

(* A step of the coroutines that starts no probe. *)
LEMMA QuietStep ==
    ASSUME IInv, UNCHANGED <<cfg, sent>>, now' \in Nat, host' \subseteq Host,
           phase' \in [Probe -> Phase],
           \A h \in host', p \in Probe : phase'[p] # "off" => p \in Selected(h)
    PROVE  IInv'
<1>1. \A h \in Host : Selected(h)' = Selected(h) /\ ProfileName(h)' = ProfileName(h)
  BY Fixed
<1>2. \A i \in DOMAIN sent' : Chosen(sent'[i]) /\ sent'[i] \in Sent
  BY DEF IInv
<1>3. \A i \in DOMAIN sent' : Chosen(sent[i])'
  BY <1>1, <1>2 DEF Chosen, Sent
<1>4. \A h \in host', p \in Probe : phase'[p] # "off" => p \in Selected(h)'
  BY <1>1
<1>5. QED
  BY <1>3, <1>4 DEF IInv

(* A probe of the current host starts. *)
LEMMA StartProbeInv ==
    ASSUME IInv, NEW h \in host, NEW p \in Probe, phase[p] # "off", StartProbe(h, p),
           UNCHANGED <<cfg, host, now>>
    PROVE  IInv'
<1> DEFINE s == [host |-> h, probe |-> p, at |-> now, profile |-> ProfileName(h)]
<1>1. h \in Host /\ p \in Selected(h) /\ cfg \in Configs
  BY DEF IInv
<1>2. s \in Sent /\ Chosen(s)
  BY <1>1, ProfileNames DEF IInv, Sent, Chosen
<1>3. sent' = Append(sent, s) /\ phase' = [phase EXCEPT ![p] = "probing"]
  BY DEF StartProbe
<1> HIDE DEF s
<1>4. /\ sent' \in Seq(Sent)
      /\ \A i \in DOMAIN sent' : (i \in DOMAIN sent /\ sent'[i] = sent[i]) \/ sent'[i] = s
  BY <1>2, <1>3 DEF IInv
<1>5. \A i \in DOMAIN sent' : Chosen(sent'[i]) /\ sent'[i] \in Sent
  BY <1>2, <1>4 DEF IInv
<1>6. \A g \in Host : Selected(g)' = Selected(g) /\ ProfileName(g)' = ProfileName(g)
  BY Fixed
<1>7. \A i \in DOMAIN sent' : Chosen(sent[i])'
  BY <1>5, <1>6 DEF Chosen, Sent
<1>8. phase' \in [Probe -> Phase] /\ \A q \in Probe : phase'[q] # "off" => phase[q] # "off"
  BY <1>3 DEF IInv, Phase
<1>9. QED
  BY <1>4, <1>6, <1>7, <1>8 DEF IInv

(* The coroutine gets a worker. *)
LEMMA OwnSlotInv ==
    ASSUME IInv, NEW h \in host, NEW p \in Probe, phase[p] # "off", OwnSlot(h, p),
           UNCHANGED <<cfg, host, now>>
    PROVE  IInv'
<1>1. CASE phase' = [phase EXCEPT ![p] = "delay"] /\ sent' = sent
  <2>1. phase' \in [Probe -> Phase] /\ \A q \in Probe : phase'[q] # "off" => phase[q] # "off"
    BY <1>1 DEF IInv, Phase
  <2>2. QED
    BY <1>1, <2>1, QuietStep DEF IInv
<1>2. CASE StartProbe(h, p)
  BY <1>2, StartProbeInv
<1>3. QED
  BY <1>1, <1>2 DEF OwnSlot

LEMMA NextInv ==
    ASSUME IInv, [Next]_vars
    PROVE  IInv'
<1>1. ASSUME NEW h \in Host, StartHost(h) PROVE IInv'
  <2>1. /\ UNCHANGED <<cfg, sent, now>> /\ host' = {h}
        /\ phase' = [p \in Probe |-> IF p \in Selected(h) THEN "throttle" ELSE "off"]
    BY <1>1 DEF StartHost
  <2>2. QED
    BY <2>1, QuietStep DEF IInv, Phase
<1>2. ASSUME NEW h \in Host, SkipHost(h) PROVE IInv'
  BY <1>2, QuietStep DEF IInv, SkipHost, probeVars
<1>3. CASE FinishHost
  BY <1>3, QuietStep DEF IInv, FinishHost, probeVars
<1>4. ASSUME NEW h \in host, NEW p \in Probe, PassThrottle(h, p) PROVE IInv'
  <2>1. phase[p] # "off" /\ UNCHANGED planVars
    BY <1>4 DEF PassThrottle
  <2>2. now' = now
    BY <1>4 DEF PassThrottle, Throttle!Step, Throttle!Acquire, Throttle!AcquireFree,
                Throttle!AcquireBusy, Throttle!Granted, Throttle!Wake
  <2>3. CASE UNCHANGED probeVars
    BY <2>1, <2>2, <2>3, QuietStep DEF IInv, planVars, probeVars
  <2>4. CASE OwnSlot(h, p)
    BY <2>1, <2>2, <2>4, OwnSlotInv DEF planVars
  <2>5. CASE phase' = [phase EXCEPT ![p] = "waiting"] /\ sent' = sent
    <3>1. phase' \in [Probe -> Phase] /\ \A q \in Probe : phase'[q] # "off" => phase[q] # "off"
      BY <2>1, <2>5 DEF IInv, Phase
    <3>2. QED
      BY <2>1, <2>2, <2>5, <3>1, QuietStep DEF IInv, planVars
  <2>6. QED
    BY <1>4, <2>3, <2>4, <2>5 DEF PassThrottle
<1>5. ASSUME NEW h \in host, NEW p \in Probe, Resume(h, p) PROVE IInv'
  BY <1>5, OwnSlotInv DEF Resume, planVars
<1>6. ASSUME NEW h \in host, NEW p \in Probe, DelayOver(h, p) PROVE IInv'
  BY <1>6, StartProbeInv DEF DelayOver, planVars
<1>7. ASSUME NEW h \in host, NEW p \in Probe, ProbeEnd(h, p) PROVE IInv'
  <2>1. /\ phase[p] # "off" /\ phase' = [phase EXCEPT ![p] = "done"]
        /\ UNCHANGED <<cfg, host, sent, now>>
    BY <1>7 DEF ProbeEnd, planVars
  <2>2. phase' \in [Probe -> Phase] /\ \A q \in Probe : phase'[q] # "off" => phase[q] # "off"
    BY <2>1 DEF IInv, Phase
  <2>3. QED
    BY <2>1, <2>2, QuietStep DEF IInv
<1>8. CASE Tick
  BY <1>8, QuietStep DEF IInv, Tick, planVars, probeVars
<1>9. CASE UNCHANGED vars
  BY <1>9, QuietStep DEF IInv, vars, planVars, probeVars
<1>10. QED
  BY <1>1, <1>2, <1>3, <1>4, <1>5, <1>6, <1>7, <1>8, <1>9
     DEF Next, HostStep, ProbeStep, Finished

LEMMA Invariance == Spec => []IInv
<1>1. ASSUME Init PROVE IInv
  BY <1>1 DEF Init, IInv, Phase, Throttle!Init
<1>2. ASSUME IInv, [Next]_vars PROVE IInv'
  BY <1>2, NextInv
<1>3. QED
  BY <1>1, <1>2, PTL DEF Spec

(* README.md:58, cli.py:142-146, 691-719, 875-901: whatever is requested,  *)
(* open or allowed, an industrial protocol is probed over TCP only under   *)
(* the OT profile, unless the operator chose another one, and intrusive    *)
(* probes run under the IT profile only.                                   *)
THEOREM InterlockHolds == Spec => []Interlocked
<1>1. ASSUME IInv PROVE Interlocked
  <2>1. SUFFICES ASSUME NEW i \in DOMAIN sent
                 PROVE  /\ (sent[i].probe.ot /\ sent[i].probe.transport = "tcp") =>
                              sent[i].profile = "ot" \/ cfg.profile # "auto"
                        /\ ~sent[i].probe.safe => sent[i].profile = "it"
    BY DEF Interlocked
  <2> DEFINE h == sent[i].host
             p == sent[i].probe
  <2>2. /\ h \in Host /\ p \in Selected(h) /\ sent[i].profile = ProfileName(h)
        /\ cfg \in Configs /\ p \in Probe
    <3>1. sent[i] \in Sent /\ Chosen(sent[i]) /\ cfg \in Configs
      BY <1>1 DEF IInv
    <3>2. QED
      BY <3>1 DEF Sent, Chosen
  <2> HIDE DEF h
  <2>3. cfg.command \in {"identify", "audit"} /\ cfg.otSafe \in BOOLEAN
    BY <2>2, IdentifyAssumption DEF ConfigType
  <2>4. ASSUME p.ot, p.transport = "tcp", cfg.profile = "auto", ~cfg.otSafe
        PROVE  ProfileName(h) = "ot"
    <3>1. p.port \in OTPort /\ p.port \in TcpPorts(h)
      BY <2>2, <2>4, IdentifyAssumption DEF Selected
    <3>2. CASE cfg.command = "identify"
      BY <2>4, <3>1, <3>2 DEF ProfileName, Interlock
    <3>3. CASE cfg.command = "audit"
      <4>1. p.port \in cfg.open[h]
        BY <3>1, <3>3 DEF TcpPorts
      <4>2. QED
        BY <2>4, <3>1, <3>3, <4>1 DEF ProfileName, Interlock
    <3>4. QED
      BY <2>3, <3>2, <3>3
  <2>5. cfg.otSafe => ProfileName(h) = "ot"
    BY DEF ProfileName
  <2>6. ASSUME ~p.safe
        PROVE  ProfileName(h) = "it"
    <3>1. Profile(h).intrusive /\ ProfileName(h) \in {"it", "iot", "ot"}
      BY <2>2, <2>6, ProfileNames DEF Selected
    <3>2. QED
      BY <3>1 DEF Profile, Profiles
  <2>7. QED
    BY <2>2, <2>3, <2>4, <2>5, <2>6
<1>2. QED
  BY <1>1, Invariance, PTL

-----------------------------------------------------------------------------
(* Who holds the workers of a host, what is typed, and what the OT profile *)
(* lets be under way.                                                      *)
Queued == {slotQueue[i] : i \in DOMAIN slotQueue}

Owning == {p \in Probe : phase[p] \in {"delay", "probing"}}

(* The semaphore as its code keeps it; Probe need not be finite, the       *)
(* coroutines that hold a slot are.                                        *)
SlotsShape ==
    /\ Sem!TypeOK
    /\ \A i, j \in DOMAIN slotQueue : slotQueue[i] = slotQueue[j] => i = j
    /\ Queued \cap granted = {}
    /\ \A p \in Queued \cup granted : phase[p] = "waiting"
    /\ IsFiniteSet(granted \cup Owning)

SlotsInv ==
    /\ SlotsShape
    /\ \A h \in host : slots + Cardinality(granted \cup Owning) = Profile(h).workers

TypeInv ==
    /\ todo \subseteq Host
    /\ host \in {{}} \cup {{h} : h \in Host}
    /\ Throttle!TypeOK
    /\ delayEnd \in [Probe -> Nat]

(* The coroutine that sleeps its scan_delay began after the last probe.    *)
PaceInv ==
    /\ \A i \in DOMAIN sent : sent[i].at <= now
    /\ \A h \in host, p \in Probe :
          ProfileName(h) = "ot" /\ phase[p] = "delay" =>
             \A i \in DOMAIN sent : sent[i].at + Profiles["ot"].delay <= delayEnd[p]
    /\ \A i \in 2 .. Len(sent) :
          (sent[i].profile = "ot" /\ sent[i - 1].host = sent[i].host) =>
              sent[i].at - sent[i - 1].at >= Profiles["ot"].delay

PacedInv == TypeInv /\ SlotsInv /\ PaceInv

(* No worker is made or lost by a step.                                    *)
Conserved ==
    /\ slots + Cardinality(granted \cup Owning) \in Nat
    /\ (slots + Cardinality(granted \cup Owning))' = slots + Cardinality(granted \cup Owning)

-----------------------------------------------------------------------------
(* The first k of the queue, if it has no duplicates, are k more.          *)
LEMMA CountWoken ==
    ASSUME slotQueue \in Seq(Probe), NEW k \in Nat, k <= Len(slotQueue),
           \A i, j \in DOMAIN slotQueue : slotQueue[i] = slotQueue[j] => i = j,
           NEW A, IsFiniteSet(A), \A i \in DOMAIN slotQueue : slotQueue[i] \notin A,
           NEW W, \A w : w \in W <=> \E i \in 1 .. k : w = slotQueue[i]
    PROVE  IsFiniteSet(A \cup W) /\ Cardinality(A \cup W) = Cardinality(A) + k
<1> DEFINE f == [i \in 1 .. k |-> slotQueue[i]]
<1>1. IsFiniteSet(1 .. k) /\ Cardinality(1 .. k) = k
  BY FS_Interval
<1>2. \A i \in 1 .. k : i \in DOMAIN slotQueue
  OBVIOUS
<1>3. f \in Bijection(1 .. k, W)
  BY <1>2 DEF Bijection, Injection, Surjection, IsInjective
<1>4. IsFiniteSet(W) /\ Cardinality(W) = k
  BY <1>1, <1>3, FS_Bijection DEF ExistsBijection
<1>5. A \cap W = {}
  BY <1>2
<1>6. Cardinality(A \cap W) = 0
  BY <1>5, FS_EmptySet
<1>7. Cardinality(A) \in Nat
  BY FS_CardinalityType
<1>8. /\ IsFiniteSet(A \cup W)
      /\ Cardinality(A \cup W) = Cardinality(A) + Cardinality(W) - Cardinality(A \cap W)
  BY <1>4, FS_Union
<1>9. QED
  BY <1>4, <1>6, <1>7, <1>8

(* The first k of the queue are woken; `A' are the owners of slots before, *)
(* less the coroutine that gave its slot up.                               *)
LEMMA WakeStep ==
    ASSUME SlotsShape, phase' \in [Probe -> Phase],
           NEW k \in Nat, k <= Len(slotQueue), NEW free \in Nat, k <= free,
           NEW others \in SUBSET granted, Sem!Wake(k, free, others),
           NEW A, IsFiniteSet(A), \A i \in DOMAIN slotQueue : slotQueue[i] \notin A,
           others \cup Owning' = A,
           \A p \in Queued \cup others : phase'[p] = "waiting"
    PROVE  /\ SlotsShape'
           /\ (slots + Cardinality(granted \cup Owning))' = free + Cardinality(A)
           /\ Cardinality(A) \in Nat
<1>1. /\ slots' = free - k
      /\ slotQueue' = SubSeq(slotQueue, k + 1, Len(slotQueue))
      /\ granted' = others \cup {slotQueue[i] : i \in 1 .. k}
  BY DEF Sem!Wake
<1>2. slotQueue \in Seq(Probe) /\ granted \in SUBSET Probe
  BY DEF SlotsShape, Sem!TypeOK
<1>3. /\ slotQueue' \in Seq(Probe)
      /\ DOMAIN slotQueue' = 1 .. Len(slotQueue) - k
      /\ DOMAIN slotQueue = 1 .. Len(slotQueue) /\ Len(slotQueue) \in Nat
      /\ \A i \in 1 .. Len(slotQueue) - k : slotQueue'[i] = slotQueue[i + k]
  BY <1>1, <1>2
<1>4. \A i \in DOMAIN slotQueue' : i + k \in DOMAIN slotQueue /\ slotQueue'[i] = slotQueue[i + k]
  BY <1>3
<1>5. \A i, j \in DOMAIN slotQueue' : slotQueue'[i] = slotQueue'[j] => i = j
  BY <1>3, <1>4 DEF SlotsShape
<1>6. ASSUME NEW i \in DOMAIN slotQueue'
      PROVE  slotQueue'[i] \notin granted'
  <2>1. i \in Nat /\ i > 0 /\ i + k \in DOMAIN slotQueue /\ slotQueue'[i] = slotQueue[i + k]
    BY <1>3, <1>4
  <2>2. slotQueue[i + k] \notin others
    BY <2>1 DEF SlotsShape, Queued
  <2>3. \A j \in 1 .. k : j \in DOMAIN slotQueue /\ j # i + k
    BY <1>3, <2>1
  <2>4. \A j \in 1 .. k : slotQueue[j] # slotQueue[i + k]
    BY <2>1, <2>3 DEF SlotsShape
  <2>5. QED
    BY <1>1, <2>1, <2>2, <2>4
<1>7. \A i \in DOMAIN slotQueue : slotQueue[i] \in Probe /\ slotQueue[i] \in Queued
  BY <1>2 DEF Queued
<1>8. granted' \subseteq Probe /\ granted' \subseteq Queued \cup others
  BY <1>1, <1>2, <1>3, <1>7
<1>9. Queued' \subseteq Queued /\ Queued' \cap granted' = {}
  BY <1>4, <1>6 DEF Queued
<1>10. Sem!TypeOK'
  BY <1>1, <1>3, <1>8 DEF Sem!TypeOK
<1>11. \A p \in (Queued \cup granted)' : phase'[p] = "waiting"
  BY <1>8, <1>9
<1> DEFINE W == {slotQueue[i] : i \in 1 .. k}
<1>12. /\ \A w : w \in W <=> \E i \in 1 .. k : w = slotQueue[i]
       /\ (granted \cup Owning)' = A \cup W
  BY <1>1
<1>13. \A i, j \in DOMAIN slotQueue : slotQueue[i] = slotQueue[j] => i = j
  BY DEF SlotsShape
<1> HIDE DEF W
<1>14. IsFiniteSet(A \cup W) /\ Cardinality(A \cup W) = Cardinality(A) + k
  BY <1>2, <1>12, <1>13, CountWoken
<1>15. Cardinality(A) \in Nat
  BY FS_CardinalityType
<1>16. IsFiniteSet((granted \cup Owning)')
  BY <1>12, <1>14
<1>17. (slots + Cardinality(granted \cup Owning))' = free + Cardinality(A)
  <2>1. Cardinality((granted \cup Owning)') = Cardinality(A) + k
    BY <1>12, <1>14
  <2>2. QED
    BY <1>1, <1>15, <2>1
<1>18. QED
  BY <1>5, <1>9, <1>10, <1>11, <1>15, <1>16, <1>17 DEF SlotsShape

LEMMA TakeStep ==
    ASSUME SlotsShape, phase \in [Probe -> Phase], NEW p \in Probe, phase[p] = "throttle",
           NEW s \in {"delay", "probing"}, phase' = [phase EXCEPT ![p] = s], Sem!Take
    PROVE  SlotsShape' /\ Conserved
<1>1. /\ slots \in Nat /\ slots > 0 /\ slotQueue = <<>> /\ granted = {}
      /\ slots' = slots - 1 /\ slotQueue' = <<>> /\ granted' = {}
  BY DEF SlotsShape, Sem!TypeOK, Sem!Take, Sem!Locked
<1>2. Sem!TypeOK'
  BY <1>1 DEF Sem!TypeOK
<1>3. granted \cup Owning = Owning /\ (granted \cup Owning)' = Owning \cup {p}
  BY <1>1 DEF Owning
<1>4. p \notin Owning /\ IsFiniteSet(Owning)
  BY <1>3 DEF Owning, SlotsShape
<1>5. /\ Cardinality(Owning) \in Nat /\ IsFiniteSet(Owning \cup {p})
      /\ Cardinality(Owning \cup {p}) = Cardinality(Owning) + 1
  BY <1>4, FS_AddElement, FS_CardinalityType
<1>6. Queued' = {}
  BY <1>1 DEF Queued
<1>7. SlotsShape'
  BY <1>1, <1>2, <1>3, <1>5, <1>6 DEF SlotsShape
<1>8. /\ Cardinality(granted \cup Owning) = Cardinality(Owning)
      /\ Cardinality((granted \cup Owning)') = Cardinality(Owning) + 1
  BY <1>3, <1>5
<1>9. (slots + Cardinality(granted \cup Owning))' = slots' + Cardinality((granted \cup Owning)')
  OBVIOUS
<1>10. QED
  BY <1>1, <1>5, <1>7, <1>8, <1>9 DEF Conserved

LEMMA EnqueueStep ==
    ASSUME SlotsShape, phase \in [Probe -> Phase], NEW p \in Probe, phase[p] = "throttle",
           phase' = [phase EXCEPT ![p] = "waiting"], Sem!Enqueue(p)
    PROVE  SlotsShape' /\ Conserved
<1>1. /\ slotQueue \in Seq(Probe) /\ slotQueue' = Append(slotQueue, p)
      /\ UNCHANGED <<slots, granted>>
  BY DEF SlotsShape, Sem!TypeOK, Sem!Enqueue
<1>2. /\ DOMAIN slotQueue' = 1 .. Len(slotQueue) + 1
      /\ DOMAIN slotQueue = 1 .. Len(slotQueue) /\ Len(slotQueue) \in Nat
      /\ slotQueue'[Len(slotQueue) + 1] = p
      /\ \A i \in DOMAIN slotQueue : slotQueue'[i] = slotQueue[i]
  BY <1>1
<1>3. p \notin Queued /\ p \notin granted
  BY DEF SlotsShape
<1>4. Queued' = Queued \cup {p}
  BY <1>2 DEF Queued
<1>5. \A i, j \in DOMAIN slotQueue' : slotQueue'[i] = slotQueue'[j] => i = j
  BY <1>2, <1>3 DEF SlotsShape, Queued
<1>6. Sem!TypeOK'
  BY <1>1 DEF SlotsShape, Sem!TypeOK
<1>7. Owning' = Owning
  BY DEF Owning
<1>8. \A q \in (Queued \cup granted)' : phase'[q] = "waiting"
  BY <1>1, <1>4 DEF SlotsShape, Queued, Sem!TypeOK
<1>9. slots \in Nat /\ Cardinality(granted \cup Owning) \in Nat
  BY FS_CardinalityType DEF SlotsShape, Sem!TypeOK
<1>10. QED
  BY <1>1, <1>3, <1>4, <1>5, <1>6, <1>7, <1>8, <1>9 DEF SlotsShape, Conserved

LEMMA ResumeStep ==
    ASSUME SlotsShape, phase \in [Probe -> Phase], NEW p \in Probe, Sem!Resume(p),
           NEW s \in {"delay", "probing"}, phase' = [phase EXCEPT ![p] = s]
    PROVE  SlotsShape' /\ Conserved
<1> DEFINE k == Sem!Lesser(slots, Len(slotQueue))
           A == granted \cup Owning
<1>1. /\ slots \in Nat /\ slotQueue \in Seq(Probe) /\ granted \in SUBSET Probe
      /\ IsFiniteSet(A) /\ A \in SUBSET Probe
  BY DEF SlotsShape, Sem!TypeOK, Owning
<1>2. p \in granted /\ Sem!Wake(k, slots, granted \ {p})
  BY DEF Sem!Resume
<1>3. k \in Nat /\ k <= Len(slotQueue) /\ k <= slots
  BY <1>1 DEF Sem!Lesser
<1>4. \A i \in DOMAIN slotQueue : slotQueue[i] \notin A
  BY <1>1 DEF SlotsShape, Queued, Owning
<1>5. (granted \ {p}) \cup Owning' = A
  BY <1>2 DEF Owning
<1>6. \A q \in Queued \cup (granted \ {p}) : phase'[q] = "waiting"
  <2>1. \A q \in Queued \cup (granted \ {p}) : q \in Probe /\ q # p /\ phase[q] = "waiting"
    BY <1>1, <1>2 DEF SlotsShape, Queued
  <2>2. QED
    BY <2>1
<1>7. phase' \in [Probe -> Phase]
  BY DEF Phase
<1> HIDE DEF k, A
<1>8. /\ SlotsShape' /\ Cardinality(A) \in Nat
      /\ (slots + Cardinality(granted \cup Owning))' = slots + Cardinality(A)
  BY <1>1, <1>2, <1>3, <1>4, <1>5, <1>6, <1>7, WakeStep
<1>9. QED
  BY <1>1, <1>8 DEF A, Conserved

LEMMA ReleaseStep ==
    ASSUME SlotsShape, phase \in [Probe -> Phase], NEW p \in Probe, phase[p] = "probing",
           phase' = [phase EXCEPT ![p] = "done"], Sem!Release
    PROVE  SlotsShape' /\ Conserved
<1> DEFINE k == Sem!Lesser(1, Len(slotQueue))
           A == (granted \cup Owning) \ {p}
<1>1. /\ slots \in Nat /\ slotQueue \in Seq(Probe) /\ granted \in SUBSET Probe
      /\ IsFiniteSet(granted \cup Owning)
  BY DEF SlotsShape, Sem!TypeOK
<1>2. Sem!Wake(k, slots + 1, granted)
  BY DEF Sem!Release
<1>3. k \in Nat /\ k <= Len(slotQueue) /\ k <= slots + 1
  BY <1>1 DEF Sem!Lesser
<1>4. p \notin granted /\ p \in Owning
  BY DEF SlotsShape, Owning
<1>5. /\ IsFiniteSet(A) /\ Cardinality(A) \in Nat
      /\ Cardinality(granted \cup Owning) = Cardinality(A) + 1
  <2>1. IsFiniteSet(A) /\ Cardinality(A) = Cardinality(granted \cup Owning) - 1
    BY <1>1, <1>4, FS_RemoveElement
  <2>2. Cardinality(A) \in Nat /\ Cardinality(granted \cup Owning) \in Nat
    BY <1>1, <2>1, FS_CardinalityType
  <2>3. QED
    BY <2>1, <2>2
<1>6. \A i \in DOMAIN slotQueue : slotQueue[i] \notin A
  BY <1>1 DEF SlotsShape, Queued, Owning
<1>7. granted \cup Owning' = A
  BY <1>4 DEF Owning
<1>8. \A q \in Queued \cup granted : phase'[q] = "waiting"
  <2>1. \A q \in Queued \cup granted : q \in Probe /\ q # p /\ phase[q] = "waiting"
    BY <1>1 DEF SlotsShape, Queued
  <2>2. QED
    BY <2>1
<1>9. phase' \in [Probe -> Phase] /\ slots + 1 \in Nat /\ granted \in SUBSET granted
  BY <1>1 DEF Phase
<1> HIDE DEF k, A
<1>10. /\ SlotsShape'
       /\ (slots + Cardinality(granted \cup Owning))' = slots + 1 + Cardinality(A)
  BY <1>2, <1>3, <1>5, <1>6, <1>7, <1>8, <1>9, WakeStep
<1>11. QED
  BY <1>1, <1>5, <1>10 DEF Conserved

(* The coroutines change, but nobody takes or gives a slot.                *)
LEMMA SameSlots ==
    ASSUME SlotsShape, UNCHANGED semVars, Owning' = Owning,
           \A p \in Queued \cup granted : phase'[p] = "waiting"
    PROVE  SlotsShape' /\ Conserved
<1>1. slots \in Nat /\ Cardinality(granted \cup Owning) \in Nat
  BY FS_CardinalityType DEF SlotsShape, Sem!TypeOK
<1>2. UNCHANGED <<slots, slotQueue, granted>>
  BY DEF semVars
<1>3. QED
  BY <1>1, <1>2 DEF SlotsShape, Conserved, Queued, Sem!TypeOK

-----------------------------------------------------------------------------
(* A step of acquire(), whoever calls it.                                  *)
LEMMA AcquireType ==
    ASSUME Throttle!TypeOK, NEW p \in Probe, Throttle!Step(p)
    PROVE  Throttle!TypeOK' /\ now' = now
<1>1. /\ now \in Nat /\ nextSlot \in Nat /\ wakeAt \in Nat /\ passes \in Seq(Nat)
      /\ thr \in [Probe -> Throttle!TaskState] /\ lockQueue \in Seq(Probe)
      /\ Interval \in Nat
  BY IdentifyAssumption DEF Throttle!TypeOK
<1>2. ASSUME NEW slot \in Nat, Throttle!Return(p, slot)
      PROVE  /\ nextSlot' \in Nat /\ thr' \in [Probe -> Throttle!TaskState]
             /\ passes' \in Seq(Nat)
  BY <1>1, <1>2 DEF Throttle!Return, Throttle!TaskState
<1>3. ASSUME Throttle!Enter(p)
      PROVE  /\ nextSlot' \in Nat /\ thr' \in [Probe -> Throttle!TaskState]
             /\ passes' \in Seq(Nat) /\ wakeAt' \in Nat
  <2>1. CASE Throttle!Return(p, now + Interval) /\ UNCHANGED wakeAt
    <3>1. now + Interval \in Nat
      BY <1>1
    <3>2. QED
      BY <1>1, <1>2, <2>1, <3>1
  <2>2. CASE /\ thr' = [thr EXCEPT ![p] = "sleeping"] /\ wakeAt' = nextSlot
             /\ UNCHANGED <<nextSlot, passes>>
    BY <1>1, <2>2 DEF Throttle!TaskState
  <2>3. QED
    BY <1>3, <2>1, <2>2 DEF Throttle!Enter
<1>4. CASE Throttle!AcquireFree(p)
  <2>1. /\ UNCHANGED <<now, lockQueue>>
        /\ \/ Throttle!Return(p, nextSlot) /\ UNCHANGED wakeAt
           \/ Throttle!Enter(p)
    BY <1>4 DEF Throttle!AcquireFree
  <2>2. QED
    BY <1>1, <1>2, <1>3, <2>1 DEF Throttle!TypeOK
<1>5. CASE Throttle!AcquireBusy(p)
  BY <1>1, <1>5 DEF Throttle!AcquireBusy, Throttle!TypeOK, Throttle!TaskState
<1>6. CASE Throttle!Granted(p)
  <2>1. now' = now /\ lockQueue' \in Seq(Probe) /\ Throttle!Enter(p)
    BY <1>1, <1>6 DEF Throttle!Granted
  <2>2. QED
    BY <1>1, <1>3, <2>1 DEF Throttle!TypeOK
<1>7. CASE Throttle!Wake(p)
  <2>1. Throttle!SlotFromClock \in Nat
    BY <1>1 DEF Throttle!SlotFromClock
  <2>2. Throttle!Return(p, Throttle!SlotFromClock) /\ UNCHANGED <<now, lockQueue, wakeAt>>
    BY <1>7 DEF Throttle!Wake
  <2>3. QED
    BY <1>1, <1>2, <2>1, <2>2 DEF Throttle!TypeOK
<1>8. QED
  BY <1>4, <1>5, <1>6, <1>7 DEF Throttle!Step, Throttle!Acquire

-----------------------------------------------------------------------------
LEMMA ProfileFacts ==
    ASSUME cfg \in Configs, NEW h \in Host
    PROVE  /\ Profile(h).workers \in Nat /\ Profile(h).delay \in Nat
           /\ Profiles["ot"].delay = 5
           /\ ProfileName(h) = "ot" => Profile(h).workers = 1 /\ Profile(h).delay = 5
BY ProfileNames DEF Profile, Profiles

(* Under the OT profile one coroutine at most holds a slot.                *)
LEMMA OneOwner ==
    ASSUME IInv, SlotsInv, NEW h \in host, ProfileName(h) = "ot"
    PROVE  /\ IsFiniteSet(Owning) /\ Cardinality(Owning) <= 1
           /\ \A p, q \in Owning : p = q
<1> DEFINE A == granted \cup Owning
<1>1. /\ slots \in Nat /\ IsFiniteSet(A) /\ slots + Cardinality(A) = 1
  BY ProfileFacts DEF IInv, SlotsInv, SlotsShape, Sem!TypeOK
<1>2. Owning \subseteq A
  OBVIOUS
<1> HIDE DEF A
<1>3. IsFiniteSet(Owning) /\ Cardinality(Owning) \in Nat /\ Cardinality(Owning) <= 1
  <2>1. /\ IsFiniteSet(Owning) /\ Cardinality(Owning) \in Nat /\ Cardinality(A) \in Nat
        /\ Cardinality(Owning) <= Cardinality(A)
    BY <1>1, <1>2, FS_Subset, FS_CardinalityType
  <2>2. QED
    BY <1>1, <2>1
<1>4. ASSUME NEW p \in Owning, NEW q \in Owning, p # q
      PROVE  FALSE
  <2>1. IsFiniteSet(Owning \ {p}) /\ Cardinality(Owning \ {p}) = Cardinality(Owning) - 1
    BY <1>3, FS_RemoveElement
  <2>2. Cardinality(Owning \ {p}) \in Nat
    BY <2>1, FS_CardinalityType
  <2>3. Cardinality(Owning \ {p}) = 0
    BY <1>3, <2>1, <2>2
  <2>4. Owning \ {p} = {}
    BY <2>1, <2>3, FS_EmptySet
  <2>5. QED
    BY <1>4, <2>4
<1>5. QED
  BY <1>3, <1>4

(* The host's workers are still its profile's.                             *)
LEMMA KeepsWorkers ==
    ASSUME IInv, SlotsInv, cfg' = cfg, host' \subseteq host, SlotsShape', Conserved
    PROVE  SlotsInv'
<1>1. \A h \in host' : h \in host /\ h \in Host /\ Profile(h)' = Profile(h)
  BY Fixed DEF IInv, Profile
<1>2. QED
  BY <1>1 DEF SlotsInv, Conserved

LEMMA SentAt ==
    ASSUME IInv
    PROVE  \A i \in DOMAIN sent : sent[i].at \in Nat
<1>1. \A i \in DOMAIN sent : sent[i] \in Sent
  BY DEF IInv
<1>2. QED
  BY <1>1 DEF Sent

(* A step that starts no probe; a coroutine that begins its scan_delay     *)
(* begins it now.                                                          *)
LEMMA PaceQuiet ==
    ASSUME IInv, PaceInv, UNCHANGED <<cfg, sent>>, now' \in Nat, now <= now', host' \subseteq Host,
           \A h \in host', p \in Probe : ProfileName(h) = "ot" /\ phase'[p] = "delay" =>
              \/ h \in host /\ phase[p] = "delay" /\ delayEnd'[p] = delayEnd[p]
              \/ delayEnd'[p] = now + Profiles["ot"].delay
    PROVE  PaceInv'
<1>1. \A i \in DOMAIN sent : sent[i].at \in Nat /\ sent[i].at <= now
  BY SentAt DEF PaceInv
<1>2. now \in Nat /\ Profiles["ot"].delay = 5 /\ Profiles' = Profiles
  BY DEF IInv, Profiles
<1>3. (\A i \in DOMAIN sent : sent[i].at <= now)'
  BY <1>1, <1>2
<1>4. ASSUME NEW h \in host', NEW p \in Probe, ProfileName(h)' = "ot", phase'[p] = "delay",
             NEW i \in DOMAIN sent
      PROVE  sent[i].at + 5 <= delayEnd'[p]
  <2>1. ProfileName(h) = "ot"
    BY <1>4, Fixed
  <2>2. CASE h \in host /\ phase[p] = "delay" /\ delayEnd'[p] = delayEnd[p]
    BY <1>2, <2>1, <2>2 DEF PaceInv
  <2>3. CASE delayEnd'[p] = now + 5
    BY <1>1, <1>2, <2>3
  <2>4. QED
    BY <1>2, <1>4, <2>1, <2>2, <2>3
<1>5. QED
  BY <1>2, <1>3, <1>4 DEF PaceInv

(* A probe starts: under the OT profile its delay is over and nobody else  *)
(* holds a slot.                                                           *)
LEMMA PaceStart ==
    ASSUME IInv, PacedInv, NEW h \in host, NEW p \in Probe, StartProbe(h, p),
           UNCHANGED <<cfg, host, now, delayEnd>>,
           ProfileName(h) = "ot" => phase[p] = "delay" /\ delayEnd[p] <= now
    PROVE  PaceInv'
<1> DEFINE s == [host |-> h, probe |-> p, at |-> now, profile |-> ProfileName(h)]
<1>1. /\ sent' = Append(sent, s) /\ phase' = [phase EXCEPT ![p] = "probing"]
      /\ now \in Nat /\ host = {h} /\ h \in Host /\ sent \in Seq(Sent)
      /\ phase \in [Probe -> Phase] /\ delayEnd \in [Probe -> Nat]
  BY DEF StartProbe, IInv, PacedInv, TypeInv
<1>2. s.at = now /\ s.profile = ProfileName(h)
  OBVIOUS
<1> HIDE DEF s
<1>3. /\ Len(sent) \in Nat /\ Len(sent') = Len(sent) + 1 /\ sent'[Len(sent) + 1] = s
      /\ DOMAIN sent' = 1 .. Len(sent) + 1 /\ DOMAIN sent = 1 .. Len(sent)
      /\ \A i \in DOMAIN sent : sent'[i] = sent[i]
  BY <1>1
<1>4. \A i \in DOMAIN sent : sent[i].at \in Nat /\ sent[i].at <= now
  BY SentAt DEF PacedInv, PaceInv
<1>5. Profiles["ot"].delay = 5 /\ Profiles' = Profiles
  BY DEF Profiles
<1>6. (\A i \in DOMAIN sent : sent[i].at <= now)'
  BY <1>1, <1>2, <1>3, <1>4
<1>7. ASSUME NEW q \in Probe, ProfileName(h)' = "ot", phase'[q] = "delay"
      PROVE  FALSE
  <2>1. ProfileName(h) = "ot" /\ phase[p] = "delay" /\ phase[q] = "delay" /\ p # q
    BY <1>1, <1>7, Fixed
  <2>2. QED
    BY <2>1, OneOwner DEF PacedInv, Owning
<1>8. ASSUME NEW i \in 2 .. Len(sent), sent[i].profile = "ot", sent[i - 1].host = sent[i].host
      PROVE  sent[i].at - sent[i - 1].at >= 5
  BY <1>5, <1>8 DEF PacedInv, PaceInv
<1>9. ASSUME s.profile = "ot", NEW i \in DOMAIN sent
      PROVE  s.at - sent[i].at >= 5
  <2>1. sent[i].at + 5 <= delayEnd[p] /\ delayEnd[p] <= now /\ delayEnd[p] \in Nat
    BY <1>1, <1>2, <1>5, <1>9 DEF PacedInv, PaceInv
  <2>2. QED
    BY <1>1, <1>2, <1>4, <2>1
<1>10. ASSUME NEW i \in 2 .. Len(sent'), sent'[i].profile = "ot", sent'[i - 1].host = sent'[i].host
       PROVE  sent'[i].at - sent'[i - 1].at >= 5
  <2>1. CASE i \in 2 .. Len(sent)
    <3>1. sent'[i] = sent[i] /\ sent'[i - 1] = sent[i - 1]
      BY <1>3, <2>1
    <3>2. QED
      BY <1>8, <1>10, <2>1, <3>1
  <2>2. CASE i = Len(sent) + 1
    <3>1. sent'[i] = s /\ i - 1 \in DOMAIN sent /\ sent'[i - 1] = sent[i - 1]
      BY <1>3, <1>10, <2>2
    <3>2. QED
      BY <1>9, <1>10, <3>1
  <2>3. QED
    BY <1>3, <1>10, <2>1, <2>2
<1>11. host' = {h}
  BY <1>1
<1>12. QED
  BY <1>5, <1>6, <1>7, <1>10, <1>11 DEF PaceInv

-----------------------------------------------------------------------------
(* The coroutine gets a worker, at once or after it queued.                *)
LEMMA OwnSlotPace ==
    ASSUME IInv, PacedInv, NEW h \in host, NEW p \in Probe, OwnSlot(h, p),
           UNCHANGED <<cfg, host, now>>
    PROVE  /\ PaceInv' /\ delayEnd' \in [Probe -> Nat]
           /\ \E s \in {"delay", "probing"} : phase' = [phase EXCEPT ![p] = s]
<1>1. /\ h \in Host /\ cfg \in Configs /\ delayEnd \in [Probe -> Nat]
      /\ phase \in [Probe -> Phase] /\ now \in Nat /\ PaceInv /\ host \subseteq Host
  BY DEF IInv, PacedInv, TypeInv
<1>2. /\ Profile(h).delay \in Nat /\ Profiles["ot"].delay = 5
      /\ ProfileName(h) = "ot" => Profile(h).delay = 5
  BY <1>1, ProfileFacts
<1>3. CASE /\ phase' = [phase EXCEPT ![p] = "delay"] /\ UNCHANGED sent
           /\ delayEnd' = [delayEnd EXCEPT ![p] = now + Profile(h).delay]
  <2>1. delayEnd' \in [Probe -> Nat]
    BY <1>1, <1>2, <1>3
  <2>2. \A g \in host', q \in Probe : ProfileName(g) = "ot" /\ phase'[q] = "delay" =>
           \/ g \in host /\ phase[q] = "delay" /\ delayEnd'[q] = delayEnd[q]
           \/ delayEnd'[q] = now + Profiles["ot"].delay
    <3>1. \A g \in host : g = h
      BY DEF PacedInv, TypeInv
    <3>2. QED
      BY <1>1, <1>2, <1>3, <3>1
  <2>3. now' \in Nat /\ now <= now' /\ host' \subseteq Host
    BY <1>1
  <2>4. PaceInv'
    BY <1>1, <1>3, <2>2, <2>3, PaceQuiet
  <2>5. QED
    BY <1>3, <2>1, <2>4
<1>4. CASE Profile(h).delay = 0 /\ StartProbe(h, p) /\ UNCHANGED delayEnd
  <2>1. ProfileName(h) # "ot"
    BY <1>2, <1>4
  <2>2. PaceInv' /\ phase' = [phase EXCEPT ![p] = "probing"]
    BY <1>4, <2>1, PaceStart DEF StartProbe
  <2>3. QED
    BY <1>1, <1>4, <2>2
<1>5. QED
  BY <1>3, <1>4 DEF OwnSlot

LEMMA PacedNext ==
    ASSUME IInv, PacedInv, [Next]_vars, IInv'
    PROVE  PacedInv'
<1>1. /\ TypeInv /\ SlotsInv /\ PaceInv /\ SlotsShape /\ cfg \in Configs /\ host \subseteq Host
      /\ now \in Nat /\ now <= now /\ phase \in [Probe -> Phase] /\ delayEnd \in [Probe -> Nat]
      /\ IsFiniteSet({}) /\ Cardinality({}) = 0
  <2>1. now \in Nat /\ phase \in [Probe -> Phase] /\ cfg \in Configs /\ host \subseteq Host
    BY DEF IInv
  <2>2. TypeInv /\ SlotsInv /\ PaceInv /\ SlotsShape /\ delayEnd \in [Probe -> Nat]
    BY DEF PacedInv, SlotsInv, TypeInv
  <2>3. IsFiniteSet({}) /\ Cardinality({}) = 0
    BY FS_EmptySet
  <2>4. QED
    BY <2>1, <2>2, <2>3
<1>2. ASSUME NEW h \in Host, StartHost(h) PROVE PacedInv'
  <2>1. /\ UNCHANGED <<cfg, now, delayEnd, sent>> /\ host' = {h} /\ todo' \subseteq todo
        /\ nextSlot' = 0 /\ thr' = [p \in Probe |-> "new"] /\ lockQueue' = <<>>
        /\ wakeAt' = 0 /\ passes' = <<>>
        /\ slots' = Profile(h).workers /\ slotQueue' = <<>> /\ granted' = {}
        /\ \A p \in Probe : phase'[p] \in {"off", "throttle"}
    BY <1>2 DEF StartHost
  <2>2. TypeInv'
    BY <1>1, <2>1 DEF TypeInv, Throttle!TypeOK, Throttle!TaskState
  <2>3. Queued' = {} /\ Owning' = {} /\ Profile(h).workers \in Nat /\ Profile(h)' = Profile(h)
    BY <1>1, <2>1, ProfileFacts, Fixed DEF Queued, Owning, Profile
  <2>4. SlotsShape'
    BY <1>1, <2>1, <2>3 DEF SlotsShape, Sem!TypeOK
  <2>5. Cardinality((granted \cup Owning)') = 0
    BY <1>1, <2>1, <2>3
  <2>6. SlotsInv'
    BY <2>1, <2>3, <2>4, <2>5 DEF SlotsInv
  <2>7. host' \subseteq Host /\ now' \in Nat /\ now <= now'
    BY <1>1, <2>1
  <2>8. PaceInv'
    BY <1>1, <2>1, <2>7, PaceQuiet
  <2>9. QED
    BY <2>2, <2>6, <2>8 DEF PacedInv
<1>3. ASSUME UNCHANGED <<cfg, delayEnd, sent, phase>>, semVars' = semVars, host' \subseteq host,
             todo' \subseteq todo, host' \in {{}, host}, now' \in Nat, now <= now',
             throttleVars' = throttleVars
      PROVE  PacedInv'
  <2>1. TypeInv'
    BY <1>1, <1>3 DEF TypeInv, throttleVars, Throttle!TypeOK
  <2>2. Owning' = Owning /\ \A p \in Queued \cup granted : phase'[p] = "waiting"
    BY <1>1, <1>3 DEF Owning, SlotsShape
  <2>3. SlotsShape' /\ Conserved
    BY <1>1, <1>3, <2>2, SameSlots DEF semVars
  <2>4. SlotsInv'
    BY <1>1, <1>3, <2>3, KeepsWorkers
  <2>5. host' \subseteq Host
    BY <1>1, <1>3
  <2>6. PaceInv'
    BY <1>1, <1>3, <2>5, PaceQuiet
  <2>7. QED
    BY <2>1, <2>4, <2>6 DEF PacedInv
<1>4. ASSUME NEW h \in Host, SkipHost(h) PROVE PacedInv'
  BY <1>1, <1>3, <1>4 DEF SkipHost, probeVars, semVars, throttleVars
<1>5. CASE FinishHost
  BY <1>1, <1>3, <1>5 DEF FinishHost, probeVars, semVars, throttleVars
<1>6. CASE Tick
  BY <1>1, <1>3, <1>6 DEF Tick, planVars, probeVars, semVars, throttleVars
<1>7. CASE UNCHANGED vars
  BY <1>1, <1>3, <1>7 DEF vars, planVars, probeVars, semVars, throttleVars
<1>8. ASSUME NEW h \in host, NEW p \in Probe, PassThrottle(h, p) PROVE PacedInv'
  <2>1. /\ phase[p] = "throttle" /\ UNCHANGED <<cfg, todo, host>>
        /\ Throttle!TypeOK' /\ now' = now
    BY <1>1, <1>8, AcquireType DEF PassThrottle, planVars, TypeInv
  <2>2. CASE UNCHANGED <<semVars, probeVars>>
    <3>1. Owning' = Owning /\ \A q \in Queued \cup granted : phase'[q] = "waiting"
      BY <1>1, <2>2 DEF Owning, SlotsShape, probeVars
    <3>2. SlotsInv'
      BY <1>1, <2>1, <2>2, <3>1, SameSlots, KeepsWorkers DEF semVars
    <3>3. PaceInv'
      BY <1>1, <2>1, <2>2, PaceQuiet DEF probeVars
    <3>4. QED
      BY <2>1, <2>2, <3>2, <3>3 DEF PacedInv, TypeInv, probeVars
  <2>3. CASE Sem!Take /\ OwnSlot(h, p)
    <3>1. /\ PaceInv' /\ delayEnd' \in [Probe -> Nat]
          /\ \E s \in {"delay", "probing"} : phase' = [phase EXCEPT ![p] = s]
      BY <2>1, <2>3, OwnSlotPace
    <3>2. SlotsInv'
      BY <1>1, <2>1, <2>3, <3>1, TakeStep, KeepsWorkers
    <3>3. QED
      BY <1>1, <2>1, <3>1, <3>2 DEF PacedInv, TypeInv
  <2>4. CASE /\ Sem!Enqueue(p) /\ phase' = [phase EXCEPT ![p] = "waiting"]
             /\ UNCHANGED <<delayEnd, sent>>
    <3>1. SlotsInv'
      BY <1>1, <2>1, <2>4, EnqueueStep, KeepsWorkers
    <3>2. \A q \in Probe : phase'[q] = "delay" => phase[q] = "delay"
      BY <1>1, <2>4
    <3>3. PaceInv'
      BY <1>1, <2>1, <2>4, <3>2, PaceQuiet
    <3>4. QED
      BY <1>1, <2>1, <2>4, <3>1, <3>3 DEF PacedInv, TypeInv
  <2>5. QED
    BY <1>8, <2>2, <2>3, <2>4 DEF PassThrottle
<1>9. ASSUME NEW h \in host, NEW p \in Probe, Resume(h, p) PROVE PacedInv'
  <2>1. /\ UNCHANGED <<cfg, todo, host, now>> /\ throttleVars' = throttleVars
        /\ Sem!Resume(p) /\ OwnSlot(h, p)
    BY <1>9 DEF Resume, planVars
  <2>2. /\ PaceInv' /\ delayEnd' \in [Probe -> Nat]
        /\ \E s \in {"delay", "probing"} : phase' = [phase EXCEPT ![p] = s]
    BY <2>1, OwnSlotPace
  <2>3. SlotsInv'
    BY <1>1, <2>1, <2>2, ResumeStep, KeepsWorkers
  <2>4. QED
    BY <1>1, <2>1, <2>2, <2>3 DEF PacedInv, TypeInv, throttleVars, Throttle!TypeOK
<1>10. ASSUME NEW h \in host, NEW p \in Probe, DelayOver(h, p) PROVE PacedInv'
  <2>1. /\ UNCHANGED <<cfg, todo, host, now, delayEnd>> /\ throttleVars' = throttleVars
        /\ semVars' = semVars /\ StartProbe(h, p) /\ phase[p] = "delay" /\ delayEnd[p] <= now
        /\ phase' = [phase EXCEPT ![p] = "probing"]
    BY <1>10 DEF DelayOver, planVars, StartProbe
  <2>2. PaceInv'
    BY <2>1, PaceStart
  <2>3. Owning' = Owning /\ \A q \in Queued \cup granted : phase'[q] = "waiting"
    <3>1. Queued \cup granted \subseteq Probe
      BY <1>1 DEF SlotsShape, Queued, Sem!TypeOK
    <3>2. QED
      BY <1>1, <2>1, <3>1 DEF Owning, SlotsShape
  <2>4. SlotsInv'
    BY <1>1, <2>1, <2>3, SameSlots, KeepsWorkers DEF semVars
  <2>5. QED
    BY <1>1, <2>1, <2>2, <2>4 DEF PacedInv, TypeInv, throttleVars, Throttle!TypeOK
<1>11. ASSUME NEW h \in host, NEW p \in Probe, ProbeEnd(h, p) PROVE PacedInv'
  <2>1. /\ UNCHANGED <<cfg, todo, host, now, delayEnd, sent>> /\ throttleVars' = throttleVars
        /\ phase[p] = "probing" /\ phase' = [phase EXCEPT ![p] = "done"] /\ Sem!Release
    BY <1>11 DEF ProbeEnd, planVars
  <2>2. SlotsInv'
    BY <1>1, <2>1, ReleaseStep, KeepsWorkers
  <2>3. \A q \in Probe : phase'[q] = "delay" => phase[q] = "delay"
    BY <1>1, <2>1
  <2>4. PaceInv'
    BY <1>1, <2>1, <2>3, PaceQuiet
  <2>5. QED
    BY <1>1, <2>1, <2>2, <2>4 DEF PacedInv, TypeInv, throttleVars, Throttle!TypeOK
<1>12. QED
  BY <1>2, <1>4, <1>5, <1>6, <1>7, <1>8, <1>9, <1>10, <1>11
     DEF Next, HostStep, ProbeStep, Finished

LEMMA PacedInvariance == Spec => [](IInv /\ PacedInv)
<1>1. ASSUME Init PROVE PacedInv
  <2>1. TypeInv
    BY <1>1 DEF Init, TypeInv, Throttle!Init, Throttle!TypeOK, Throttle!TaskState
  <2>2. SlotsShape
    BY <1>1, FS_EmptySet DEF Init, Sem!Init, SlotsShape, Sem!TypeOK, Queued, Owning
  <2>3. host = {} /\ sent = <<>>
    BY <1>1 DEF Init
  <2>4. QED
    BY <2>1, <2>2, <2>3 DEF PacedInv, SlotsInv, PaceInv
<1>2. ASSUME IInv, PacedInv, [Next]_vars, IInv' PROVE PacedInv'
  BY <1>2, PacedNext
<1>3. QED
  BY <1>1, <1>2, Invariance, PTL DEF Spec

(* scan.py:64-87, profiles.py: whatever the probes, their answers and the  *)
(* order they get there in, at most the profile's workers are handed out,  *)
(* and a probe's record names a host, a probe, a time and a profile.       *)
THEOREM TypeCorrectness == Spec => []TypeOK
<1>1. ASSUME IInv, PacedInv PROVE TypeOK
  <2>1. \A h \in host : slots <= Profile(h).workers
    <3>1. slots \in Nat /\ Cardinality(granted \cup Owning) \in Nat
      BY <1>1, FS_CardinalityType DEF PacedInv, SlotsInv, SlotsShape, Sem!TypeOK
    <3>2. QED
      BY <1>1, <3>1 DEF PacedInv, SlotsInv
  <2>2. QED
    BY <1>1, <2>1 DEF IInv, PacedInv, TypeInv, SlotsInv, SlotsShape, TypeOK, Sent
<1>2. QED
  BY <1>1, PacedInvariance, PTL

(* profiles.py:78-81: under the OT profile a host is probed by one probe   *)
(* at a time, and two probes of a host start at least scan_delay apart,    *)
(* whatever the start rate and however late a timer fires.                 *)
THEOREM OTIsPaced == Spec => []OTPaced
<1>1. ASSUME IInv, PacedInv PROVE OTPaced
  <2>1. ASSUME NEW h \in host, ProfileName(h) = "ot"
        PROVE  Cardinality(Probing) <= 1
    <3>1. IsFiniteSet(Owning) /\ Cardinality(Owning) <= 1 /\ Probing \subseteq Owning
      BY <1>1, <2>1, OneOwner DEF PacedInv, Probing, Owning
    <3>2. /\ Cardinality(Probing) <= Cardinality(Owning)
          /\ Cardinality(Probing) \in Nat /\ Cardinality(Owning) \in Nat
      BY <3>1, FS_Subset, FS_CardinalityType
    <3>3. QED
      BY <3>1, <3>2
  <2>2. QED
    BY <1>1, <2>1 DEF PacedInv, PaceInv, OTPaced
<1>2. QED
  BY <1>1, PacedInvariance, PTL

=============================================================================
