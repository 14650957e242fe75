------------------------------ MODULE Identify ------------------------------
(***************************************************************************)
(* Device identification: the choice of probes and profile by the commands *)
(* of cli.py (identify; full and walk, here "audit", after their scan),    *)
(* and identify_services of protocols/scan.py, which runs the probes of    *)
(* one host: each coroutine waits for its start slot (module RateLimiter), *)
(* for a worker (module Semaphore), sleeps the profile's scan_delay and    *)
(* probes.  Hosts are identified one after the other.  What a probe finds  *)
(* is not kept.                                                            *)
(***************************************************************************)
EXTENDS Integers, Sequences, FiniteSets

CONSTANTS
    Host,      \* target hosts
    Port,      \* port numbers
    OTPort,    \* profiles.OT_PORTS
    IoTPort,   \* profiles.IOT_PORTS
    Probe,     \* the registered ProbeSpecs (all_specs)
    Configs,   \* the command lines, scopes and scan results considered
    Interval,  \* 1 / scope.max_scan_rate in tenths of a second, 0: no limit
    Horizon    \* bound of the model: no idle ticking after this time

ProbeType ==
    [port : Port, transport : {"tcp", "udp"}, ot : BOOLEAN, safe : BOOLEAN,
     name : STRING]

(*   command    which command runs                                         *)
(*   requested  ports of --protocols (identify)                            *)
(*   open       TCP ports the scan found open (audit)                      *)
(*   allowed    scope.allowed_ports (Port when it is None)                 *)
(*   profile    --profile; "auto" for audit, which has no such option      *)
(*   otSafe     --ot-safe                                                  *)
(*   inScope    hosts that validate_target accepts                         *)
ConfigType ==
    [command : {"identify", "audit"}, requested : SUBSET Port,
     open : [Host -> SUBSET Port], allowed : SUBSET Port,
     profile : {"auto", "it", "iot", "ot"}, otSafe : BOOLEAN,
     inScope : SUBSET Host]

ASSUME IdentifyAssumption ==
    /\ \A p \in Probe : p.port \in Port /\ p.transport \in {"tcp", "udp"}
    /\ \A p \in Probe : p.ot => p.port \in OTPort
    /\ OTPort \cup IoTPort \subseteq Port
    /\ \A c \in Configs : c \in ConfigType /\ \A h \in Host : c.open[h] \subseteq c.allowed
    /\ Interval \in Nat
    /\ Horizon \in Nat

VARIABLES
    cfg,       \* the configuration, fixed
    todo,      \* hosts not looked at yet
    host,      \* the host being identified, {host}, or {} between hosts
    now, nextSlot, thr, lockQueue, wakeAt, passes,  \* see RateLimiter
    slots, slotQueue, granted,                      \* see Semaphore
    phase,     \* where each probe's coroutine is
    delayEnd,  \* when its scan_delay ends
    sent       \* the probes started: host, probe, time and profile (history)

throttleVars == <<nextSlot, thr, lockQueue, wakeAt, passes>>
semVars == <<slots, slotQueue, granted>>
probeVars == <<phase, delayEnd, sent>>
planVars == <<cfg, todo, host>>
vars == <<now, throttleVars, semVars, probeVars, planVars>>

Throttle == INSTANCE RateLimiter
    WITH Task <- Probe, Rereads <- TRUE, state <- thr, waiters <- lockQueue,
         starts <- passes

Sem == INSTANCE Semaphore WITH Task <- Probe, queue <- slotQueue

-----------------------------------------------------------------------------
(* profiles.py; delays in tenths of a second. *)
Profiles ==
    [it  |-> [name |-> "it", workers |-> 50, delay |-> 0, intrusive |-> TRUE],
     iot |-> [name |-> "iot", workers |-> 10, delay |-> 1, intrusive |-> FALSE],
     ot  |-> [name |-> "ot", workers |-> 1, delay |-> 5, intrusive |-> FALSE]]

(* Mutant: the IoT rule is looked at first. *)
InterlockIoTFirst(profile, ports, forced) ==
    CASE forced -> profile
      [] ~forced /\ ports \cap IoTPort # {} /\ profile = "it" -> "iot"
      [] ~forced /\ ~(ports \cap IoTPort # {} /\ profile = "it")
            -> IF ports \cap OTPort # {} THEN "ot" ELSE profile

(* apply_interlock *)
Interlock(profile, ports, forced) ==
    CASE forced -> profile
      [] ~forced /\ ports \cap OTPort # {} -> "ot"
      [] ~forced /\ ports \cap OTPort = {} ->
            IF ports \cap IoTPort # {} /\ profile = "it" THEN "iot" ELSE profile

ProbePorts(transport) == {p.port : p \in {q \in Probe : q.transport = transport}}

TcpPorts(h) ==
    IF cfg.command = "identify"
    THEN cfg.requested \cap cfg.allowed
    ELSE cfg.open[h] \cap ProbePorts("tcp") \cap cfg.allowed

(* identify passes every UDP port; full and walk the allowed ones. *)
UdpPorts ==
    IF cfg.command = "identify"
    THEN ProbePorts("udp")
    ELSE ProbePorts("udp") \cap cfg.allowed

ProfileName(h) ==
    CASE cfg.otSafe -> "ot"
      [] ~cfg.otSafe /\ cfg.command = "identify" ->
            Interlock(IF cfg.profile = "auto" THEN "it" ELSE cfg.profile,
                      TcpPorts(h), cfg.profile # "auto")
      [] ~cfg.otSafe /\ cfg.command = "audit" ->
            Interlock("it", cfg.open[h], FALSE)

Profile(h) == Profiles[ProfileName(h)]

(* Mutant: intrusive probes are not held back. *)
SelectedIntrusive(h) ==
    {p \in Probe : p.port \in IF p.transport = "tcp" THEN TcpPorts(h) ELSE UdpPorts}

(* The specs identify_services builds for a host. *)
Selected(h) ==
    {p \in Probe :
        /\ p.port \in IF p.transport = "tcp" THEN TcpPorts(h) ELSE UdpPorts
        /\ p.safe \/ Profile(h).intrusive}

-----------------------------------------------------------------------------
Phase == {"off", "throttle", "waiting", "delay", "probing", "done"}

TypeOK ==
    /\ cfg \in Configs
    /\ todo \subseteq Host
    /\ host \in {{}} \cup {{h} : h \in Host}
    /\ Throttle!TypeOK
    /\ Sem!TypeOK
    /\ \A h \in host : slots <= Profile(h).workers
    /\ phase \in [Probe -> Phase]
    /\ delayEnd \in [Probe -> Nat]
    /\ sent \in Seq([host : Host, probe : Probe, at : Nat, profile : DOMAIN Profiles])

(* identify refuses to run when the scope leaves no port. *)
Init ==
    /\ cfg \in {c \in Configs : c.command = "identify" => c.requested \cap c.allowed # {}}
    /\ todo = Host
    /\ host = {}
    /\ Throttle!Init
    /\ Sem!Init(0)
    /\ phase = [p \in Probe |-> "off"]
    /\ delayEnd = [p \in Probe |-> 0]
    /\ sent = <<>>

(* The next host: its target is validated, its probes chosen, and their    *)
(* coroutines created with a limiter and a semaphore of their own.         *)
StartHost(h) ==
    /\ host = {}
    /\ h \in todo
    /\ cfg.command = "identify" => h \in cfg.inScope
    /\ Selected(h) # {}
    /\ todo' = todo \ {h}
    /\ host' = {h}
    /\ nextSlot' = 0
    /\ thr' = [p \in Probe |-> "new"]
    /\ lockQueue' = <<>>
    /\ wakeAt' = 0
    /\ passes' = <<>>
    /\ slots' = Profile(h).workers
    /\ slotQueue' = <<>>
    /\ granted' = {}
    /\ phase' = [p \in Probe |-> IF p \in Selected(h) THEN "throttle" ELSE "off"]
    /\ UNCHANGED <<cfg, now, delayEnd, sent>>

SkipHost(h) ==
    /\ host = {}
    /\ h \in todo
    /\ (cfg.command = "identify" /\ h \notin cfg.inScope) \/ Selected(h) = {}
    /\ todo' = todo \ {h}
    /\ UNCHANGED <<cfg, host, now, throttleVars, semVars, probeVars>>

StartProbe(h, p) ==
    /\ phase' = [phase EXCEPT ![p] = "probing"]
    /\ sent' = Append(sent, [host |-> h, probe |-> p, at |-> now,
                             profile |-> ProfileName(h)])

(* Mutant: a worker's scan_delay is dropped. *)
OwnSlotNoDelay(h, p) ==
    /\ StartProbe(h, p)
    /\ UNCHANGED delayEnd

(* The probe's coroutine has a slot of the semaphore. *)
OwnSlot(h, p) ==
    \/ /\ Profile(h).delay > 0
       /\ phase' = [phase EXCEPT ![p] = "delay"]
       /\ delayEnd' = [delayEnd EXCEPT ![p] = now + Profile(h).delay]
       /\ UNCHANGED sent
    \/ /\ Profile(h).delay = 0
       /\ StartProbe(h, p)
       /\ UNCHANGED delayEnd

(* _run up to its next await: one step inside _throttle, and on to the     *)
(* semaphore when _throttle returns.                                       *)
PassThrottle(h, p) ==
    /\ phase[p] = "throttle"
    /\ Throttle!Step(p)
    /\ \/ /\ thr'[p] # "passed"
          /\ UNCHANGED <<semVars, probeVars>>
       \/ /\ thr'[p] = "passed"
          /\ Sem!Take
          /\ OwnSlot(h, p)
       \/ /\ thr'[p] = "passed"
          /\ Sem!Enqueue(p)
          /\ phase' = [phase EXCEPT ![p] = "waiting"]
          /\ UNCHANGED <<delayEnd, sent>>
    /\ UNCHANGED planVars

Resume(h, p) ==
    /\ phase[p] = "waiting"
    /\ Sem!Resume(p)
    /\ OwnSlot(h, p)
    /\ UNCHANGED <<planVars, now, throttleVars>>

DelayOver(h, p) ==
    /\ phase[p] = "delay"
    /\ delayEnd[p] <= now
    /\ StartProbe(h, p)
    /\ UNCHANGED <<planVars, now, throttleVars, semVars, delayEnd>>

(* Mutant: a probe that raises keeps its slot. *)
ProbeEndLeaking(h, p) ==
    /\ phase[p] = "probing"
    /\ phase' = [phase EXCEPT ![p] = "done"]
    /\ Sem!Release \/ UNCHANGED semVars
    /\ UNCHANGED <<planVars, now, throttleVars, delayEnd, sent>>

(* The probe answers, does not, or raises, which is caught: `async with'   *)
(* gives the slot back in each case.                                       *)
ProbeEnd(h, p) ==
    /\ phase[p] = "probing"
    /\ phase' = [phase EXCEPT ![p] = "done"]
    /\ Sem!Release
    /\ UNCHANGED <<planVars, now, throttleVars, delayEnd, sent>>

(* Mutant: the first coroutine to finish ends the collection. *)
AllDoneEarly == \E p \in Probe : phase[p] = "done"

AllDone == \A p \in Probe : phase[p] \in {"off", "done"}

(* Every coroutine has been collected. *)
FinishHost ==
    /\ host # {}
    /\ AllDone
    /\ host' = {}
    /\ UNCHANGED <<cfg, todo, now, throttleVars, semVars, probeVars>>

(* Time passes while something sleeps or runs. *)
Tick ==
    /\ host # {}
    /\ \/ now < Horizon
       \/ \E p \in Probe : phase[p] = "delay" /\ now < delayEnd[p]
       \/ ~Throttle!LockFree /\ now < wakeAt
    /\ now' = now + 1
    /\ UNCHANGED <<planVars, throttleVars, semVars, probeVars>>

Ended == todo = {} /\ host = {}

Finished ==
    /\ Ended
    /\ UNCHANGED vars

ProbeStep(h, p) ==
    \/ PassThrottle(h, p)
    \/ Resume(h, p)
    \/ DelayOver(h, p)
    \/ ProbeEnd(h, p)

HostStep == (\E h \in Host : StartHost(h) \/ SkipHost(h)) \/ FinishHost

Next ==
    \/ HostStep
    \/ \E h \in host, p \in Probe : ProbeStep(h, p)
    \/ Tick
    \/ Finished

Spec == Init /\ [][Next]_vars

(* The loop runs ready coroutines, timers expire, and every probe ends:    *)
(* its connects and reads have timeouts (module FramedExchange).           *)
Fairness ==
    /\ WF_vars(HostStep)
    /\ \A p \in Probe : WF_vars(\E h \in host : ProbeStep(h, p))
    /\ WF_vars(Tick)

FairSpec == Spec /\ Fairness

-----------------------------------------------------------------------------
Probing == {p \in Probe : phase[p] = "probing"}

(* README.md:58 and :202-203: an industrial device reached over TCP is     *)
(* probed under the OT profile unless the operator chose another one, and  *)
(* no intrusive probe runs under a profile that excludes them.             *)
Interlocked ==
    \A i \in DOMAIN sent :
        /\ (sent[i].probe.ot /\ sent[i].probe.transport = "tcp") =>
              sent[i].profile = "ot" \/ cfg.profile # "auto"
        /\ ~sent[i].probe.safe => sent[i].profile = "it"

(* profiles.py:78-81: under the OT profile a host is probed by one probe   *)
(* at a time, and two probes start at least scan_delay apart.              *)
OTPaced ==
    /\ \A h \in host : ProfileName(h) = "ot" => Cardinality(Probing) <= 1
    /\ \A i \in 2 .. Len(sent) :
          (sent[i].profile = "ot" /\ sent[i - 1].host = sent[i].host) =>
              sent[i].at - sent[i - 1].at >= Profiles["ot"].delay

(* "when set, only the listed ports are scanned"                           *)
(* (config/example-scope.yaml:20).                                         *)
OnlyListedPorts == \A i \in DOMAIN sent : sent[i].probe.port \in cfg.allowed

(* scan.py:64-87: identification ends, and then every probe chosen for a   *)
(* host in scope was run exactly once, whatever the others did, and no     *)
(* other host was touched.                                                 *)
IdentificationEnds ==
    <>(/\ Ended
       /\ \A h \in Host, p \in Probe :
             Cardinality({i \in DOMAIN sent : sent[i].host = h /\ sent[i].probe = p}) =
                IF (cfg.command = "audit" \/ h \in cfg.inScope) /\ p \in Selected(h)
                THEN 1 ELSE 0)

=============================================================================
