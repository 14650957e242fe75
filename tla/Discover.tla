------------------------------ MODULE Discover ------------------------------
(***************************************************************************)
(* Host discovery: the discover command (--fast, or a ping sweep and an    *)
(* ARP scan) and the discovery phase of walk.  fast_discover of            *)
(* discovery/fast.py probes the hosts of a range batch by batch; one       *)
(* coroutine per host of the batch waits for the start-rate limiter        *)
(* (module RateLimiter), then connects to one port after the other, with a *)
(* slot of the semaphore (module Semaphore) for each connect.  masscan     *)
(* (discovery/masscan.py) runs as a child process (module Subprocess);     *)
(* when it is of no use, the connect sweep takes over.                     *)
(*                                                                         *)
(* Every connect may succeed, be refused, time out or fail, whatever the   *)
(* same host did on another port.                                          *)
(***************************************************************************)
EXTENDS Integers, Sequences, FiniteSets

CONSTANTS
    Address,    \* IP addresses, as integers
    Configs,    \* the command lines and machines considered
    BatchSize,  \* _BATCH_SIZE
    MaxTargets, \* MAX_EXPANDED_TARGETS
    Workers,    \* the concurrency of each method's sweep
    Interval,   \* 1 / scope.max_scan_rate in ticks, 0 for no limit
    Horizon     \* bound of the model: no idle ticking after this time

Method == {"ping", "arp", "both", "fast", "walk"}

(*   target      a range of `size' addresses, or a name (kind)             *)
(*   ports       how many of the method's probe ports the scope allows     *)
(*   installed   masscan is on PATH;   scapy: it can be imported           *)
ConfigType ==
    [method : Method,
     target : [kind : {"range", "name"}, version : {4, 6}, first : Address, size : Nat \ {0}],
     authorized : BOOLEAN, ports : Nat, privileged : BOOLEAN, installed : BOOLEAN,
     scapy : BOOLEAN]

ASSUME DiscoverAssumption ==
    /\ Address \subseteq Int
    /\ IsFiniteSet(Address)
    /\ \A c \in Configs :
          /\ c \in ConfigType
          /\ c.target.first .. c.target.first + c.target.size - 1 \subseteq Address
    /\ BatchSize \in Nat \ {0}
    /\ MaxTargets \in Nat \ {0}
    /\ Workers \in [Method -> Nat \ {0}]
    /\ Interval \in Nat
    /\ Horizon \in Nat

VARIABLES
    config,     \* what is run, fixed
    stage,      \* start, masscan, sweep, arp, listed or raised
    child,      \* the masscan process (Subprocess)
    now, nextSlot, thr, lockQueue, wakeAt, passes,  \* see RateLimiter
    slots, slotQueue, granted,                      \* see Semaphore
    batch,      \* the number of the batch that is probed, 0 before the sweep
    at,         \* where each host's coroutine is
    tried,      \* the answers each host gave, port by port (history)
    live,       \* fast_discover's live hosts
    listed      \* the hosts the command ends up with

throttleVars == <<now, nextSlot, thr, lockQueue, wakeAt, passes>>
semVars == <<slots, slotQueue, granted>>
probeVars == <<at, tried, live>>
sweepVars == <<batch, throttleVars, semVars, probeVars>>
vars == <<config, stage, child, sweepVars, listed>>

Process == INSTANCE Subprocess

Throttle == INSTANCE RateLimiter
    WITH Task <- Address, Rereads <- TRUE, state <- thr, waiters <- lockQueue,
         starts <- passes

Sem == INSTANCE Semaphore WITH Task <- Address, queue <- slotQueue

-----------------------------------------------------------------------------
(* The addresses of the range. *)
Network ==
    config.target.first .. config.target.first + config.target.size - 1

(* expand_targets: what is no range is skipped; a range of more than two   *)
(* addresses loses the first, and over IPv4 the last (hosts()).            *)
Hosts ==
    CASE config.target.kind = "name" -> {}
      [] config.target.kind = "range" /\ config.target.size <= 2 -> Network
      [] OTHER ->
            {a \in Network \ {config.target.first} :
                config.target.version = 4 =>
                    a < config.target.first + config.target.size - 1}

TooMany == Cardinality(Hosts) > MaxTargets

(* A host's place in the sorted list. *)
Rank(h) == Cardinality({g \in Hosts : g <= h})

(* Mutant: the last host of a batch is cut off. *)
BatchTooShort(k) ==
    {h \in Hosts : (k - 1) * BatchSize < Rank(h) /\ Rank(h) < k * BatchSize}

(* batched: the hosts of the k-th batch. *)
Batch(k) ==
    {h \in Hosts : (k - 1) * BatchSize < Rank(h) /\ Rank(h) <= k * BatchSize}

LastBatch == batch * BatchSize >= Cardinality(Hosts)

(* What a connect can end with; the first two prove the host is there.     *)
Reached == {"connected", "refused"}
Answer == Reached \cup {"timeout", "error"}

Phase == {"throttle", "waiting", "connecting", "done"}

TypeOK ==
    /\ config \in Configs
    /\ stage \in {"start", "masscan", "sweep", "arp", "listed", "raised"}
    /\ Process!TypeOK
    /\ child # "none" => stage = "masscan" /\ config.privileged
    /\ Throttle!TypeOK
    /\ Sem!TypeOK
    /\ slots <= Workers[config.method]
    /\ batch \in Nat
    /\ at \in [Address -> Phase]
    /\ tried \in [Address -> Seq(Answer)]
    /\ live \subseteq Hosts
    /\ listed \subseteq Network

Init ==
    /\ config \in Configs
    /\ stage = "start"
    /\ Process!Init
    /\ Throttle!Init
    /\ Sem!Init(Workers[config.method])
    /\ batch = 0
    /\ at = [a \in Address |-> "throttle"]
    /\ tried = [a \in Address |-> <<>>]
    /\ live = {}
    /\ listed = {}

-----------------------------------------------------------------------------
List(hosts) ==
    /\ stage' = "listed"
    /\ listed' = hosts

(* The checks of the command before anything is sent. *)
Start ==
    /\ stage = "start"
    /\ \/ /\ ~config.authorized  \* ScopeError
          /\ stage' = "raised"
       \/ /\ config.authorized
          /\ config.ports = 0 /\ config.method \in {"fast", "walk"}
          /\ stage' = IF config.method = "walk" THEN "raised" ELSE "listed"
       \/ /\ config.authorized
          /\ config.ports > 0 \/ config.method \notin {"fast", "walk"}
          /\ stage' = CASE config.method = "arp" -> "arp"
                        [] config.method = "fast" /\ config.privileged -> "masscan"
                        [] OTHER -> "sweep"
    /\ UNCHANGED <<config, child, sweepVars, listed>>

-----------------------------------------------------------------------------
(* masscan_discover starts masscan, or returns None: it is not installed,  *)
(* the target is no range, the program does not start.                     *)
StartMasscan ==
    /\ stage = "masscan"
    /\ child = "none"
    /\ \/ /\ config.installed /\ config.target.kind = "range"
          /\ Process!Start
          /\ UNCHANGED stage
       \/ /\ stage' = "sweep"
          /\ UNCHANGED child
    /\ UNCHANGED <<config, sweepVars, listed>>

MasscanExit ==
    /\ Process!Exit
    /\ UNCHANGED <<config, stage, sweepVars, listed>>

(* Its list is the result; with a return code other than 0 there is none.  *)
MasscanDone ==
    /\ Process!Collect
    /\ \/ /\ child = "ok"
          /\ \E hosts \in SUBSET Network : List(hosts)
       \/ /\ child = "failed"
          /\ stage' = "sweep"
          /\ UNCHANGED listed
    /\ UNCHANGED <<config, sweepVars>>

MasscanTimeout ==
    /\ Process!Kill
    /\ UNCHANGED <<config, stage, sweepVars, listed>>

(* Mutant: the killed masscan is not waited for. *)
FallBackUnreaped ==
    /\ child = "running"
    /\ stage' = "sweep"
    /\ UNCHANGED <<config, child, sweepVars, listed>>

(* After the kill: None. *)
FallBack ==
    /\ child = "killed"
    /\ Process!Wait
    /\ stage' = "sweep"
    /\ UNCHANGED <<config, sweepVars, listed>>

-----------------------------------------------------------------------------
(* What follows fast_discover's return of `hosts'. *)
Swept(hosts) ==
    \/ /\ config.method = "both"
       /\ stage' = "arp"
       /\ UNCHANGED listed
    \/ /\ config.method # "both"
       /\ List(hosts)

(* fast_discover up to the first batch. *)
StartSweep ==
    /\ stage = "sweep"
    /\ batch = 0
    /\ \/ /\ TooMany  \* TargetLimitError
          /\ stage' = "raised"
          /\ UNCHANGED <<batch, listed>>
       \/ /\ ~TooMany
          /\ Hosts = {} \/ config.ports = 0
          /\ Swept({})
          /\ UNCHANGED batch
       \/ /\ ~TooMany
          /\ Hosts # {} /\ config.ports > 0
          /\ batch' = 1
          /\ UNCHANGED <<stage, listed>>
    /\ UNCHANGED <<config, child, throttleVars, semVars, probeVars>>

Probing(h) == stage = "sweep" /\ batch > 0 /\ h \in Batch(batch)

RequestSlot(h) ==
    \/ /\ Sem!Take
       /\ at' = [at EXCEPT ![h] = "connecting"]
    \/ /\ Sem!Enqueue(h)
       /\ at' = [at EXCEPT ![h] = "waiting"]

(* throttle.acquire() and on to the first slot. *)
PassThrottle(h) ==
    /\ Probing(h)
    /\ at[h] = "throttle"
    /\ Throttle!Step(h)
    /\ IF thr'[h] = "passed" THEN RequestSlot(h) ELSE UNCHANGED <<semVars, at>>
    /\ UNCHANGED <<config, stage, child, batch, tried, live, listed>>

Resume(h) ==
    /\ at[h] = "waiting"
    /\ Sem!Resume(h)
    /\ at' = [at EXCEPT ![h] = "connecting"]
    /\ UNCHANGED <<config, stage, child, batch, throttleVars, tried, live, listed>>

(* Mutant: only the first port is tried under the semaphore. *)
NextPortUnlimited(h) == Sem!Release /\ UNCHANGED at

(* The loop leaves `async with limit' and meets it again for the next port *)
(* in one stretch: it keeps the slot only if nobody waits or was woken.    *)
NextPort(h) ==
    \/ /\ slotQueue = <<>> /\ granted = {}
       /\ UNCHANGED <<semVars, at>>
    \/ /\ slotQueue # <<>>
       /\ granted' = granted \cup {Head(slotQueue)}
       /\ slotQueue' = Append(Tail(slotQueue), h)
       /\ UNCHANGED slots
       /\ at' = [at EXCEPT ![h] = "waiting"]
    \/ /\ slotQueue = <<>> /\ granted # {}
       /\ slots' = slots + 1
       /\ slotQueue' = <<h>>
       /\ UNCHANGED granted
       /\ at' = [at EXCEPT ![h] = "waiting"]

(* Mutant: a refused connection counts as silence. *)
AnswerRefusalIsSilence(h, answer) ==
    /\ tried' = [tried EXCEPT ![h] = Append(@, answer)]
    /\ \/ /\ answer = "connected"
          /\ live' = live \cup {h}
          /\ at' = [at EXCEPT ![h] = "done"]
          /\ Sem!Release
       \/ /\ answer # "connected"
          /\ UNCHANGED live
          /\ IF Len(tried[h]) + 1 < config.ports
                THEN NextPort(h)
                ELSE at' = [at EXCEPT ![h] = "done"] /\ Sem!Release

(* _is_reachable returns: the host is found on the first port that         *)
(* connects or refuses, and given up after the last.                       *)
Answered(h, answer) ==
    /\ tried' = [tried EXCEPT ![h] = Append(@, answer)]
    /\ \/ /\ answer \in Reached
          /\ live' = live \cup {h}
          /\ at' = [at EXCEPT ![h] = "done"]
          /\ Sem!Release
       \/ /\ answer \notin Reached
          /\ UNCHANGED live
          /\ IF Len(tried[h]) + 1 < config.ports
                THEN NextPort(h)
                ELSE at' = [at EXCEPT ![h] = "done"] /\ Sem!Release

ConnectEnds(h) ==
    /\ at[h] = "connecting"
    /\ \E answer \in Answer : Answered(h, answer)
    /\ UNCHANGED <<config, stage, child, batch, throttleVars, listed>>

(* gather() of a batch returns when its last host is done. *)
BatchOver ==
    /\ stage = "sweep"
    /\ batch > 0
    /\ \A h \in Batch(batch) : at[h] = "done"
    /\ \/ /\ ~LastBatch
          /\ batch' = batch + 1
          /\ UNCHANGED <<stage, listed>>
       \/ /\ LastBatch
          /\ Swept(live)
          /\ UNCHANGED batch
    /\ UNCHANGED <<config, child, throttleVars, semVars, probeVars>>

Tick ==
    /\ stage = "sweep" /\ batch > 0
    /\ Throttle!Tick
    /\ UNCHANGED <<config, stage, child, batch, semVars, probeVars, listed>>

-----------------------------------------------------------------------------
(* Mutant: the ARP scan's hosts replace the ones already found. *)
ArpReplaces ==
    /\ stage = "arp"
    /\ \E hosts \in SUBSET Network : List(IF config.scapy THEN hosts ELSE {})
    /\ UNCHANGED <<config, child, sweepVars>>

(* arp_scan: nothing without scapy; a name is no network and srp needs     *)
(* root and an interface, and nobody catches what they raise.  The hosts   *)
(* that answered join the ones of the ping sweep.                          *)
ArpScan ==
    /\ stage = "arp"
    /\ \/ /\ ~config.scapy
          /\ List(live)
       \/ /\ config.scapy /\ config.privileged /\ config.target.kind = "range"
          /\ \E hosts \in SUBSET Network : List(live \cup hosts)
       \/ /\ config.scapy
          /\ stage' = "raised"
          /\ UNCHANGED listed
    /\ UNCHANGED <<config, child, sweepVars>>

-----------------------------------------------------------------------------
Ended == stage \in {"listed", "raised"}

Finished ==
    /\ Ended
    /\ UNCHANGED vars

Masscan == StartMasscan \/ MasscanExit \/ MasscanDone \/ MasscanTimeout \/ FallBack

Next ==
    \/ Start
    \/ Masscan
    \/ StartSweep
    \/ \E h \in Address : PassThrottle(h) \/ Resume(h) \/ ConnectEnds(h)
    \/ BatchOver
    \/ Tick
    \/ ArpScan
    \/ Finished

Spec == Init /\ [][Next]_vars

-----------------------------------------------------------------------------
(* fast.py:131-180 over all batches: the sweep hands on exactly the hosts  *)
(* that answered on some port; every other host of the range was tried on  *)
(* every port, no host again after it answered, and no address that is     *)
(* not a host of the range.  An over-large range sends nothing.            *)
SweepComplete ==
    /\ live = {h \in Address : \E i \in DOMAIN tried[h] : tried[h][i] \in Reached}
    /\ \A h \in Address :
          /\ tried[h] # <<>> => h \in Hosts /\ ~TooMany
          /\ \A i \in 1 .. Len(tried[h]) - 1 : tried[h][i] \notin Reached
    /\ stage \in {"arp", "listed"} /\ batch > 0 =>
          \A h \in Hosts \ live : Len(tried[h]) = config.ports
    /\ stage = "listed" => live \subseteq listed
    /\ stage = "raised" => listed = {}

(* fast.py:169-172 and cli.py:313-329: at any time the open connections    *)
(* are at most `concurrency', all to hosts of one batch; hosts are started *)
(* an interval apart, from one batch to the next too; and neither masscan  *)
(* nor an ARP scan is under way beside the connects.                       *)
SweepBounded ==
    LET open == {h \in Address : at[h] = "connecting"}
    IN  /\ Cardinality(open) <= Workers[config.method]
        /\ open # {} => stage = "sweep" /\ child = "none" /\ open \subseteq Batch(batch)
        /\ \A h \in Hosts : at[h] # "throttle" =>
              \A g \in Hosts : g \in Batch(batch) \/ Rank(g) > Rank(h) \/ at[g] = "done"
        /\ Throttle!StrictRate

=============================================================================
