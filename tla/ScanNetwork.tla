----------------------------- MODULE ScanNetwork -----------------------------
(***************************************************************************)
(* PortScanner.scan_network of scanner/engine.py, from the moment the      *)
(* targets have become scan units (an address or a CIDR block, each handed *)
(* to one nmap process).  One coroutine per unit waits for the start-rate  *)
(* limiter (module RateLimiter), then for a slot of the semaphore (module   *)
(* Semaphore), then runs nmap in a worker thread.  The main coroutine collects the results  *)
(* with asyncio.as_completed.                                              *)
(*                                                                         *)
(* An action is one uninterrupted stretch of a coroutine.  What nmap finds *)
(* and how long it takes is chosen freely.                                 *)
(***************************************************************************)
EXTENDS Integers, Sequences, FiniteSets

CONSTANTS
    Unit,      \* the scan units, duplicates removed (dict.fromkeys)
    Port,      \* port numbers
    OTPort,    \* profiles.OT_PORTS
    Configs,   \* the scanner settings and scan arguments considered
    Interval,  \* 1 / scope.max_scan_rate in ticks, 0 for no limit
    Horizon    \* bound of the model: no idle ticking after this time

(* What a scan is configured with.                                         *)
(*   requested   the ports asked for                                       *)
(*   allowed     scope.allowed_ports (Port when it is None)                *)
(*   valid       scan_type and ports pass the checks of _run_nmap          *)
(*   timing, intensity, os, workers: timing_template, version_intensity,   *)
(*               os_detection and the concurrency argument                 *)
ConfigType ==
    [requested : SUBSET Port \ {{}}, allowed : SUBSET Port, valid : BOOLEAN,
     timing : 0 .. 5, intensity : 0 .. 9, os : BOOLEAN, workers : Nat \ {0}]

ASSUME ScanNetworkAssumption ==
    /\ IsFiniteSet(Unit)
    /\ OTPort \subseteq Port
    /\ Configs \subseteq ConfigType
    /\ Interval \in Nat
    /\ Horizon \in Nat

VARIABLES
    cfg,        \* the configuration, fixed for the whole scan
    now, nextSlot, thr, lockQueue, wakeAt, passes,  \* see RateLimiter
    phase,      \* where each unit's coroutine is
    slots, slotQueue, granted,  \* see Semaphore
    outcome,    \* how each unit ended
    completed,  \* finished coroutines the main one has not collected yet
    main,       \* the main coroutine
    launches    \* when each nmap process was started (history)

throttleVars == <<now, nextSlot, thr, lockQueue, wakeAt, passes>>
semVars == <<slots, slotQueue, granted>>
unitVars == <<phase, outcome, completed, launches>>
vars == <<cfg, throttleVars, semVars, unitVars, main>>

Throttle == INSTANCE RateLimiter
    WITH Task <- Unit, Rereads <- FALSE, state <- thr, waiters <- lockQueue,
         starts <- passes

Sem == INSTANCE Semaphore WITH Task <- Unit, queue <- slotQueue

-----------------------------------------------------------------------------
(* The arguments _run_nmap derives from the configuration. *)
Scanned == cfg.requested \cap cfg.allowed

OTSensitive == Scanned \cap OTPort # {}

NmapTiming == IF OTSensitive /\ cfg.timing > 2 THEN 2 ELSE cfg.timing

NmapIntensity == IF OTSensitive THEN 0 ELSE cfg.intensity

GlobalSafeMode == cfg.timing <= 2 /\ cfg.intensity = 0

NmapDetectsOS == cfg.os /\ ~OTSensitive /\ ~GlobalSafeMode

(* _run_nmap reaches nmap: its arguments are valid and a port is left. *)
Runnable == cfg.valid /\ Scanned # {}

(* The outcome of a unit for which nmap is not run. *)
Refusal == IF cfg.valid THEN "skipped" ELSE "error"

(* Mutant: the OT profile keeps its workers. *)
ConcurrencyIgnoringProfile ==
    IF cfg.requested \cap OTPort # {} THEN 1 ELSE cfg.workers

(* The semaphore's size, decided on the ports before the scope filter. *)
Concurrency ==
    IF cfg.requested \cap OTPort # {} \/ GlobalSafeMode THEN 1 ELSE cfg.workers

-----------------------------------------------------------------------------
(* What nmap can end with: hosts found, none found, a caught error (also   *)
(* its timeout), or an exception _scan_one does not catch.                 *)
NmapResult == {"up", "down", "error", "crash"}

(* throttle: in throttle.acquire();   waiting: in semaphore.acquire();     *)
(* running: nmap runs;   done: finished;   orphaned: cancelled while its   *)
(* nmap still runs                                                         *)
Phase == {"throttle", "waiting", "running", "done", "collected",
          "cancelled", "orphaned"}

TypeOK ==
    /\ cfg \in Configs
    /\ Throttle!TypeOK
    /\ phase \in [Unit -> Phase]
    /\ Sem!TypeOK
    /\ slots <= Concurrency
    /\ outcome \in [Unit -> NmapResult \cup {"none", "skipped"}]
    /\ completed \in Seq(Unit)
    /\ main \in {"collecting", "returned", "raised", "closed"}
    /\ launches \in Seq(Nat)

Init ==
    /\ cfg \in Configs
    /\ Throttle!Init
    /\ phase = [u \in Unit |-> "throttle"]
    /\ Sem!Init(Concurrency)
    /\ outcome = [u \in Unit |-> "none"]
    /\ completed = <<>>
    /\ main = "collecting"
    /\ launches = <<>>

-----------------------------------------------------------------------------
(* The event loop still runs the scan's coroutines. *)
LoopRuns == main \in {"collecting", "raised"}

(* The coroutine is through the throttle and meets the semaphore. *)
RequestSlot(u) ==
    \/ /\ Sem!Take
       /\ Runnable
       /\ phase' = [phase EXCEPT ![u] = "running"]
       /\ launches' = Append(launches, now)
       /\ UNCHANGED <<outcome, completed>>
    \/ /\ ~Sem!Locked
       /\ ~Runnable
       /\ phase' = [phase EXCEPT ![u] = "done"]
       /\ outcome' = [outcome EXCEPT ![u] = Refusal]
       /\ completed' = Append(completed, u)
       /\ UNCHANGED <<semVars, launches>>
    \/ /\ Sem!Enqueue(u)
       /\ phase' = [phase EXCEPT ![u] = "waiting"]
       /\ UNCHANGED <<outcome, completed, launches>>

(* Mutant: acquire() is made a task of its own and not awaited. *)
PassUnawaited(u) ==
    /\ LoopRuns
    /\ phase[u] = "throttle"
    /\ Throttle!Step(u)
    /\ RequestSlot(u)
    /\ UNCHANGED <<cfg, main>>

(* _scan_one up to its first nmap await: one step inside acquire(), and on *)
(* to the semaphore when acquire() returns.                                *)
PassThrottle(u) ==
    /\ LoopRuns
    /\ phase[u] = "throttle"
    /\ Throttle!Step(u)
    /\ IF thr'[u] = "passed" THEN RequestSlot(u) ELSE UNCHANGED <<semVars, unitVars>>
    /\ UNCHANGED <<cfg, main>>

(* A woken waiter resumes and its nmap starts.  (A configuration that runs *)
(* no nmap never queues.)                                                  *)
Resume(u) ==
    /\ LoopRuns
    /\ phase[u] = "waiting"
    /\ Sem!Resume(u)
    /\ phase' = [phase EXCEPT ![u] = "running"]
    /\ launches' = Append(launches, now)
    /\ UNCHANGED <<cfg, throttleVars, outcome, completed, main>>

(* Mutant: an uncaught exception skips the release. *)
NmapExitLeaking(u) ==
    /\ LoopRuns
    /\ phase[u] = "running"
    /\ \E result \in NmapResult :
        /\ outcome' = [outcome EXCEPT ![u] = result]
        /\ IF result = "crash" THEN UNCHANGED semVars ELSE Sem!Release
    /\ phase' = [phase EXCEPT ![u] = "done"]
    /\ completed' = Append(completed, u)
    /\ UNCHANGED <<cfg, throttleVars, launches, main>>

(* nmap ends; the coroutine leaves the semaphore and finishes. *)
NmapExit(u) ==
    /\ LoopRuns
    /\ phase[u] = "running"
    /\ \E result \in NmapResult : outcome' = [outcome EXCEPT ![u] = result]
    /\ completed' = Append(completed, u)
    /\ Sem!Release
    /\ phase' = [phase EXCEPT ![u] = "done"]
    /\ UNCHANGED <<cfg, throttleVars, launches, main>>

(* `await coro' on a coroutine that returned its results. *)
CollectResult ==
    /\ main = "collecting"
    /\ completed # <<>>
    /\ outcome[Head(completed)] # "crash"
    /\ completed' = Tail(completed)
    /\ phase' = [phase EXCEPT ![Head(completed)] = "collected"]
    /\ main' = IF \A u \in Unit \ {Head(completed)} : phase[u] = "collected"
               THEN "returned" ELSE main
    /\ UNCHANGED <<cfg, throttleVars, semVars, outcome, launches>>

(* Mutant: a coroutine's exception is swallowed. *)
CollectSwallowing ==
    /\ main = "collecting"
    /\ completed # <<>>
    /\ outcome[Head(completed)] = "crash"
    /\ completed' = Tail(completed)
    /\ phase' = [phase EXCEPT ![Head(completed)] = "collected"]
    /\ main' = IF \A u \in Unit \ {Head(completed)} : phase[u] = "collected"
               THEN "returned" ELSE main
    /\ UNCHANGED <<cfg, throttleVars, semVars, outcome, launches>>

(* `await coro' on a coroutine that raised: scan_network raises. *)
CollectException ==
    /\ main = "collecting"
    /\ completed # <<>>
    /\ outcome[Head(completed)] = "crash"
    /\ completed' = Tail(completed)
    /\ phase' = [phase EXCEPT ![Head(completed)] = "collected"]
    /\ main' = "raised"
    /\ UNCHANGED <<cfg, throttleVars, semVars, outcome, launches>>

(* asyncio.run (cli._run_async) cancels what is left; a running nmap is    *)
(* not interrupted.  Nobody uses the lock or the semaphore any more.       *)
CloseLoop ==
    /\ main = "raised"
    /\ main' = "closed"
    /\ phase' = [u \in Unit |->
                    CASE phase[u] = "running" -> "orphaned"
                      [] phase[u] \in {"throttle", "waiting"} -> "cancelled"
                      [] OTHER -> phase[u]]
    /\ UNCHANGED <<cfg, throttleVars, semVars, outcome, completed, launches>>

(* ... but waited for: asyncio.run joins the executor's threads. *)
OrphanExit(u) ==
    /\ phase[u] = "orphaned"
    /\ phase' = [phase EXCEPT ![u] = "cancelled"]
    /\ UNCHANGED <<cfg, throttleVars, semVars, outcome, completed, main, launches>>

Tick ==
    /\ main = "collecting"
    /\ Throttle!Tick
    /\ UNCHANGED <<cfg, semVars, unitVars, main>>

Ended ==
    /\ main \in {"returned", "closed"}
    /\ \A u \in Unit : phase[u] \notin {"running", "orphaned"}

Finished ==
    /\ Ended
    /\ UNCHANGED vars

UnitStep(u) == PassThrottle(u) \/ Resume(u) \/ NmapExit(u) \/ OrphanExit(u)

MainStep == CollectResult \/ CollectException \/ CloseLoop

Next == (\E u \in Unit : UnitStep(u)) \/ MainStep \/ Tick \/ Finished

Spec == Init /\ [][Next]_vars

(* The loop runs ready coroutines, timers expire, and nmap ends: it is     *)
(* run with a timeout after which python-nmap kills it.                    *)
Fairness ==
    /\ \A u \in Unit : WF_vars(UnitStep(u))
    /\ WF_vars(MainStep)
    /\ WF_vars(Tick)

FairSpec == Spec /\ Fairness

-----------------------------------------------------------------------------
Running == {u \in Unit : phase[u] \in {"running", "orphaned"}}

Holding == granted \cup {u \in Unit : phase[u] = "running"}

(* engine.py:328-341, 400-404: an nmap that touches an industrial port, or *)
(* runs under the OT profile, is the only one running and is gentle.  The  *)
(* worker count is decided on the requested ports, the arguments on the    *)
(* ports left by the scope filter.                                         *)
OTSafe ==
    Running # {} /\ (OTSensitive \/ GlobalSafeMode) =>
        /\ Cardinality(Running) = 1
        /\ NmapTiming <= 2
        /\ NmapIntensity = 0
        /\ ~NmapDetectsOS

(* The semaphore neither loses nor invents slots on any path, nmap's       *)
(* failure included.                                                       *)
SlotsConserved ==
    LoopRuns => slots + Cardinality(Holding) = Concurrency

(* engine.py:374, "honouring the scope's scan-rate cap": starts that wait  *)
(* for a worker after they have paid for the rate may bunch, but nmap runs *)
(* never get ahead of it: however late timers fire and however the         *)
(* limiter, the semaphore and the ends of nmap interleave, the k-th comes  *)
(* k - 1 intervals after the scan begins, or later.                        *)
RateHonoured ==
    \A k \in DOMAIN launches : (k - 1) * Interval <= launches[k]

(* engine.py:423-468: the scan ends, by returning or by raising, and       *)
(* leaves no nmap behind.  It returns only with a result for every unit,   *)
(* and only if no coroutine raised; units are skipped exactly when the     *)
(* scope leaves no port, and then no nmap was started.                     *)
ScanEnds ==
    <>[](/\ Ended
         /\ main = "returned" =>
               /\ \A u \in Unit : phase[u] = "collected" /\ outcome[u] \notin {"none", "crash"}
               /\ (\E u \in Unit : outcome[u] = "skipped") <=> (cfg.valid /\ Scanned = {})
               /\ Len(launches) = IF Runnable THEN Cardinality(Unit) ELSE 0)

=============================================================================
