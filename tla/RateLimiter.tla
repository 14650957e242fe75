----------------------------- MODULE RateLimiter -----------------------------
(***************************************************************************)
(* The two start-rate limiters: _RateLimiter of scanner/engine.py (host    *)
(* scans) and _StartRateLimiter of discovery/fast.py (host probes; the     *)
(* nested _throttle of protocols/scan.py is the same code).  Coroutines    *)
(* ("tasks") call acquire() before they start.  acquire() holds an         *)
(* asyncio.Lock (FIFO) while it reads the clock and, if the next start     *)
(* slot lies ahead, sleeps until that slot.  The limiters differ in one    *)
(* line: what the slot becomes after the sleep.                            *)
(*                                                                         *)
(* The event loop runs a coroutine from one await to the next without      *)
(* interruption, so an action is one such stretch.  A timer never fires    *)
(* early, and may fire late: Tick does not wait for a sleeper that is due. *)
(***************************************************************************)
EXTENDS Integers, Sequences

CONSTANTS
    Task,      \* the coroutines that call acquire(), each of them once
    Interval,  \* _min_interval in ticks; 0 stands for rate <= 0
    Rereads,   \* TRUE: _StartRateLimiter, which reads the clock again after
               \* its sleep; FALSE: _RateLimiter, which does not
    Horizon    \* bound of the model: no idle ticking after this time

ASSUME RateLimiterAssumption ==
    /\ Interval \in Nat
    /\ Rereads \in BOOLEAN
    /\ Horizon \in Nat

VARIABLES
    now,       \* time.monotonic()
    nextSlot,  \* self._next
    state,     \* where each task is inside acquire()
    waiters,   \* tasks queued on self._lock, first in first out
    wakeAt,    \* when the sleep of the lock holder ends
    starts     \* when each acquire() returned (history)

vars == <<now, nextSlot, state, waiters, wakeAt, starts>>

TaskState == {"new", "queued", "sleeping", "passed"}

TypeOK ==
    /\ now \in Nat
    /\ nextSlot \in Nat
    /\ state \in [Task -> TaskState]
    /\ waiters \in Seq(Task)
    /\ wakeAt \in Nat
    /\ starts \in Seq(Nat)

Init ==
    /\ now = 0
    /\ nextSlot = 0
    /\ state = [t \in Task |-> "new"]
    /\ waiters = <<>>
    /\ wakeAt = 0
    /\ starts = <<>>

-----------------------------------------------------------------------------
(* Mutant: the lock is not held across the sleep. *)
LockNotHeld == TRUE

(* The lock is only ever held across the sleep: the rest of acquire() runs *)
(* without an await.                                                       *)
LockFree == \A t \in Task : state[t] # "sleeping"

(* acquire() returns to task t, leaving `slot' in self._next. *)
Return(t, slot) ==
    /\ state' = [state EXCEPT ![t] = "passed"]
    /\ starts' = Append(starts, now)
    /\ nextSlot' = slot

(* Mutant: slots that nobody used are made up for later. *)
EnterCatchingUp(t) ==
    \/ /\ nextSlot > now
       /\ state' = [state EXCEPT ![t] = "sleeping"]
       /\ wakeAt' = nextSlot
       /\ UNCHANGED <<nextSlot, starts>>
    \/ /\ nextSlot <= now
       /\ Return(t, nextSlot + Interval)
       /\ UNCHANGED wakeAt

(* The body under the lock up to the sleep, or to the end without one. *)
Enter(t) ==
    \/ /\ nextSlot > now
       /\ state' = [state EXCEPT ![t] = "sleeping"]
       /\ wakeAt' = nextSlot
       /\ UNCHANGED <<nextSlot, starts>>
    \/ /\ nextSlot <= now
       /\ Return(t, now + Interval)
       /\ UNCHANGED wakeAt

(* acquire() without a wait for the lock.  With no limit it returns before *)
(* it looks at the lock or the slot.                                       *)
AcquireFree(t) ==
    /\ state[t] = "new"
    /\ Interval > 0 => LockFree /\ waiters = <<>>
    /\ IF Interval = 0
          THEN Return(t, nextSlot) /\ UNCHANGED wakeAt
          ELSE Enter(t)
    /\ UNCHANGED <<now, waiters>>

(* Mutant: the waiting task is not put on the lock's queue. *)
AcquireBusyUnqueued(t) ==
    /\ Interval > 0
    /\ state[t] = "new"
    /\ ~LockFree \/ waiters # <<>>
    /\ state' = [state EXCEPT ![t] = "queued"]
    /\ UNCHANGED <<now, nextSlot, waiters, wakeAt, starts>>

AcquireBusy(t) ==
    /\ Interval > 0
    /\ state[t] = "new"
    /\ ~LockFree \/ waiters # <<>>
    /\ state' = [state EXCEPT ![t] = "queued"]
    /\ waiters' = Append(waiters, t)
    /\ UNCHANGED <<now, nextSlot, wakeAt, starts>>

Acquire(t) == AcquireFree(t) \/ AcquireBusy(t)

(* The released lock goes to the task that has waited longest. *)
Granted(t) ==
    /\ waiters # <<>>
    /\ t = Head(waiters)
    /\ LockFree
    /\ waiters' = Tail(waiters)
    /\ Enter(t)
    /\ UNCHANGED now

(* engine.py after its sleep: the slot advances from the planned start.    *)
SlotFromPlan == nextSlot + Interval

(* Mutant: fast.py forgets to read the clock again. *)
SlotFromStaleClock == nextSlot + Interval

(* fast.py after its sleep: the slot advances from the actual start.       *)
SlotFromClock == (IF nextSlot >= now THEN nextSlot ELSE now) + Interval

(* The sleep is over: acquire() sets the next slot and returns.            *)
Wake(t) ==
    /\ state[t] = "sleeping"
    /\ wakeAt <= now
    /\ Return(t, IF Rereads THEN SlotFromClock ELSE SlotFromPlan)
    /\ UNCHANGED <<now, waiters, wakeAt>>

Step(t) == Acquire(t) \/ Granted(t) \/ Wake(t)

Tick ==
    /\ now < Horizon \/ (~LockFree /\ now < wakeAt)
    /\ now' = now + 1
    /\ UNCHANGED <<nextSlot, state, waiters, wakeAt, starts>>

AllPassed == \A t \in Task : state[t] = "passed"

(* Every acquire() has returned: nothing is left to do. *)
Finished ==
    /\ AllPassed
    /\ UNCHANGED vars

Next == (\E t \in Task : Step(t)) \/ Tick \/ Finished

Spec == Init /\ [][Next]_vars

(* Ready callbacks are run, timers expire, the clock advances. *)
Fairness ==
    /\ \A t \in Task : WF_vars(Step(t))
    /\ WF_vars(Tick)

FairSpec == Spec /\ Fairness

-----------------------------------------------------------------------------
(* The extra starts a limiter lets into a window when its timers are late. *)
Slack == IF Rereads THEN 0 ELSE 1

(* Abstractly, acquire() is a start-rate cap, whatever the timers do: no   *)
(* extra start for _StartRateLimiter, one for _RateLimiter.                *)
Cap == INSTANCE RateCap
ImplementsRateCap == Cap!Spec

(* In any window of R intervals at most R + Slack operations start after   *)
(* the one that opens it, however late the event loop wakes a sleeper.     *)
StartsAreCapped == Cap!WindowCap

(* What _StartRateLimiter (fast.py:50-55) achieves: any two starts are an  *)
(* interval apart.  With _RateLimiter a late timer lets the next start     *)
(* come too soon.                                                          *)
StrictRate ==
    \A i \in 2 .. Len(starts) : starts[i] - starts[i - 1] >= Interval

(* Every task that calls acquire() is eventually let through: the lock is  *)
(* always handed on, and a sleep always ends.                              *)
EveryTaskPasses == <>AllPassed

=============================================================================
