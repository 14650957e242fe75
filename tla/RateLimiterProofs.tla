-------------------------- MODULE RateLimiterProofs --------------------------
(***************************************************************************)
(* Proofs about RateLimiter, for any set of tasks and any interval.        *)
(*                                                                         *)
(* The cap is not inductive: it says nothing about self._next.  IInv adds  *)
(* what acquire() relies on: the next slot keeps its distance from the     *)
(* starts it must (SlotInv), and nobody moves it while the lock holder     *)
(* sleeps (LockInv, SleepInv).                                             *)
(***************************************************************************)
EXTENDS RateLimiter, TLAPS

(* No start lies in the future. *)
PastInv == \A i \in DOMAIN starts : starts[i] <= now

(* The lock has at most one holder. *)
LockInv == \A t, u \in Task : state[t] = "sleeping" /\ state[u] = "sleeping" => t = u

(* The lock holder sleeps until the slot, which lies after every start. *)
SleepInv ==
    \A t \in Task : state[t] = "sleeping" =>
        /\ Interval > 0
        /\ wakeAt = nextSlot
        /\ \A i \in DOMAIN starts : starts[i] <= nextSlot

(* Tasks queue only under a limit. *)
QueueInv == waiters # <<>> => Interval > 0

(* The slot is as far from every start (but the last, with one start of    *)
(* slack) as the cap asks of the start that will take it.                  *)
SlotInv ==
    Interval > 0 =>
        \A i \in 1 .. Len(starts) - Slack :
            starts[i] + Cap!Span(Len(starts) + 1 - i - Slack) <= nextSlot

IInv ==
    /\ TypeOK
    /\ PastInv
    /\ LockInv
    /\ SleepInv
    /\ QueueInv
    /\ SlotInv
    /\ StartsAreCapped

-----------------------------------------------------------------------------
LEMMA SpanType == \A k \in Int : Cap!Span(k) \in Int
BY RateLimiterAssumption DEF Cap!Span

LEMMA SpanZero ==
    /\ Cap!Span(0) = 0
    /\ Interval = 0 => \A k \in Int : Cap!Span(k) = 0
BY RateLimiterAssumption DEF Cap!Span

LEMMA SpanNext ==
    ASSUME NEW k \in Int
    PROVE  Cap!Span(k + 1) = Cap!Span(k) + Interval
BY RateLimiterAssumption DEF Cap!Span

LEMMA SlackType == Slack \in Nat /\ (Slack = 0 \/ Slack = 1)
BY RateLimiterAssumption DEF Slack

(* Reading the last and the earlier elements of an appended sequence. *)
LEMMA AppendStart ==
    ASSUME NEW s \in Seq(Nat), NEW x \in Nat
    PROVE  /\ Append(s, x) \in Seq(Nat)
           /\ Len(Append(s, x)) = Len(s) + 1
           /\ DOMAIN Append(s, x) = 1 .. Len(s) + 1
           /\ DOMAIN s = 1 .. Len(s)
           /\ Len(s) \in Nat
           /\ Append(s, x)[Len(s) + 1] = x
           /\ \A i \in 1 .. Len(s) : Append(s, x)[i] = s[i]
           /\ \A i \in 1 .. Len(s) : s[i] \in Nat
OBVIOUS

(* Without a limit, or once the slot is reached, a start respects the cap. *)
LEMMA SlotAllowsStart ==
    ASSUME IInv, Interval = 0 \/ nextSlot <= now
    PROVE  Cap!MayStart
<1> SUFFICES ASSUME NEW i \in DOMAIN starts
             PROVE  starts[i] + Cap!Span(Len(starts) + 1 - i - Slack) <= now
  BY DEF Cap!MayStart
<1> DEFINE gap == Len(starts) + 1 - i - Slack
<1>1. /\ i \in 1 .. Len(starts) /\ Len(starts) \in Nat
      /\ starts[i] \in Nat /\ starts[i] <= now
      /\ now \in Nat /\ nextSlot \in Nat /\ Interval \in Nat
  BY RateLimiterAssumption DEF IInv, TypeOK, PastInv
<1>2. gap \in Int
  BY <1>1, SlackType
<1> HIDE DEF gap
<1>3. Cap!Span(gap) \in Int
  BY <1>2, SpanType
<1>4. CASE Interval = 0
  <2>1. Cap!Span(gap) = 0
    BY <1>2, <1>4, SpanZero
  <2>2. starts[i] + Cap!Span(gap) <= now
    BY <1>1, <2>1
  <2>3. QED
    BY <2>2 DEF gap
<1>5. CASE Interval > 0 /\ i <= Len(starts) - Slack
  <2>1. starts[i] + Cap!Span(gap) <= nextSlot
    BY <1>1, <1>5, SlackType DEF IInv, SlotInv, gap
  <2>2. starts[i] + Cap!Span(gap) <= now
    BY <1>1, <1>3, <1>5, <2>1
  <2>3. QED
    BY <2>2 DEF gap
<1>6. CASE i > Len(starts) - Slack
  <2>1. gap = 0
    BY <1>1, <1>6, SlackType DEF gap
  <2>2. starts[i] + Cap!Span(gap) <= now
    BY <1>1, <2>1, SpanZero
  <2>3. QED
    BY <2>2 DEF gap
<1>7. QED
  BY <1>1, <1>4, <1>5, <1>6, SlackType

(* A start that respects the cap keeps it. *)
LEMMA StartKeepsCap ==
    ASSUME IInv, Cap!MayStart, starts' = Append(starts, now)
    PROVE  StartsAreCapped'
<1> DEFINE n == Len(starts)
<1>1. /\ starts \in Seq(Nat) /\ now \in Nat
  BY DEF IInv, TypeOK
<1>2. SUFFICES ASSUME NEW i \in 1 .. n + 1, NEW j \in 1 .. n + 1, i < j
               PROVE  starts'[i] + Cap!Span(j - i - Slack) <= starts'[j]
  BY <1>1, AppendStart DEF StartsAreCapped, Cap!WindowCap, Cap!Span, Slack
<1>3. i \in 1 .. n /\ starts'[i] = starts[i]
  BY <1>1, <1>2, AppendStart
<1>4. CASE j <= n
  <2>1. starts'[j] = starts[j] /\ j \in 1 .. n
    BY <1>1, <1>4, AppendStart
  <2>2. QED
    BY <1>1, <1>2, <1>3, <2>1, AppendStart DEF IInv, StartsAreCapped, Cap!WindowCap
<1>5. CASE j = n + 1
  <2>1. starts[i] + Cap!Span(n + 1 - i - Slack) <= now
    BY <1>1, <1>3, AppendStart DEF Cap!MayStart
  <2>2. starts'[j] = now
    BY <1>1, <1>5, AppendStart
  <2>3. j - i - Slack = n + 1 - i - Slack
    BY <1>1, <1>5, SlackType
  <2>4. QED
    BY <1>3, <2>1, <2>2, <2>3
<1>6. n \in Nat
  BY <1>1
<1>7. QED
  BY <1>2, <1>4, <1>5, <1>6

(* The start that takes the slot moves it one interval on. *)
LEMMA StartMovesSlot ==
    ASSUME IInv, Interval > 0, nextSlot <= now, starts' = Append(starts, now),
           \/ nextSlot' = now + Interval
           \/ /\ Slack = 1
              /\ nextSlot' = nextSlot + Interval
              /\ \A i \in DOMAIN starts : starts[i] <= nextSlot
    PROVE  SlotInv'
<1> DEFINE n == Len(starts)
           before(i) == n + 1 - i - Slack
<1>1. /\ starts \in Seq(Nat) /\ now \in Nat /\ nextSlot \in Nat
      /\ n \in Nat /\ Interval \in Nat
  BY RateLimiterAssumption DEF IInv, TypeOK
<1>2. nextSlot' >= nextSlot + Interval /\ nextSlot' \in Nat
  BY <1>1
<1>3. SUFFICES ASSUME NEW i \in 1 .. n + 1 - Slack
               PROVE  starts'[i] + Cap!Span(before(i) + 1) <= nextSlot'
  <2>1. Len(starts') = n + 1
    BY <1>1, AppendStart
  <2>2. \A i \in 1 .. n + 1 - Slack : (n + 1) + 1 - i - Slack = before(i) + 1
    BY <1>1, SlackType
  <2>3. QED
    BY <2>1, <2>2 DEF SlotInv, Slack, Cap!Span
<1>4. before(i) \in Int /\ i \in 1 .. n + 1
  BY <1>1, SlackType
<1>5. CASE i <= n - Slack
  <2>1. starts'[i] = starts[i] /\ starts[i] \in Nat
    BY <1>1, <1>4, <1>5, SlackType, AppendStart
  <2>2. starts[i] + Cap!Span(before(i)) <= nextSlot
    BY <1>1, <1>5, SlackType DEF IInv, SlotInv
  <2> HIDE DEF before
  <2>3. Cap!Span(before(i)) \in Int
    BY <1>4, SpanType
  <2>4. Cap!Span(before(i) + 1) = Cap!Span(before(i)) + Interval
    BY <1>4, SpanNext
  <2>5. QED
    BY <1>1, <1>2, <2>1, <2>2, <2>3, <2>4
<1>6. CASE i = n + 1 - Slack
  <2>1. before(i) = 0
    BY <1>1, <1>6, SlackType
  <2>2. Cap!Span(before(i) + 1) = Interval
    BY <1>1, <2>1, SpanNext, SpanZero
  <2>3. starts'[i] + Interval <= nextSlot'
    <3>1. CASE Slack = 0
      BY <1>1, <1>6, <3>1, AppendStart
    <3>2. CASE Slack = 1
      <4>1. i \in 1 .. n /\ starts'[i] = starts[i] /\ starts[i] \in Nat
        BY <1>1, <1>4, <1>6, <3>2, AppendStart
      <4>2. starts[i] <= now
        BY <1>1, <4>1, AppendStart DEF IInv, PastInv
      <4>3. QED
        BY <1>1, <4>1, <4>2, AppendStart
    <3>3. QED
      BY <3>1, <3>2, SlackType
  <2>4. QED
    BY <2>2, <2>3
<1>7. QED
  BY <1>1, <1>4, <1>5, <1>6, SlackType

-----------------------------------------------------------------------------
LEMMA InitInv == Init => IInv
BY RateLimiterAssumption, SlackType
   DEF Init, IInv, TypeOK, TaskState, PastInv, LockInv, SleepInv, QueueInv, SlotInv,
       StartsAreCapped, Cap!WindowCap

(* What the conjuncts other than SlotInv owe to a start. *)
LEMMA ReturnInv ==
    ASSUME IInv, NEW t \in Task, NEW slot \in Nat, Return(t, slot),
           Interval = 0 \/ nextSlot <= now,
           Interval = 0 \/ \A u \in Task \ {t} : state[u] # "sleeping",
           SlotInv', QueueInv',
           waiters' \in Seq(Task), wakeAt' = wakeAt, now' = now
    PROVE  IInv'
<1>1. starts' = Append(starts, now) /\ nextSlot' = slot
  BY DEF Return
<1>2. /\ starts \in Seq(Nat) /\ now \in Nat
      /\ state' = [state EXCEPT ![t] = "passed"]
      /\ state \in [Task -> TaskState]
  BY DEF IInv, TypeOK, Return
<1>3. TypeOK'
  BY <1>1, <1>2, AppendStart DEF IInv, TypeOK, TaskState
<1>4. PastInv'
  BY <1>1, <1>2, AppendStart DEF IInv, PastInv
<1>5. LockInv'
  BY <1>2 DEF IInv, LockInv
<1>6. SleepInv'
  BY <1>2 DEF IInv, SleepInv, TaskState
<1>7. StartsAreCapped'
  BY <1>1, SlotAllowsStart, StartKeepsCap
<1>8. QED
  BY <1>3, <1>4, <1>5, <1>6, <1>7 DEF IInv

(* The body of acquire() under the lock, from a task that does not hold it. *)
LEMMA EnterInv ==
    ASSUME IInv, NEW t \in Task, Interval > 0, LockFree, Enter(t),
           waiters' \in Seq(Task), now' = now
    PROVE  IInv'
<1>1. CASE nextSlot <= now /\ Return(t, now + Interval) /\ UNCHANGED wakeAt
  <2>1. SlotInv'
    BY <1>1, StartMovesSlot DEF Return
  <2>2. now + Interval \in Nat /\ QueueInv'
    BY RateLimiterAssumption DEF IInv, TypeOK, QueueInv
  <2>3. QED
    BY <1>1, <2>1, <2>2, ReturnInv DEF LockFree
<1>2. CASE /\ nextSlot > now
           /\ state' = [state EXCEPT ![t] = "sleeping"]
           /\ wakeAt' = nextSlot
           /\ UNCHANGED <<nextSlot, starts>>
  <2>1. TypeOK'
    BY <1>2 DEF IInv, TypeOK, TaskState
  <2>2. PastInv' /\ SlotInv' /\ StartsAreCapped'
    BY <1>2 DEF IInv, PastInv, SlotInv, StartsAreCapped, Cap!WindowCap, Slack, Cap!Span
  <2>3. LockInv'
    BY <1>2 DEF IInv, TypeOK, LockInv, LockFree
  <2>4. \A i \in DOMAIN starts : starts[i] <= nextSlot
    BY <1>2 DEF IInv, TypeOK, PastInv
  <2>5. SleepInv'
    BY <1>2, <2>4 DEF IInv, TypeOK, SleepInv, LockFree
  <2>6. QED
    BY <2>1, <2>2, <2>3, <2>5 DEF IInv, QueueInv
<1>3. QED
  BY <1>1, <1>2 DEF Enter

LEMMA AcquireInv ==
    ASSUME IInv, NEW t \in Task, Acquire(t)
    PROVE  IInv'
<1>1. CASE AcquireFree(t) /\ Interval = 0
  <2>1. Return(t, nextSlot) /\ UNCHANGED <<now, waiters, wakeAt>>
    BY <1>1 DEF AcquireFree
  <2>2. SlotInv' /\ QueueInv'
    BY <1>1, <2>1 DEF SlotInv, IInv, QueueInv
  <2>3. nextSlot \in Nat /\ waiters' \in Seq(Task)
    BY <2>1 DEF IInv, TypeOK
  <2>4. QED
    BY <1>1, <2>1, <2>2, <2>3, ReturnInv
<1>2. CASE AcquireFree(t) /\ Interval > 0
  BY <1>2, EnterInv DEF AcquireFree, IInv, TypeOK
<1>3. CASE AcquireBusy(t)
  <2>1. TypeOK'
    BY <1>3 DEF AcquireBusy, IInv, TypeOK, TaskState
  <2>2. PastInv' /\ SlotInv' /\ StartsAreCapped'
    BY <1>3 DEF AcquireBusy, IInv, PastInv, SlotInv, StartsAreCapped,
                Cap!WindowCap, Slack, Cap!Span
  <2>3. LockInv' /\ SleepInv'
    BY <1>3 DEF AcquireBusy, IInv, TypeOK, LockInv, SleepInv
  <2>4. QueueInv'
    BY <1>3 DEF AcquireBusy, QueueInv
  <2>5. QED
    BY <2>1, <2>2, <2>3, <2>4 DEF IInv
<1>4. QED
  BY <1>1, <1>2, <1>3, RateLimiterAssumption DEF Acquire, AcquireFree

LEMMA GrantedInv ==
    ASSUME IInv, NEW t \in Task, Granted(t)
    PROVE  IInv'
<1>1. waiters' \in Seq(Task)
  BY DEF Granted, IInv, TypeOK
<1>2. Interval > 0
  BY DEF Granted, IInv, QueueInv
<1>3. QED
  BY <1>1, <1>2, EnterInv DEF Granted

LEMMA WakeInv ==
    ASSUME IInv, NEW t \in Task, Wake(t)
    PROVE  IInv'
<1> DEFINE slot == IF Rereads THEN SlotFromClock ELSE SlotFromPlan
<1>1. /\ Interval > 0 /\ wakeAt = nextSlot /\ nextSlot <= now
      /\ \A i \in DOMAIN starts : starts[i] <= nextSlot
      /\ \A u \in Task \ {t} : state[u] # "sleeping"
  BY DEF Wake, IInv, SleepInv, LockInv
<1>2. /\ slot \in Nat
      /\ slot = now + Interval \/ (Slack = 1 /\ slot = nextSlot + Interval)
  BY <1>1, RateLimiterAssumption
     DEF IInv, TypeOK, SlotFromClock, SlotFromPlan, Slack
<1>3. starts' = Append(starts, now) /\ nextSlot' = slot /\ Return(t, slot)
  BY DEF Wake, Return
<1>4. SlotInv' /\ QueueInv'
  BY <1>1, <1>2, <1>3, StartMovesSlot DEF QueueInv
<1>5. waiters' \in Seq(Task) /\ wakeAt' = wakeAt /\ now' = now
  BY DEF Wake, IInv, TypeOK
<1>6. QED
  BY <1>1, <1>2, <1>3, <1>4, <1>5, ReturnInv

LEMMA TickInv == IInv /\ Tick => IInv'
<1> SUFFICES ASSUME IInv, Tick
             PROVE  IInv'
  OBVIOUS
<1>1. TypeOK' /\ PastInv'
  BY DEF Tick, IInv, TypeOK, PastInv
<1>2. LockInv' /\ SleepInv' /\ QueueInv' /\ SlotInv' /\ StartsAreCapped'
  BY DEF Tick, IInv, LockInv, SleepInv, QueueInv, SlotInv, StartsAreCapped,
         Cap!WindowCap, Slack, Cap!Span
<1>3. QED
  BY <1>1, <1>2 DEF IInv

LEMMA StutterInv == IInv /\ UNCHANGED vars => IInv'
BY DEF vars, IInv, TypeOK, PastInv, LockInv, SleepInv, QueueInv, SlotInv,
       StartsAreCapped, Cap!WindowCap, Slack, Cap!Span

LEMMA StepInv == IInv /\ [Next]_vars => IInv'
<1> SUFFICES ASSUME IInv, [Next]_vars
             PROVE  IInv'
  OBVIOUS
<1>1. ASSUME NEW t \in Task, Step(t)
      PROVE  IInv'
  BY <1>1, AcquireInv, GrantedInv, WakeInv DEF Step
<1>2. CASE Tick
  BY <1>2, TickInv
<1>3. CASE UNCHANGED vars
  BY <1>3, StutterInv
<1>4. QED
  BY <1>1, <1>2, <1>3 DEF Next, Finished

(* The invariant holds in every reachable state. *)
THEOREM Invariance == Spec => []IInv
BY InitInv, StepInv, PTL DEF Spec

(* The variables keep their types. *)
THEOREM TypeCorrectness == Spec => []TypeOK
<1>1. IInv => TypeOK
  BY DEF IInv
<1>2. QED
  BY <1>1, Invariance, PTL

(* Whatever the tasks, the rate and the lateness of the timers, a window   *)
(* of R intervals holds at most R + Slack starts after the one opening it: *)
(* the promise of engine.py:31-49 (Slack 1) and fast.py:41-55 (Slack 0).   *)
THEOREM RateIsCapped == Spec => []StartsAreCapped
<1>1. IInv => StartsAreCapped
  BY DEF IInv
<1>2. QED
  BY <1>1, Invariance, PTL

-----------------------------------------------------------------------------
(* A step of the limiter is a start the cap allows, a tick, or invisible. *)
LEMMA StepImplementsCap ==
    ASSUME IInv, [Next]_vars
    PROVE  [Cap!Next]_(Cap!vars)
<1>1. ASSUME NEW t \in Task, NEW slot, Return(t, slot), now' = now,
             Interval = 0 \/ nextSlot <= now
      PROVE  Cap!Start
  BY <1>1, SlotAllowsStart DEF Return, Cap!Start
<1>2. ASSUME NEW t \in Task, Enter(t), now' = now
      PROVE  Cap!Start \/ UNCHANGED Cap!vars
  BY <1>1, <1>2 DEF Enter, Cap!vars
<1>3. ASSUME NEW t \in Task, Acquire(t)
      PROVE  Cap!Start \/ UNCHANGED Cap!vars
  <2>1. CASE AcquireFree(t) /\ Interval = 0
    BY <1>1, <2>1 DEF AcquireFree
  <2>2. CASE AcquireFree(t) /\ Interval # 0
    BY <1>2, <2>2 DEF AcquireFree
  <2>3. CASE AcquireBusy(t)
    BY <2>3 DEF AcquireBusy, Cap!vars
  <2>4. QED
    BY <1>3, <2>1, <2>2, <2>3 DEF Acquire
<1>4. ASSUME NEW t \in Task, Granted(t)
      PROVE  Cap!Start \/ UNCHANGED Cap!vars
  BY <1>2, <1>4 DEF Granted
<1>5. ASSUME NEW t \in Task, Wake(t)
      PROVE  Cap!Start
  <2>1. nextSlot <= now
    BY <1>5 DEF Wake, IInv, SleepInv
  <2>2. QED
    BY <1>1, <1>5, <2>1 DEF Wake
<1>6. CASE Tick
  BY <1>6 DEF Tick, IInv, TypeOK, Cap!TimePasses, Cap!Next
<1>7. CASE UNCHANGED vars
  BY <1>7 DEF vars, Cap!vars
<1>8. QED
  BY <1>3, <1>4, <1>5, <1>6, <1>7 DEF Next, Step, Finished, Cap!Next

(* Both limiters implement the abstract rate cap. *)
THEOREM Refinement == Spec => ImplementsRateCap
<1>1. Init => Cap!Init
  BY DEF Init, Cap!Init
<1>2. IInv /\ [Next]_vars => [Cap!Next]_(Cap!vars)
  BY StepImplementsCap
<1>3. QED
  BY <1>1, <1>2, Invariance, PTL DEF Spec, ImplementsRateCap, Cap!Spec

=============================================================================
