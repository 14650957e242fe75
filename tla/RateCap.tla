------------------------------- MODULE RateCap -------------------------------
(***************************************************************************)
(* What a start-rate limiter promises, independently of how it queues and  *)
(* sleeps.  Time is a number of ticks, Interval is the limiter's 1 / rate. *)
(*                                                                         *)
(* Operations start one after another.  The k-th start after the i-th one  *)
(* comes at least (k - Slack) intervals later, so a window as long as R    *)
(* intervals holds at most R + Slack starts after the one that opens it.   *)
(* Slack = 0 is "R starts per R intervals"; Slack = 1 tolerates one extra  *)
(* start.  The limiters of the tool are shown to implement this module:    *)
(* scanner/engine.py with Slack = 1, discovery/fast.py and                 *)
(* protocols/scan.py with Slack = 0.                                       *)
(***************************************************************************)
EXTENDS Integers, Sequences

CONSTANTS
    Interval,  \* ticks between two starts, a natural number; 0: unlimited
    Slack      \* extra starts tolerated, a natural number

VARIABLES
    now,       \* the clock
    starts     \* when each operation started, in order (history)

vars == <<now, starts>>

(* The time k starts at the full rate take. *)
Span(k) == k * Interval

(* Another start now keeps the distance from every earlier one. *)
MayStart ==
    \A i \in DOMAIN starts :
        starts[i] + Span(Len(starts) + 1 - i - Slack) <= now

Init ==
    /\ now = 0
    /\ starts = <<>>

TimePasses ==
    /\ now' \in Nat
    /\ now < now'
    /\ UNCHANGED starts

Start ==
    /\ MayStart
    /\ starts' = Append(starts, now)
    /\ UNCHANGED now

Next == TimePasses \/ Start

Spec == Init /\ [][Next]_vars

(* The promise as a state predicate, over every pair of starts. *)
WindowCap ==
    \A i, j \in DOMAIN starts :
        i < j => starts[i] + Span(j - i - Slack) <= starts[j]

=============================================================================
