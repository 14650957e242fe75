----------------------------- MODULE Semaphore -----------------------------
(***************************************************************************)
(* asyncio.Semaphore, as the scanners use it: `async with semaphore' around *)
(* the work of each coroutine.  A coroutine that finds no slot queues; the *)
(* one that is woken owns a slot at once and resumes later.                *)
(***************************************************************************)
EXTENDS Integers, Sequences, FiniteSets

CONSTANTS
    Task  \* the coroutines that use the semaphore

VARIABLES
    slots,   \* _value
    queue,   \* coroutines queued and not woken, first in first out
    granted  \* coroutines woken with a slot that have not resumed

TypeOK ==
    /\ slots \in Nat
    /\ queue \in Seq(Task)
    /\ granted \subseteq Task

Init(size) ==
    /\ slots = size
    /\ queue = <<>>
    /\ granted = {}

Lesser(a, b) == IF a <= b THEN a ELSE b

(* A newcomer queues behind anyone who waits or was woken and has not      *)
(* resumed.                                                                *)
Locked == slots = 0 \/ queue # <<>> \/ granted # {}

Take ==
    /\ ~Locked
    /\ slots' = slots - 1
    /\ UNCHANGED <<queue, granted>>

Enqueue(t) ==
    /\ Locked
    /\ queue' = Append(queue, t)
    /\ UNCHANGED <<slots, granted>>

(* With `free' slots, the first k in the queue get one each; `others' are  *)
(* the coroutines that had one already.                                    *)
Wake(k, free, others) ==
    /\ slots' = free - k
    /\ queue' = SubSeq(queue, k + 1, Len(queue))
    /\ granted' = others \cup {queue[i] : i \in 1 .. k}

(* A woken coroutine goes on, and passes on slots that are left over.      *)
Resume(t) ==
    /\ t \in granted
    /\ Wake(Lesser(slots, Len(queue)), slots, granted \ {t})

(* Mutant: the slot is handed to a waiter and kept as well. *)
ReleaseTwice ==
    LET k == Lesser(1, Len(queue)) IN Wake(k, slots + 1 + k, granted)

(* Mutant: the slot is freed and nobody is woken. *)
ReleaseSilently == Wake(0, slots + 1, granted)

(* The slot goes to the coroutine that waited longest, if there is one.    *)
Release == Wake(Lesser(1, Len(queue)), slots + 1, granted)

=============================================================================
