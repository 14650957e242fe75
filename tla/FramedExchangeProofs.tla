----------------------- MODULE FramedExchangeProofs -----------------------
(***************************************************************************)
(* The safety properties of FramedExchange, for any number of requests and *)
(* any frame lengths: the S7 exchange (Rounds = 3) and the single request  *)
(* of tcp_request (Rounds = 1) are two instances.                          *)
(***************************************************************************)
EXTENDS FramedExchange, SequenceTheorems, TLAPS

Read == [ending : Ending, first : Nat, length : Nat]

(* What the coroutine knows in each phase: which request is in progress,   *)
(* how many reads have ended, that only a confirming peer gets past the    *)
(* first request, and that nothing has been written to tear it down.       *)
Progress ==
    /\ pc = "connecting" =>
          /\ round = 0 /\ start = 0 /\ taken = 0 /\ delivered = 0
          /\ reads = <<>> /\ ~confirmed /\ teardowns = 0
    /\ pc = "reading" =>
          /\ round >= 1 /\ Len(reads) = round - 1 /\ teardowns = 0
          /\ confirmed <=> round > 1
    /\ confirmed => speaksS7

IInv == TypeOK /\ Progress /\ SlotReleased /\ InStep

-----------------------------------------------------------------------------
(* Where replies begin and end. *)
LEMMA EndOfNext ==
    ASSUME NEW r \in Nat
    PROVE  EndOf(r) \in Nat /\ EndOf(r + 1) = EndOf(r) + Size /\ EndOf(0) = 0
<1>1. Size \in Nat
  BY FramedExchangeAssumption
<1>2. r * Size \in Nat
  BY <1>1
<1>3. (r + 1) * Size = r * Size + Size
  BY <1>1
<1>4. QED
  BY <1>1, <1>2, <1>3 DEF EndOf

(* The initial state. *)
LEMMA InitInv ==
    ASSUME Init
    PROVE  IInv
<1>1. EndOf(0) = 0 /\ 0 \in 0 .. Rounds
  BY EndOfNext, FramedExchangeAssumption
<1>2. /\ start \in 0 .. EndOf(round) /\ taken \in start .. EndOf(round)
      /\ delivered \in taken .. EndOf(round) /\ round \in 0 .. Rounds
  BY <1>1 DEF Init
<1>3. reads \in Seq(Read) /\ teardowns \in Nat
  BY DEF Init
<1>4. TypeOK
  BY <1>2, <1>3 DEF Init, TypeOK, Read
<1>5. QED
  BY <1>4 DEF Init, IInv, Progress, SlotReleased, InStep

(* One more read. *)
LEMMA AppendRead ==
    ASSUME reads \in Seq(Read), NEW ending \in Ending, NEW first \in Nat, NEW length \in Nat,
           reads' = Append(reads, [ending |-> ending, first |-> first, length |-> length])
    PROVE  /\ reads' \in Seq(Read) /\ Len(reads') = Len(reads) + 1
           /\ \A i \in DOMAIN reads : i \in DOMAIN reads' /\ reads'[i] = reads[i]
           /\ Len(reads) + 1 \in DOMAIN reads'
           /\ reads'[Len(reads) + 1] = [ending |-> ending, first |-> first, length |-> length]
           /\ \A i \in DOMAIN reads' : i \in DOMAIN reads \/ i = Len(reads) + 1
<1> DEFINE read == [ending |-> ending, first |-> first, length |-> length]
<1>1. read \in Read
  BY DEF Read
<1> HIDE DEF read
<1>2. reads' = Append(reads, read)
  BY DEF read
<1>3. QED
  BY <1>1, <1>2 DEF read

(* The bounds that a step has to keep. *)
LEMMA Bounds ==
    ASSUME TypeOK
    PROVE  /\ round \in Nat /\ EndOf(round) \in Nat
           /\ EndOf(round + 1) = EndOf(round) + Size /\ Size \in Nat
           /\ start \in Nat /\ taken \in Nat /\ delivered \in Nat
           /\ start <= taken /\ taken <= delivered /\ delivered <= EndOf(round)
<1>1. round \in Nat /\ Size \in Nat
  BY FramedExchangeAssumption DEF TypeOK
<1>2. EndOf(round) \in Nat /\ EndOf(round + 1) = EndOf(round) + Size
  BY <1>1, EndOfNext
<1>3. QED
  BY <1>1, <1>2 DEF TypeOK

(* A read that returns, however it ended. *)
LEMMA ReturnInv ==
    ASSUME IInv, pc = "reading", NEW ending \in Ending, NEW upto \in taken .. delivered,
           Return(ending, upto), UNCHANGED peer,
           (InStep /\ ending = "full" /\ start = EndOf(round - 1)) => upto = EndOf(round)
    PROVE  IInv'
<1> DEFINE ok == confirmed \/ (speaksS7 /\ start = 0 /\ upto >= Confirm)
           length == upto - start
<1>1. TypeOK /\ Progress /\ SlotReleased /\ InStep
  BY DEF IInv
<1>2. reads \in Seq(Read) /\ upto \in Nat /\ length \in Nat /\ start <= upto
  BY <1>1, Bounds DEF TypeOK, Read
<1>3. /\ reads' = Append(reads, [ending |-> ending, first |-> start, length |-> length])
      /\ delivered' = delivered /\ link' = link /\ speaksS7' = speaksS7
  BY DEF Return, peer
<1>4. /\ reads' \in Seq(Read) /\ Len(reads') = Len(reads) + 1
      /\ \A i \in DOMAIN reads : i \in DOMAIN reads' /\ reads'[i] = reads[i]
      /\ Len(reads) + 1 \in DOMAIN reads'
      /\ reads'[Len(reads) + 1] = [ending |-> ending, first |-> start, length |-> length]
      /\ \A i \in DOMAIN reads' : i \in DOMAIN reads \/ i = Len(reads) + 1
  BY <1>1, <1>2, <1>3, AppendRead, Bounds
<1> HIDE DEF length
<1>5. parked' \in BOOLEAN /\ confirmed' \in BOOLEAN
  <2>1. parked \in BOOLEAN /\ confirmed \in BOOLEAN
    BY <1>1 DEF TypeOK
  <2>2. (delivered = upto) \in BOOLEAN /\ (round + 1 > 1) \in BOOLEAN
    OBVIOUS
  <2>3. /\ parked' \in {parked, (delivered = upto)}
        /\ confirmed' \in {TRUE, FALSE, confirmed, (round + 1 > 1)}
    BY Zenon DEF Return, Close, Request
  <2>4. QED
    BY <2>1, <2>2, <2>3, Zenon
<1>6. \/ /\ pc' = "closing" /\ round' = round /\ start' = start /\ taken' = upto
         /\ \/ confirmed' = FALSE /\ teardowns' = teardowns /\ ~confirmed
            \/ confirmed' = confirmed
               /\ teardowns' = IF confirmed /\ link # "reset" THEN teardowns + 1 ELSE teardowns
            \/ confirmed' = TRUE /\ teardowns' = teardowns /\ ok /\ link = "reset"
      \/ /\ pc' = "reading" /\ round' = round + 1 /\ start' = upto /\ taken' = upto
         /\ confirmed' = (round + 1 > 1) /\ teardowns' = teardowns /\ round # Rounds /\ ok
  BY DEF Return, Close, Request, LastRound
<1>7. ok => speaksS7
  BY <1>1 DEF Progress
<1>8. /\ round \in 1 .. Rounds /\ teardowns = 0 /\ Len(reads) = round - 1
      /\ confirmed <=> round > 1
  BY <1>1 DEF TypeOK, Progress
<1>9. pc' = "reading" => confirmed' = TRUE
  <2>1. (round + 1 > 1) = TRUE
    BY <1>8
  <2>2. QED
    BY <1>6, <2>1, Zenon
<1> HIDE DEF ok
<1>10. TypeOK'
  <2>1. /\ pc' \in {"closing", "reading"} /\ confirmed' \in BOOLEAN /\ teardowns' \in Nat
        /\ parked' \in BOOLEAN /\ link' \in {"open", "eof", "reset"} /\ speaksS7' \in BOOLEAN
    BY <1>1, <1>3, <1>5, <1>6, <1>8 DEF TypeOK
  <2>2. round' \in 0 .. Rounds
    BY <1>6, <1>8, FramedExchangeAssumption
  <2>3. /\ start' \in Nat /\ taken' = upto /\ start' <= upto
        /\ EndOf(round') \in Nat /\ delivered <= EndOf(round')
    BY <1>1, <1>2, <1>6, Bounds
  <2>4. /\ start' \in 0 .. EndOf(round') /\ taken' \in start' .. EndOf(round')
        /\ delivered' \in taken' .. EndOf(round')
    BY <1>1, <1>2, <1>3, <2>3, Bounds
  <2>5. QED
    BY <1>4, <2>1, <2>2, <2>4 DEF TypeOK, Read
<1>11. Progress'
  BY <1>1, <1>3, <1>4, <1>5, <1>6, <1>7, <1>8, <1>9 DEF Progress
<1>12. SlotReleased'
  BY <1>1, <1>3, <1>6, <1>7, <1>8 DEF SlotReleased, Progress
<1>13. InStep'
  <2>1. SUFFICES ASSUME \A i \in DOMAIN reads' : reads'[i].ending = "full"
                 PROVE  /\ pc' = "reading" => start' = EndOf(round' - 1)
                        /\ \A i \in DOMAIN reads' :
                              reads'[i].first = EndOf(i - 1) /\ reads'[i].length = Size
    BY DEF InStep
  <2>2. \A i \in DOMAIN reads : reads[i].ending = "full"
    BY <1>4, <2>1
  <2>3. ending = "full"
    BY <1>4, <2>1
  <2>4. start = EndOf(round - 1) /\ upto = EndOf(round)
    BY <1>1, <2>2, <2>3 DEF InStep
  <2>5. length = Size
    <3>1. round - 1 \in Nat /\ (round - 1) + 1 = round
      BY <1>8
    <3>2. EndOf(round - 1) \in Nat /\ EndOf(round) = EndOf(round - 1) + Size
      BY <3>1, EndOfNext
    <3>3. Size \in Nat
      BY FramedExchangeAssumption
    <3>4. QED
      BY <2>4, <3>2, <3>3 DEF length
  <2>6. ASSUME NEW i \in DOMAIN reads'
        PROVE  reads'[i].first = EndOf(i - 1) /\ reads'[i].length = Size
    <3>1. CASE i \in DOMAIN reads
      BY <1>1, <1>4, <2>2, <3>1 DEF InStep
    <3>2. CASE i = Len(reads) + 1
      BY <1>4, <1>8, <2>4, <2>5, <3>2
    <3>3. QED
      BY <1>4, <3>1, <3>2
  <2>7. pc' = "reading" => start' = EndOf(round' - 1)
    <3>1. SUFFICES ASSUME pc' = "reading" PROVE start' = EndOf(round' - 1)
      OBVIOUS
    <3>2. start' = upto /\ round' - 1 = round
      BY <1>6, <1>8, <3>1
    <3>3. QED
      BY <2>4, <3>2
  <2>8. QED
    BY <2>6, <2>7
<1>14. QED
  BY <1>10, <1>11, <1>12, <1>13 DEF IInv

(* An exception that leaves the read. *)
LEMMA AbortInv ==
    ASSUME IInv, pc = "reading", NEW ending \in {"reset", "cancelled"}, Abort(ending),
           UNCHANGED peer
    PROVE  IInv'
<1>1. TypeOK /\ Progress /\ SlotReleased /\ InStep
  BY DEF IInv
<1>2. reads \in Seq(Read) /\ start \in Nat /\ ending \in Ending
  BY <1>1, Bounds DEF TypeOK, Read, Ending
<1>3. /\ reads' = Append(reads, [ending |-> ending, first |-> start, length |-> 0])
      /\ pc' = "closing" /\ confirmed' = confirmed
      /\ teardowns' = IF confirmed /\ link # "reset" THEN teardowns + 1 ELSE teardowns
      /\ UNCHANGED <<round, start, taken, parked, delivered, link, speaksS7>>
  BY DEF Abort, Close, peer
<1>4. /\ reads' \in Seq(Read)
      /\ \E i \in DOMAIN reads' : reads'[i].ending = ending
  BY <1>2, <1>3, AppendRead
<1>5. TypeOK'
  BY <1>1, <1>3, <1>4 DEF TypeOK, Read
<1>6. Progress' /\ SlotReleased'
  BY <1>1, <1>3 DEF Progress, SlotReleased, TypeOK
<1>7. InStep'
  BY <1>3, <1>4 DEF InStep
<1>8. QED
  BY <1>5, <1>6, <1>7 DEF IInv

(* Every step. *)
LEMMA NextInv ==
    ASSUME IInv, [Next]_vars
    PROVE  IInv'
<1>1. TypeOK /\ Progress /\ SlotReleased /\ InStep
  BY DEF IInv
<1>2. CASE Connect
  <2>1. /\ pc = "connecting" /\ round = 0 /\ start = 0 /\ taken = 0 /\ delivered = 0
        /\ reads = <<>> /\ ~confirmed /\ teardowns = 0
    BY <1>1, <1>2 DEF Connect, Progress
  <2>2. UNCHANGED <<reads, teardowns, delivered, link, speaksS7>>
    BY <1>2 DEF Connect, Request, peer
  <2>3. CASE Request(1, 0)
    <3>1. /\ pc' = "reading" /\ round' = 1 /\ start' = 0 /\ taken' = 0
          /\ parked' = TRUE /\ confirmed' = FALSE
      <4>1. (1 > 1) = FALSE /\ (delivered = 0) = TRUE
        BY <2>1
      <4>2. QED
        BY <2>3, <4>1, Zenon DEF Request
    <3>2. 1 \in 0 .. Rounds /\ EndOf(1) \in Nat /\ EndOf(0) = 0
      BY FramedExchangeAssumption, EndOfNext
    <3>3. /\ round' \in 0 .. Rounds /\ start' \in 0 .. EndOf(round')
          /\ taken' \in start' .. EndOf(round') /\ delivered' \in taken' .. EndOf(round')
      BY <2>1, <2>2, <3>1, <3>2
    <3>4. TypeOK'
      BY <1>1, <2>2, <3>1, <3>3 DEF TypeOK
    <3>5. QED
      BY <1>1, <2>1, <2>2, <3>1, <3>2, <3>4 DEF IInv, Progress, SlotReleased, InStep
  <2>4. CASE pc' = "ended" /\ UNCHANGED <<round, start, taken, parked, confirmed>>
    <3>1. TypeOK'
      BY <1>1, <2>2, <2>4 DEF TypeOK
    <3>2. QED
      BY <1>1, <2>1, <2>2, <2>4, <3>1 DEF IInv, Progress, SlotReleased, InStep
  <2>5. QED
    BY <1>2, <2>3, <2>4 DEF Connect
<1>3. CASE ReadChunk
  <2>1. /\ pc = "reading" /\ delivered \in taken .. delivered /\ delivered \in Nat
        /\ delivered <= EndOf(round) /\ UNCHANGED peer /\ start \in Nat /\ start <= delivered
    BY <1>1, <1>3, Bounds DEF ReadChunk
  <2>2. CASE Return("short", delivered)
    BY <2>1, <2>2, ReturnInv DEF Ending
  <2>3. CASE TRUE \in Complete(start, delivered - start) /\ Return("full", delivered)
    <3>1. ASSUME start = EndOf(round - 1)
          PROVE  delivered = EndOf(round)
      <4>1. round - 1 \in 0 .. Rounds /\ round - 1 \in Nat /\ (round - 1) + 1 = round
        BY <1>1, <2>1, FramedExchangeAssumption DEF TypeOK, Progress
      <4>2. Complete(start, delivered - start) = {delivered - start >= Size}
        BY <3>1, <4>1 DEF Complete
      <4>3. delivered - start >= Size
        <5>1. TRUE = (delivered - start >= Size)
          BY <2>3, <4>2
        <5>2. QED
          BY <5>1
      <4>4. EndOf(round) = start + Size /\ Size \in Nat
        BY <3>1, <4>1, EndOfNext, FramedExchangeAssumption
      <4>5. QED
        BY <2>1, <4>3, <4>4
    <3>2. QED
      BY <2>1, <2>3, <3>1, ReturnInv DEF Ending
  <2>4. CASE /\ taken' = delivered /\ parked' = TRUE
             /\ UNCHANGED <<pc, round, start, confirmed, teardowns, reads>>
    <3>1. TypeOK'
      BY <1>1, <2>1, <2>4 DEF TypeOK, peer
    <3>2. QED
      BY <1>1, <2>1, <2>4, <3>1 DEF IInv, Progress, SlotReleased, InStep, peer
  <2>5. QED
    BY <1>3, <2>2, <2>3, <2>4 DEF ReadChunk
<1>4. CASE ReadEOF \/ ReadTimeout
  <2>1. /\ pc = "reading" /\ taken \in taken .. delivered /\ UNCHANGED peer
        /\ Return("eof", taken) \/ Return("timeout", taken)
    BY <1>1, <1>4, Bounds DEF ReadEOF, ReadTimeout
  <2>2. QED
    BY <2>1, ReturnInv DEF Ending
<1>5. CASE ReadReset \/ Cancel
  BY <1>5, AbortInv DEF ReadReset, Cancel
<1>6. CASE Closed
  <2>1. /\ pc = "closing" /\ pc' = "ended"
        /\ UNCHANGED <<round, start, taken, parked, confirmed, teardowns, reads,
                       delivered, link, speaksS7>>
    BY <1>6 DEF Closed, peer
  <2>2. TypeOK'
    BY <1>1, <2>1 DEF TypeOK
  <2>3. QED
    BY <1>1, <2>1, <2>2 DEF IInv, Progress, SlotReleased, InStep
<1>7. CASE Deliver \/ HangUp
  <2>1. /\ pc = "reading" /\ speaksS7' = speaksS7
        /\ UNCHANGED <<pc, round, start, taken, parked, confirmed, teardowns, reads>>
    BY <1>7 DEF Deliver, HangUp, probe
  <2>2. delivered' \in taken .. EndOf(round) /\ link' \in {"open", "eof", "reset"}
    BY <1>1, <1>7, Bounds DEF Deliver, HangUp, TypeOK
  <2>3. TypeOK'
    BY <1>1, <2>1, <2>2 DEF TypeOK
  <2>4. QED
    BY <1>1, <2>1, <2>3 DEF IInv, Progress, SlotReleased, InStep
<1>8. CASE UNCHANGED vars
  <2>1. UNCHANGED <<pc, round, start, taken, parked, confirmed, teardowns, reads,
                    delivered, link, speaksS7>>
    BY <1>8 DEF vars, probe, peer
  <2>2. QED
    BY <1>1, <2>1 DEF IInv, TypeOK, Progress, SlotReleased, InStep
<1>9. QED
  BY <1>2, <1>3, <1>4, <1>5, <1>6, <1>7, <1>8 DEF Next, ProbeStep, Ended

LEMMA Invariance == Spec => []IInv
<1>1. Init => IInv
  BY InitInv
<1>2. IInv /\ [Next]_vars => IInv'
  BY NextInv
<1>3. QED
  BY <1>1, <1>2, PTL DEF Spec

(* The exchange never reads past a reply, and its counters keep their      *)
(* types, for any number of requests.                                      *)
THEOREM TypeCorrectness == Spec => []TypeOK
<1>1. IInv => TypeOK
  BY DEF IInv
<1>2. QED
  BY <1>1, Invariance, PTL

(* ot.py:320: a PLC that has confirmed the connection gets exactly one     *)
(* disconnect request on every way out that leaves it connected.           *)
THEOREM ConnectionIsGivenBack == Spec => []SlotReleased
<1>1. IInv => SlotReleased
  BY DEF IInv
<1>2. QED
  BY <1>1, Invariance, PTL

(* base.py:108-112: as long as only whole frames have been read, each read *)
(* returned just the reply to its own request.                             *)
THEOREM RepliesAreMatched == Spec => []InStep
<1>1. IInv => InStep
  BY DEF IInv
<1>2. QED
  BY <1>1, Invariance, PTL
=============================================================================
