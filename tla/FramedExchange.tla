--------------------------- MODULE FramedExchange ---------------------------
(***************************************************************************)
(* One TCP exchange of a protocol probe: tcp_request of protocols/base.py  *)
(* (a single request) and _s7_exchange of protocols/ot.py (connection      *)
(* request, setup and read on one connection, with a teardown).  Replies   *)
(* are read by read_framed, which asks the protocol's frame_length how     *)
(* long the frame is that starts in its buffer.                            *)
(*                                                                         *)
(* The replies form one byte stream: reply r ends EndOf(r) bytes into it,  *)
(* where reply r + 1 begins.  Bytes are only counted.  TCP hands them to the reader  *)
(* in pieces of any size, late, or never.  A timeout may expire whenever   *)
(* the coroutine is suspended.                                             *)
(***************************************************************************)
EXTENDS Integers, Sequences

CONSTANTS
    Rounds,   \* requests in the exchange: 1 for tcp_request, 3 for S7
    Header,   \* bytes frame_length needs to see the length field
    Confirm,  \* bytes needed to recognise the connection confirm (S7)
    Size      \* bytes of a reply, less than recv_size

ASSUME FramedExchangeAssumption ==
    /\ Rounds \in Nat \ {0}
    /\ Header \in Nat \ {0}
    /\ Confirm \in Nat
    /\ Size \in Nat
    /\ Header <= Confirm
    /\ Confirm <= Size

VARIABLES
    pc,         \* the probe's coroutine: connecting, reading, closing, ended
    round,      \* number of the request in progress
    start,      \* bytes of the stream taken before the current read_framed
    taken,      \* bytes taken in all; the buffer has taken - start of them
    parked,     \* reader.read() is suspended
    confirmed,  \* cotp_ok
    teardowns,  \* disconnect requests written to an open connection
    reads,      \* how each read_framed ended and what it read (history)
    delivered,  \* bytes that have reached the StreamReader
    link,       \* the peer's side: open, eof or reset
    speaksS7    \* the peer answers a connection request with a confirm

probe == <<pc, round, start, taken, parked, confirmed, teardowns, reads>>
peer == <<delivered, link, speaksS7>>
vars == <<probe, peer>>

Handshake == Rounds > 1

EndOf(r) == r * Size

Ending == {"full", "short", "timeout", "eof", "reset", "cancelled"}

TypeOK ==
    /\ pc \in {"connecting", "reading", "closing", "ended"}
    /\ round \in 0 .. Rounds
    /\ start \in 0 .. EndOf(round)
    /\ taken \in start .. EndOf(round)
    /\ parked \in BOOLEAN
    /\ confirmed \in BOOLEAN
    /\ teardowns \in Nat
    /\ reads \in Seq([ending : Ending, first : Nat, length : Nat])
    /\ delivered \in taken .. EndOf(round)
    /\ link \in {"open", "eof", "reset"}
    /\ speaksS7 \in BOOLEAN

Init ==
    /\ pc = "connecting"
    /\ round = 0
    /\ start = 0
    /\ taken = 0
    /\ parked = FALSE
    /\ confirmed = FALSE
    /\ teardowns = 0
    /\ reads = <<>>
    /\ delivered = 0
    /\ link = "open"
    /\ speaksS7 \in BOOLEAN

-----------------------------------------------------------------------------
(* Write request r and enter read_framed.  Bytes that came too late for    *)
(* the previous read are the first this one sees.                          *)
Request(r, from) ==
    /\ pc' = "reading"
    /\ confirmed' = (r > 1)
    /\ round' = r
    /\ start' = from
    /\ taken' = from
    /\ parked' = (delivered = from)
    /\ UNCHANGED teardowns

(* The finally clause, up to wait_closed. *)
Close(ok) ==
    /\ pc' = "closing"
    /\ teardowns' = IF ok /\ link # "reset" THEN teardowns + 1 ELSE teardowns
    /\ confirmed' = ok
    /\ UNCHANGED <<round, start, parked>>

(* Mutant: the teardown is written only when the exchange went through. *)
AbortWithoutTeardown(ending) ==
    /\ pc' = "closing"
    /\ reads' = Append(reads, [ending |-> ending, first |-> start, length |-> 0])
    /\ UNCHANGED <<round, start, taken, parked, confirmed, teardowns>>

(* An exception leaves read_framed: what its buffer held is lost. *)
Abort(ending) ==
    /\ reads' = Append(reads, [ending |-> ending, first |-> start, length |-> 0])
    /\ Close(confirmed)
    /\ UNCHANGED taken

(* Mutant: the exchange goes on after its last request. *)
LastRoundMissed == round > Rounds

LastRound == round = Rounds

(* read_framed returns the bytes up to `upto'; the exchange goes on with   *)
(* the next request, or is over.  A write to a reset connection raises.    *)
Return(ending, upto) ==
    LET ok == confirmed \/ (speaksS7 /\ start = 0 /\ upto >= Confirm)
    IN  /\ reads' = Append(reads, [ending |-> ending, first |-> start,
                                   length |-> upto - start])
        /\ \/ /\ Handshake /\ round = 1 /\ ~ok
              /\ Close(FALSE)
              /\ taken' = upto
           \/ /\ LastRound
              /\ Close(confirmed)
              /\ taken' = upto
           \/ /\ ~LastRound /\ ok /\ link = "reset"
              /\ Close(TRUE)
              /\ taken' = upto
           \/ /\ ~LastRound /\ ok /\ link # "reset"
              /\ Request(round + 1, upto)

(* asyncio.open_connection within its timeout, and the first request. *)
Connect ==
    /\ pc = "connecting"
    /\ \/ /\ Request(1, 0)
          /\ UNCHANGED reads
       \/ /\ pc' = "ended"
          /\ UNCHANGED <<round, start, taken, parked, confirmed, teardowns, reads>>
    /\ UNCHANGED peer

(* Mutant: the length prefix is not counted as part of the frame. *)
CompleteWithoutPrefix(from, n) ==
    IF \E r \in 0 .. Rounds : from = EndOf(r) THEN {n >= Size - Header} ELSE BOOLEAN

(* frame_length of a buffer that starts at byte `from' of the stream and   *)
(* holds n bytes: is the frame complete?  Where no frame starts the length *)
(* field is arbitrary.                                                     *)
Complete(from, n) ==
    IF \E r \in 0 .. Rounds : from = EndOf(r) THEN {n >= Size} ELSE BOOLEAN

(* reader.read returns what has arrived.  The loop ends when the frame is  *)
(* complete, and also when frame_length cannot tell yet.                   *)
ReadChunk ==
    /\ pc = "reading"
    /\ link # "reset"
    /\ delivered > taken
    /\ \/ /\ delivered - start < Header
          /\ Return("short", delivered)
       \/ /\ delivered - start >= Header
          /\ \E complete \in Complete(start, delivered - start) :
                IF complete
                THEN Return("full", delivered)
                ELSE /\ taken' = delivered
                     /\ parked' = TRUE
                     /\ UNCHANGED <<pc, round, start, confirmed, teardowns, reads>>
    /\ UNCHANGED peer

ReadEOF ==
    /\ pc = "reading"
    /\ link = "eof"
    /\ delivered = taken
    /\ Return("eof", taken)
    /\ UNCHANGED peer

(* Mutant: the read has no timeout. *)
ReadTimeoutNever ==
    /\ FALSE
    /\ UNCHANGED vars

(* asyncio.timeout cancels the suspended read, even one whose bytes have   *)
(* just come in: those stay in the StreamReader.                           *)
ReadTimeout ==
    /\ pc = "reading"
    /\ parked
    /\ Return("timeout", taken)
    /\ UNCHANGED peer

(* reader.read raises on a reset connection; the probe may be cancelled at *)
(* an await (Ctrl-C).                                                      *)
ReadReset ==
    /\ pc = "reading"
    /\ link = "reset"
    /\ Abort("reset")
    /\ UNCHANGED peer

Cancel ==
    /\ pc = "reading"
    /\ parked
    /\ Abort("cancelled")
    /\ UNCHANGED peer

(* writer.wait_closed returns or raises what is suppressed. *)
Closed ==
    /\ pc = "closing"
    /\ pc' = "ended"
    /\ UNCHANGED <<round, start, taken, parked, confirmed, teardowns, reads, peer>>

-----------------------------------------------------------------------------
(* The peer sends any part of the replies it owes.  (Before the connection *)
(* is confirmed it owes one reply of some kind.)                           *)
Deliver ==
    /\ link = "open"
    /\ pc = "reading"
    /\ delivered' \in delivered + 1 .. EndOf(round)
    /\ UNCHANGED <<probe, link, speaksS7>>

HangUp ==
    /\ link = "open"
    /\ pc = "reading"
    /\ link' \in {"eof", "reset"}
    /\ UNCHANGED <<probe, delivered, speaksS7>>

Ended ==
    /\ pc = "ended"
    /\ UNCHANGED vars

ProbeStep ==
    \/ Connect \/ ReadChunk \/ ReadEOF \/ ReadReset \/ Closed
    \/ ReadTimeout \/ Cancel

Next == ProbeStep \/ Deliver \/ HangUp \/ Ended

Spec == Init /\ [][Next]_vars

(* The loop runs ready coroutines and expired timers.  Nothing is asked of *)
(* the peer, and nobody has to cancel.                                     *)
Fairness ==
    WF_vars(Connect \/ ReadChunk \/ ReadEOF \/ ReadReset \/ ReadTimeout \/ Closed)

FairSpec == Spec /\ Fairness

-----------------------------------------------------------------------------
(* ot.py:320: once the PLC has confirmed the connection, every way out of  *)
(* the exchange (last reply, timeout, end of stream, cancellation) sends   *)
(* exactly one disconnect request, unless the connection was reset; and    *)
(* nothing else is ever sent one.                                          *)
SlotReleased ==
    /\ pc \in {"closing", "ended"} /\ confirmed =>
           teardowns = 1 \/ (teardowns = 0 /\ link = "reset")
    /\ teardowns > 0 => confirmed /\ speaksS7
    /\ pc \in {"connecting", "reading"} => teardowns = 0

(* The exchange stays in step: as long as every read so far ended with a   *)
(* whole frame, the current read starts where the reply to the current     *)
(* request starts, and each of those reads returned just its own reply.    *)
InStep ==
    (\A i \in DOMAIN reads : reads[i].ending = "full") =>
        /\ pc = "reading" => start = EndOf(round - 1)
        /\ \A i \in DOMAIN reads :
              reads[i].first = EndOf(i - 1) /\ reads[i].length = Size

(* A probe ends whatever the peer does or fails to do. *)
ProbeEnds == <>(pc = "ended")

=============================================================================
