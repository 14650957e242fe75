------------------------------- MODULE Probes -------------------------------
(***************************************************************************)
(* The conversations of the protocol probes: probe_snmp, probe_ntp,        *)
(* probe_dnp3, probe_smb and the probes that ask once.  Each request is a  *)
(* try with a socket of its own (udp_request, tcp_request); a try ends     *)
(* with the first thing that arrives or after two timeouts, one for the    *)
(* socket and one for the answer.                                          *)
(*                                                                         *)
(* Datagrams are lost, doubled and late, and go to whatever socket has     *)
(* the local port when they arrive; a stream stays with its connection     *)
(* (FramedExchange has its bytes).  What a reply says is abstracted to     *)
(* whether the probe's parser accepts it.                                  *)
(***************************************************************************)
EXTENDS Integers, FiniteSets

CONSTANTS
    Kinds,  \* probes: [tries, mode, transport, any, slice]
    Port    \* local ports

(*   mode   "together": at once, the first in order that answers counts    *)
(*          "first": in turn until one answers;  "all": in turn, all count *)
(*   any    any reply will do, the parser is not asked                     *)
(*   slice  the timeout of one try, in ticks                               *)
KindType ==
    [tries : Nat \ {0}, mode : {"together", "first", "all"},
     transport : {"udp", "tcp"}, any : BOOLEAN, slice : Nat \ {0}]

(* What a reply may be: accepted by the parser, not accepted, or void: no  *)
(* bytes, or an error (refused, reset, unreachable).                       *)
Reply == {"good", "bad", "void"}

None == "none"

ASSUME ProbesAssumption ==
    /\ Kinds \subseteq KindType
    /\ \A k \in Kinds : k.mode = "together" => k.tries <= Cardinality(Port)
    /\ Port # {} /\ IsFiniteSet(Port)

VARIABLES
    kind,      \* the probe that runs
    device,    \* what the device would reply to each try
    phase,     \* running, returned or cancelled
    stage,     \* of each try: pending, opening, asked, done
    deadline,  \* of its current stage
    port,      \* its local port, also after the socket is closed
    got,       \* the first thing its socket received
    net,       \* replies the device has sent
    now,       \* the clock
    report     \* the tries the result reports on; {} when the probe saw nothing

vars == <<kind, device, phase, stage, deadline, port, got, net, now, report>>

Try == 1 .. kind.tries

Busy == {t \in Try : stage[t] \in {"opening", "asked"}}

(* The time a probe may take, as its tries add up. *)
Budget == 2 * kind.slice * (IF kind.mode = "together" THEN 1 ELSE kind.tries)

(* The clock's range is a promise: a probe is over within its budget, and  *)
(* no socket or try outlives it (base.py:165, "this must respect the   *)
(* timeout too").  A socket's local port is its own.                       *)
TypeOK ==
    /\ kind \in Kinds
    /\ device \in [Try -> Reply]
    /\ phase \in {"running", "returned", "cancelled"}
    /\ stage \in [Try -> {"pending", "opening", "asked", "done"}]
    /\ phase # "running" => Busy = {}
    /\ port \in [Try -> Port \cup {None}]
    /\ \A t, u \in Try :
          stage[t] = "asked" /\ stage[u] = "asked" /\ t # u => port[t] # port[u]
    /\ got \in [Try -> Reply \cup {None}]
    /\ now \in 0 .. Budget
    /\ \A t \in Busy : deadline[t] \in now .. Budget
    /\ net \subseteq [port : Port, of : Try, content : Reply]
    /\ report \subseteq Try

Started == IF kind.mode = "together" THEN Try ELSE {1}

Init ==
    /\ kind \in Kinds
    /\ device \in [Try -> Reply]
    /\ phase = "running"
    /\ stage = [t \in Try |-> IF t \in Started THEN "opening" ELSE "pending"]
    /\ deadline = [t \in Try |-> kind.slice]
    /\ port = [t \in Try |-> None]
    /\ got = [t \in Try |-> None]
    /\ net = {}
    /\ now = 0
    /\ report = {}

-----------------------------------------------------------------------------
(* Does the try count?  A void reply is as good as none. *)
Hit(t) == got[t] = "good" \/ (kind.any /\ got[t] = "bad")

(* The endpoint or connection is there: the request is sent. *)
Opened(t) ==
    /\ stage[t] = "opening"
    /\ \E p \in Port \ {port[u] : u \in {v \in Try : stage[v] = "asked"}} :
          port' = [port EXCEPT ![t] = p]
    /\ stage' = [stage EXCEPT ![t] = "asked"]
    /\ deadline' = [deadline EXCEPT ![t] = now + kind.slice]
    /\ UNCHANGED <<kind, device, phase, got, net, now, report>>

(* The device answers a request, also one whose try is over. *)
Answer(t) ==
    /\ port[t] # None
    /\ net' = net \cup {[port |-> port[t], of |-> t, content |-> device[t]]}
    /\ UNCHANGED <<kind, device, phase, stage, deadline, port, got, now, report>>

(* Mutant: all tries share one socket. *)
ReceiveOnAnyPort(t) ==
    /\ stage[t] = "asked" /\ got[t] = None
    /\ \E d \in net : got' = [got EXCEPT ![t] = d.content]
    /\ UNCHANGED <<kind, device, phase, stage, deadline, port, net, now, report>>

(* A datagram reaches the socket that has its port now, a stream only the  *)
(* connection it belongs to.  Later ones are ignored.                      *)
Receive(t) ==
    /\ stage[t] = "asked" /\ got[t] = None
    /\ \E d \in net :
          /\ d.port = port[t]
          /\ kind.transport = "tcp" => d.of = t
          /\ got' = [got EXCEPT ![t] = d.content]
    /\ UNCHANGED <<kind, device, phase, stage, deadline, port, net, now, report>>

(* Is the try after t made? *)
GoesOn(t) ==
    /\ t + 1 \in Try
    /\ kind.mode = "all" \/ (kind.mode = "first" /\ ~Hit(t))

(* Mutant: a reply that is not understood ends the sweep. *)
EndTryGivingUp(t) ==
    /\ t \in Busy
    /\ stage[t] = "opening" \/ got[t] # None \/ now = deadline[t]
    /\ IF GoesOn(t) /\ got[t] = None
       THEN /\ stage' = [stage EXCEPT ![t] = "done", ![t + 1] = "opening"]
            /\ deadline' = [deadline EXCEPT ![t + 1] = now + kind.slice]
       ELSE /\ stage' = [stage EXCEPT ![t] = "done"]
            /\ UNCHANGED deadline
    /\ UNCHANGED <<kind, device, phase, port, got, net, now, report>>

(* A try ends: no socket, a reply, an error, or no time left.  Its socket  *)
(* is closed, and the next try begins.                                     *)
EndTry(t) ==
    /\ t \in Busy
    /\ stage[t] = "opening" \/ got[t] # None \/ now = deadline[t]
    /\ IF GoesOn(t)
       THEN /\ stage' = [stage EXCEPT ![t] = "done", ![t + 1] = "opening"]
            /\ deadline' = [deadline EXCEPT ![t + 1] = now + kind.slice]
       ELSE /\ stage' = [stage EXCEPT ![t] = "done"]
            /\ UNCHANGED deadline
    /\ UNCHANGED <<kind, device, phase, port, got, net, now, report>>

(* The probe returns what it has seen. *)
Return ==
    /\ phase = "running"
    /\ Busy = {}
    /\ phase' = "returned"
    /\ report' = {t \in Try : Hit(t) /\ (kind.mode = "all" \/ \A u \in 1 .. t - 1 : ~Hit(u))}
    /\ UNCHANGED <<kind, device, stage, deadline, port, got, net, now>>

(* The caller is cancelled; finally clauses close the sockets. *)
Cancel ==
    /\ phase = "running"
    /\ phase' = "cancelled"
    /\ stage' = [t \in Try |-> IF t \in Busy THEN "done" ELSE stage[t]]
    /\ UNCHANGED <<kind, device, deadline, port, got, net, now, report>>

(* Mutant: only the wait for the answer is timed. *)
TickUntimedOpen ==
    /\ Busy # {}
    /\ now <= Budget
    /\ \A t \in Busy : stage[t] = "asked" => now < deadline[t]
    /\ now' = now + 1
    /\ UNCHANGED <<kind, device, phase, stage, deadline, port, got, net, report>>

(* Time passes until a timeout is due (timers on time). *)
Tick ==
    /\ Busy # {}
    /\ \A t \in Busy : now < deadline[t]
    /\ now' = now + 1
    /\ UNCHANGED <<kind, device, phase, stage, deadline, port, got, net, report>>

Finished ==
    /\ phase # "running"
    /\ UNCHANGED vars

Next ==
    \/ \E t \in Try : Opened(t) \/ Answer(t) \/ Receive(t) \/ EndTry(t)
    \/ Return \/ Cancel
    \/ Tick
    \/ Finished

Spec == Init /\ [][Next]_vars

-----------------------------------------------------------------------------
Answered(t) ==
    \E d \in net : d.of = t /\ (d.content = "good" \/ (kind.any /\ d.content = "bad"))

(* snmp.py:110-146, amplification.py:103-136, ot.py:603-624,               *)
(* smb.py:248-263: a probe reports a community, an address or a dialect    *)
(* only if the device accepted it, whatever the network does; only a try   *)
(* that was given the local port of another one again may be credited with *)
(* a late reply to that one.  A probe that found nothing has tried         *)
(* everything.                                                             *)
ProbeHonest ==
    /\ \A t \in report :
          \E u \in Try :
              /\ Answered(u)
              /\ u # t => kind.transport = "udp" /\ port[u] = port[t]
    /\ phase = "returned" /\ (report = {} \/ kind.mode = "all") =>
          \A t \in Try : stage[t] = "done"

=============================================================================
