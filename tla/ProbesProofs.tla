---------------------------- MODULE ProbesProofs ----------------------------
(***************************************************************************)
(* Proofs about Probes, for any probes, any number of tries and timeouts,  *)
(* any local ports and any behaviour of the network.                       *)
(***************************************************************************)
EXTENDS Probes, TLAPS

Types ==
    /\ kind \in Kinds
    /\ device \in [Try -> Reply]
    /\ phase \in {"running", "returned", "cancelled"}
    /\ stage \in [Try -> {"pending", "opening", "asked", "done"}]
    /\ deadline \in [Try -> Nat]
    /\ port \in [Try -> Port \cup {None}]
    /\ got \in [Try -> Reply \cup {None}]
    /\ net \subseteq [port : Port, of : Try, content : Reply]
    /\ now \in Nat
    /\ report \subseteq Try

(* A reply went to the port its try was asked from; what a try has got     *)
(* came to its port, over TCP from its own connection.                     *)
Traced ==
    /\ \A t \in Try : stage[t] \in {"pending", "opening"} => port[t] = None /\ got[t] = None
    /\ \A d \in net : d.port = port[d.of] /\ d.port # None
    /\ \A t \in Try : got[t] # None =>
          \E d \in net : /\ d.content = got[t] /\ d.port = port[t]
                         /\ kind.transport = "tcp" => d.of = t

(* Two open sockets have different ports, and none is open at the end.     *)
Sockets ==
    /\ \A t, u \in Try :
          stage[t] = "asked" /\ stage[u] = "asked" /\ t # u => port[t] # port[u]
    /\ phase # "running" => Busy = {}

(* The time by which the first n tries in turn are over. *)
Due(n) == 2 * kind.slice * n

(* A try that is under way ends by n, or a slice before when it has still  *)
(* to open its socket.                                                     *)
OnTime(t, n) ==
    /\ stage[t] \in {"opening", "asked"} => now <= deadline[t]
    /\ stage[t] = "opening" => deadline[t] + kind.slice <= Due(n)
    /\ stage[t] = "asked" => deadline[t] <= Due(n)

(* Tries at once: none is waiting. *)
AtOnce ==
    phase = "running" /\ kind.mode = "together" =>
        /\ \A t \in Try : stage[t] # "pending" /\ OnTime(t, 1)
        /\ now <= Due(1)

(* Tries in turn: k is the current one. *)
Current(k) ==
    /\ \A t \in Try : t < k => stage[t] = "done" /\ (kind.mode = "first" => ~Hit(t))
    /\ \A t \in Try : t > k => stage[t] = "pending"
    /\ stage[k] # "pending"
    /\ stage[k] = "done" => ~GoesOn(k)
    /\ OnTime(k, k)
    /\ now <= Due(k)

InTurn == phase = "running" /\ kind.mode # "together" => \E k \in Try : Current(k)

Reported ==
    /\ \A t \in report : Hit(t)
    /\ phase = "running" => report = {}
    /\ phase = "returned" /\ (report = {} \/ kind.mode = "all") =>
          \A t \in Try : stage[t] = "done"

IInv == Types /\ Traced /\ Sockets /\ AtOnce /\ InTurn /\ Reported /\ now <= Budget

-----------------------------------------------------------------------------
LEMMA KindFacts ==
    ASSUME kind \in Kinds
    PROVE  /\ kind.tries \in Nat \ {0} /\ kind.slice \in Nat \ {0}
           /\ kind.mode \in {"together", "first", "all"}
           /\ kind.transport \in {"udp", "tcp"} /\ kind.any \in BOOLEAN
           /\ 1 \in Try /\ \A t \in Try : t \in Nat /\ t >= 1 /\ t <= kind.tries
BY ProbesAssumption DEF KindType, Try

(* Later tries end later, and all of them within the budget. *)
LEMMA DueFacts ==
    ASSUME kind \in Kinds, NEW k \in Try
    PROVE  /\ Due(1) = 2 * kind.slice /\ Due(k) \in Nat
           /\ Due(k + 1) = Due(k) + 2 * kind.slice
           /\ kind.mode # "together" => Due(k) <= Budget
           /\ kind.mode = "together" => Due(1) = Budget
           /\ kind.slice <= Budget /\ Budget \in Nat
<1> DEFINE d == 2 * kind.slice
<1>1. d \in Nat /\ k \in Nat /\ kind.tries \in Nat /\ k <= kind.tries /\ 1 <= kind.tries
  BY KindFacts
<1>2. kind.slice <= d
  BY KindFacts
<1> HIDE DEF d
<1>3. d * k \in Nat /\ d * (k + 1) = d * k + d /\ d * 1 = d
  BY <1>1
<1>4. d * k <= d * kind.tries /\ d <= d * kind.tries /\ d * kind.tries \in Nat
  <2>1. ASSUME NEW a \in Nat, NEW b \in Nat
        PROVE  d * a \in Nat /\ d * (a + b) = d * a + d * b
    BY <1>1
  <2>2. PICK b \in Nat : kind.tries = k + b
    <3>1. kind.tries - k \in Nat /\ kind.tries = k + (kind.tries - k)
      BY <1>1
    <3>2. QED
      BY <3>1
  <2>3. PICK c \in Nat : kind.tries = 1 + c
    <3>1. kind.tries - 1 \in Nat /\ kind.tries = 1 + (kind.tries - 1)
      BY <1>1
    <3>2. QED
      BY <3>1
  <2>4. d * kind.tries = d * k + d * b /\ d * b \in Nat /\ d * k \in Nat
    BY <1>1, <2>1, <2>2
  <2>5. d * kind.tries = d * 1 + d * c /\ d * c \in Nat
    BY <2>1, <2>3
  <2>6. QED
    BY <1>1, <1>3, <2>4, <2>5
<1>5. /\ Due(1) = d * 1 /\ Due(k) = d * k /\ Due(k + 1) = d * (k + 1)
      /\ Budget = IF kind.mode = "together" THEN d * 1 ELSE d * kind.tries
  BY DEF Due, Budget, d
<1>6. QED
  BY <1>1, <1>2, <1>3, <1>4, <1>5, KindFacts DEF d

LEMMA InitInv ==
    ASSUME Init
    PROVE  IInv
<1>1. kind \in Kinds /\ 1 \in Try
  BY KindFacts DEF Init
<1>2. /\ kind.slice \in Nat /\ Due(1) = 2 * kind.slice /\ Budget \in Nat
  BY <1>1, KindFacts, DueFacts
<1>3. Types
  BY <1>1, <1>2 DEF Init, Types, Started
<1>4. Traced /\ Sockets /\ Reported
  BY DEF Init, Traced, Sockets, Reported, Busy
<1>5. \A t \in Try : OnTime(t, 1)
  BY <1>2 DEF Init, OnTime
<1>6. AtOnce
  BY <1>2, <1>5 DEF Init, AtOnce, Started
<1>7. InTurn
  <2>1. SUFFICES ASSUME kind.mode # "together" PROVE Current(1)
    BY <1>1 DEF InTurn
  <2>2. Started = {1} /\ \A t \in Try : t \in Nat /\ t >= 1
    BY <1>1, <2>1, KindFacts DEF Started
  <2>3. QED
    BY <1>1, <1>2, <1>5, <2>2 DEF Init, Current
<1>8. now <= Budget
  BY <1>2 DEF Init
<1>9. QED
  BY <1>3, <1>4, <1>6, <1>7, <1>8 DEF IInv

(* A socket is open, and its request sent. *)
LEMMA OpenedInv ==
    ASSUME IInv, NEW t \in Try, Opened(t)
    PROVE  IInv'
<1>1. Types /\ Traced /\ Sockets /\ AtOnce /\ InTurn /\ Reported /\ now <= Budget
  BY DEF IInv
<1>2. PICK p \in Port :
         /\ \A u \in Try : stage[u] = "asked" => p # port[u]
         /\ port' = [port EXCEPT ![t] = p]
  BY DEF Opened
<1>3. /\ stage[t] = "opening" /\ stage' = [stage EXCEPT ![t] = "asked"]
      /\ deadline' = [deadline EXCEPT ![t] = now + kind.slice]
      /\ UNCHANGED <<kind, device, phase, got, net, now, report>> /\ Try' = Try
  BY DEF Opened, Try
<1>4. kind \in Kinds /\ kind.slice \in Nat /\ now \in Nat /\ phase = "running"
  BY <1>1, <1>3, KindFacts DEF Types, Sockets, Busy
<1>5. Types'
  BY <1>1, <1>2, <1>3, <1>4 DEF Types
<1>6. /\ stage'[t] = "asked" /\ port'[t] = p /\ deadline'[t] = now + kind.slice
      /\ \A u \in Try \ {t} : /\ stage'[u] = stage[u] /\ port'[u] = port[u]
                              /\ deadline'[u] = deadline[u]
  BY <1>1, <1>2, <1>3 DEF Types
<1>7. Traced'
  <2>1. \A d \in net : d.of \in Try
    BY <1>1 DEF Types
  <2>2. ASSUME NEW d \in net PROVE d.port = port'[d.of] /\ d.port # None
    BY <1>1, <1>3, <1>6, <2>1 DEF Traced, Types
  <2>3. ASSUME NEW u \in Try, got[u] # None
        PROVE  \E d \in net : /\ d.content = got[u] /\ d.port = port'[u]
                              /\ kind.transport = "tcp" => d.of = u
    <3>1. u # t
      BY <1>1, <1>3, <2>3 DEF Traced
    <3>2. QED
      BY <1>1, <1>6, <2>3, <3>1 DEF Traced
  <2>4. QED
    BY <1>1, <1>3, <1>6, <2>2, <2>3 DEF Traced
<1>8. Sockets'
  BY <1>1, <1>2, <1>3, <1>4, <1>6 DEF Sockets
<1>9. \A u \in Try : \A n : Due(n)' = Due(n) /\ Hit(u)' = Hit(u) /\ GoesOn(u)' = GoesOn(u)
  BY <1>3 DEF Due, Hit, GoesOn
<1>10. ASSUME NEW n \in Try, OnTime(t, n) PROVE OnTime(t, n)'
  BY <1>1, <1>3, <1>4, <1>6, <1>10, DueFacts DEF OnTime, Types, Due
<1>11. ASSUME NEW u \in Try, NEW n \in Try, u # t, OnTime(u, n) PROVE OnTime(u, n)'
  BY <1>3, <1>6, <1>9, <1>11 DEF OnTime
<1>12. AtOnce'
  BY <1>1, <1>3, <1>4, <1>6, <1>9, <1>10, <1>11, KindFacts DEF AtOnce
<1>13. InTurn'
  BY <1>1, <1>3, <1>4, <1>6, <1>9, <1>10, <1>11, KindFacts DEF InTurn, Current
<1>14. Reported' /\ (now <= Budget)'
  BY <1>1, <1>3, <1>4, <1>9 DEF Reported, Budget, Types
<1>15. QED
  BY <1>5, <1>7, <1>8, <1>12, <1>13, <1>14 DEF IInv

(* A try receives its first reply. *)
LEMMA ReceiveInv ==
    ASSUME IInv, NEW t \in Try, Receive(t)
    PROVE  IInv'
<1>1. Types /\ Traced /\ Sockets /\ AtOnce /\ InTurn /\ Reported /\ now <= Budget
  BY DEF IInv
<1>2. PICK d \in net :
         /\ d.port = port[t]
         /\ kind.transport = "tcp" => d.of = t
         /\ got' = [got EXCEPT ![t] = d.content]
  BY DEF Receive
<1>3. /\ stage[t] = "asked" /\ got[t] = None
      /\ UNCHANGED <<kind, device, phase, stage, deadline, port, net, now, report>>
      /\ Try' = Try /\ phase = "running"
  BY <1>1 DEF Receive, Try, Sockets, Busy
<1>4. /\ d.content \in Reply /\ got'[t] = d.content
      /\ \A u \in Try \ {t} : got'[u] = got[u]
  BY <1>1, <1>2 DEF Types
<1>5. Types'
  BY <1>1, <1>2, <1>3, <1>4 DEF Types
<1>6. Traced'
  BY <1>1, <1>2, <1>3, <1>4 DEF Traced
<1>7. \A u \in Try \ {t} : Hit(u)' = Hit(u) /\ GoesOn(u)' = GoesOn(u)
  BY <1>3, <1>4 DEF Hit, GoesOn
<1>8. \A u \in Try : \A n : OnTime(u, n)' = OnTime(u, n) /\ Due(n)' = Due(n)
  BY <1>3 DEF OnTime, Due
<1>9. Sockets' /\ AtOnce' /\ (now <= Budget)'
  BY <1>1, <1>3, <1>8 DEF Sockets, AtOnce, Budget, Busy
<1>10. InTurn'
  <2>1. SUFFICES ASSUME kind.mode # "together" PROVE \E k \in Try : Current(k)'
    BY <1>3 DEF InTurn
  <2>2. PICK k \in Try : Current(k)
    BY <1>1, <1>3, <2>1 DEF InTurn
  <2>3. k \in Nat /\ t \in Nat /\ ~(t < k) /\ ~(t > k)
    BY <1>1, <1>3, <2>2, KindFacts DEF Current, Types
  <2>4. t = k
    BY <2>3
  <2>5. Current(k)'
    BY <1>3, <1>7, <1>8, <2>2, <2>3, <2>4 DEF Current
  <2>6. QED
    BY <2>5
<1>11. Reported'
  BY <1>1, <1>3 DEF Reported
<1>12. QED
  BY <1>5, <1>6, <1>9, <1>10, <1>11 DEF IInv

(* The device answers. *)
LEMMA AnswerInv ==
    ASSUME IInv, NEW t \in Try, Answer(t)
    PROVE  IInv'
<1>1. Types /\ Traced /\ Sockets /\ AtOnce /\ InTurn /\ Reported /\ now <= Budget
  BY DEF IInv
<1> DEFINE reply == [port |-> port[t], of |-> t, content |-> device[t]]
<1>2. /\ port[t] # None /\ net' = net \cup {reply}
      /\ UNCHANGED <<kind, device, phase, stage, deadline, port, got, now, report>>
      /\ Try' = Try
  BY DEF Answer, Try
<1>3. reply \in [port : Port, of : Try, content : Reply]
  BY <1>1, <1>2 DEF Types
<1>4. Types'
  BY <1>1, <1>2, <1>3 DEF Types
<1>5. Traced'
  BY <1>1, <1>2 DEF Traced
<1>6. \A u \in Try : \A n : /\ OnTime(u, n)' = OnTime(u, n) /\ Due(n)' = Due(n)
                        /\ Hit(u)' = Hit(u) /\ GoesOn(u)' = GoesOn(u)
  BY <1>2 DEF OnTime, Due, Hit, GoesOn
<1>7. Sockets' /\ Reported' /\ (now <= Budget)'
  <2>1. Busy' = Busy /\ Budget' = Budget
    BY <1>2 DEF Busy, Budget
  <2>2. \A u \in report : u \in Try
    BY <1>1 DEF Types
  <2>3. Reported'
    BY <1>1, <1>2, <1>6, <2>2 DEF Reported
  <2>4. QED
    BY <1>1, <1>2, <2>1, <2>3 DEF Sockets
<1>8. AtOnce'
  BY <1>1, <1>2, <1>6 DEF AtOnce
<1>9. \A k \in Try : Current(k) => Current(k)'
  BY <1>2, <1>6 DEF Current
<1>10. InTurn'
  BY <1>1, <1>2, <1>9 DEF InTurn
<1>11. QED
  BY <1>4, <1>5, <1>7, <1>8, <1>10 DEF IInv

(* The try under way is the current one. *)
LEMMA BusyIsCurrent ==
    ASSUME IInv, NEW t \in Busy, kind.mode # "together"
    PROVE  t \in Try /\ Current(t)
<1>1. t \in Try /\ stage[t] \in {"opening", "asked"} /\ phase = "running"
  BY DEF IInv, Sockets, Busy
<1>2. PICK k \in Try : Current(k)
  BY <1>1 DEF IInv, InTurn
<1>3. k \in Nat /\ t \in Nat /\ ~(t < k) /\ ~(t > k)
  BY <1>1, <1>2, KindFacts DEF Current, IInv, Types
<1>4. t = k
  BY <1>3
<1>5. QED
  BY <1>1, <1>2, <1>4

(* A try ends, and the next one may begin. *)
LEMMA EndTryInv ==
    ASSUME IInv, NEW t \in Try, EndTry(t)
    PROVE  IInv'
<1>1. Types /\ Traced /\ Sockets /\ AtOnce /\ InTurn /\ Reported /\ now <= Budget
  BY DEF IInv
<1>2. /\ t \in Busy /\ stage[t] \in {"opening", "asked"} /\ phase = "running"
      /\ UNCHANGED <<kind, device, phase, port, got, net, now, report>> /\ Try' = Try
  BY <1>1 DEF EndTry, Sockets, Busy, Try
<1>3. kind \in Kinds /\ kind.slice \in Nat /\ now \in Nat /\ t \in Nat
  BY <1>1, KindFacts DEF Types
<1>4. Budget' = Budget /\ (now <= Budget)'
  BY <1>1, <1>2 DEF Budget
<1>5. \A u \in Try : Hit(u)' = Hit(u) /\ GoesOn(u)' = GoesOn(u)
  BY <1>2 DEF Hit, GoesOn
<1>6. \A n : Due(n)' = Due(n)
  BY <1>2 DEF Due
<1>7. CASE GoesOn(t)
  <2>1. /\ t + 1 \in Try /\ kind.mode # "together"
        /\ kind.mode = "first" => ~Hit(t)
    BY <1>1, <1>3, <1>7, KindFacts DEF GoesOn
  <2>2. Current(t) /\ stage[t + 1] = "pending"
    BY <1>2, <1>3, <2>1, BusyIsCurrent DEF Current
  <2>3. /\ stage' = [stage EXCEPT ![t] = "done", ![t + 1] = "opening"]
        /\ deadline' = [deadline EXCEPT ![t + 1] = now + kind.slice]
    BY <1>7 DEF EndTry
  <2>4. /\ stage'[t] = "done" /\ stage'[t + 1] = "opening"
        /\ deadline'[t + 1] = now + kind.slice
        /\ \A u \in Try : u # t /\ u # t + 1 => stage'[u] = stage[u]
    BY <1>1, <1>3, <2>1, <2>3 DEF Types
  <2>5. Types'
    <3>1. stage' \in [Try -> {"pending", "opening", "asked", "done"}]
      BY <1>1, <2>3 DEF Types
    <3>2. now + kind.slice \in Nat /\ deadline \in [Try -> Nat]
      BY <1>1, <1>3 DEF Types
    <3>3. deadline' \in [Try -> Nat]
      BY <2>3, <3>2
    <3>4. QED
      BY <1>1, <1>2, <3>1, <3>3 DEF Types
  <2>6. Traced'
    BY <1>1, <1>2, <2>2, <2>4 DEF Traced
  <2>7. Sockets'
    BY <1>1, <1>2, <2>4 DEF Sockets
  <2>8. AtOnce' /\ Reported'
    BY <1>1, <1>2, <2>1 DEF AtOnce, Reported
  <2>9. OnTime(t + 1, t + 1)' /\ (now <= Due(t + 1))'
    <3>1. Due(t + 1) = Due(t) + 2 * kind.slice /\ Due(t) \in Nat /\ now <= Due(t)
      BY <1>3, <2>2, DueFacts DEF Current
    <3>2. OnTime(t + 1, t + 1)'
      BY <1>2, <1>3, <1>6, <2>4, <3>1 DEF OnTime
    <3>3. QED
      BY <1>2, <1>3, <1>6, <3>1, <3>2
  <2>10. Current(t + 1)'
    <3>1. ASSUME NEW u \in Try, u < t + 1
          PROVE  stage'[u] = "done" /\ (kind.mode = "first" => ~Hit(u))
      <4>1. u \in Nat
        BY <1>3, KindFacts
      <4>2. CASE u = t
        BY <2>1, <2>4, <4>2
      <4>3. CASE u < t
        BY <1>3, <2>2, <2>4, <4>1, <4>3 DEF Current
      <4>4. QED
        BY <1>3, <3>1, <4>1, <4>2, <4>3
    <3>2. ASSUME NEW u \in Try, u > t + 1
          PROVE  stage'[u] = "pending"
      BY <1>3, <2>2, <2>4, <3>2, KindFacts DEF Current
    <3>3. QED
      BY <1>2, <1>5, <2>4, <2>9, <3>1, <3>2 DEF Current
  <2>11. InTurn'
    BY <1>2, <2>1, <2>10 DEF InTurn
  <2>12. QED
    BY <1>4, <2>5, <2>6, <2>7, <2>8, <2>11 DEF IInv
<1>8. CASE ~GoesOn(t)
  <2>1. stage' = [stage EXCEPT ![t] = "done"] /\ deadline' = deadline
    BY <1>8 DEF EndTry
  <2>2. stage'[t] = "done" /\ \A u \in Try \ {t} : stage'[u] = stage[u]
    BY <1>1, <2>1 DEF Types
  <2>3. Types'
    BY <1>1, <1>2, <2>1 DEF Types
  <2>4. Traced' /\ Sockets' /\ Reported'
    BY <1>1, <1>2, <2>2 DEF Traced, Sockets, Reported
  <2>5. \A u \in Try : \A n : OnTime(u, n) => OnTime(u, n)'
    BY <1>2, <1>6, <2>1, <2>2 DEF OnTime
  <2>6. AtOnce'
    BY <1>1, <1>2, <1>6, <2>2, <2>5 DEF AtOnce
  <2>7. InTurn'
    <3>1. SUFFICES ASSUME kind.mode # "together" PROVE Current(t)'
      BY <1>2 DEF InTurn
    <3>2. Current(t)
      BY <1>2, <3>1, BusyIsCurrent
    <3>3. QED
      BY <1>2, <1>3, <1>5, <1>6, <1>8, <2>2, <2>5, <3>2 DEF Current
  <2>8. QED
    BY <1>4, <2>3, <2>4, <2>6, <2>7 DEF IInv
<1>9. QED
  BY <1>7, <1>8

(* The probe returns. *)
LEMMA ReturnInv ==
    ASSUME IInv, Return
    PROVE  IInv'
<1>1. Types /\ Traced /\ Sockets /\ AtOnce /\ InTurn /\ Reported /\ now <= Budget
  BY DEF IInv
<1>2. /\ phase = "running" /\ Busy = {} /\ phase' = "returned"
      /\ report' = {t \in Try : Hit(t) /\ (kind.mode = "all" \/ \A u \in 1 .. t - 1 : ~Hit(u))}
      /\ UNCHANGED <<kind, device, stage, deadline, port, got, net, now>>
      /\ Try' = Try /\ kind \in Kinds
  BY <1>1 DEF Return, Try, Types
<1>3. \A u \in Try : Hit(u)' = Hit(u)
  BY <1>2 DEF Hit
<1>4. Types' /\ Traced' /\ AtOnce' /\ InTurn' /\ (now <= Budget)'
  BY <1>1, <1>2 DEF Types, Traced, AtOnce, InTurn, Budget
<1>5. Sockets'
  BY <1>1, <1>2 DEF Sockets, Busy
<1>6. \A t \in Try : stage[t] \in {"pending", "done"}
  BY <1>1, <1>2 DEF Types, Busy
<1>7. ASSUME report' = {} \/ kind.mode = "all"
      PROVE  \A t \in Try : stage[t] = "done"
  <2>1. CASE kind.mode = "together"
    BY <1>1, <1>2, <1>6, <2>1 DEF AtOnce
  <2>2. CASE kind.mode # "together"
    <3>1. PICK k \in Try : Current(k)
      BY <1>1, <1>2, <2>2 DEF InTurn
    <3>2. stage[k] = "done" /\ ~GoesOn(k) /\ k \in Nat
      BY <1>2, <1>6, <3>1, KindFacts DEF Current
    <3>3. k + 1 \notin Try
      <4>1. CASE kind.mode = "all"
        BY <3>2, <4>1 DEF GoesOn
      <4>2. CASE kind.mode = "first"
        <5>1. \A u \in 1 .. k - 1 : ~Hit(u)
          <6>1. \A u \in 1 .. k - 1 : u \in Try /\ u < k
            BY <1>2, <3>2, KindFacts DEF Try
          <6>2. QED
            BY <3>1, <4>2, <6>1 DEF Current
        <5>2. ~Hit(k)
          BY <1>2, <1>7, <4>2, <5>1
        <5>3. QED
          BY <3>2, <4>2, <5>2 DEF GoesOn
      <4>3. QED
        BY <1>2, <2>2, <4>1, <4>2, KindFacts
    <3>4. ASSUME NEW t \in Try PROVE t = k \/ t < k
      BY <1>2, <3>2, <3>3, KindFacts DEF Try
    <3>5. QED
      BY <3>1, <3>2, <3>4 DEF Current
  <2>3. QED
    BY <2>1, <2>2
<1>8. Reported'
  BY <1>2, <1>3, <1>7 DEF Reported
<1>9. QED
  BY <1>4, <1>5, <1>8 DEF IInv

(* The caller is cancelled. *)
LEMMA CancelInv ==
    ASSUME IInv, Cancel
    PROVE  IInv'
<1>1. Types /\ Traced /\ Sockets /\ Reported /\ now <= Budget
  BY DEF IInv
<1>2. /\ phase = "running" /\ phase' = "cancelled"
      /\ stage' = [t \in Try |-> IF t \in Busy THEN "done" ELSE stage[t]]
      /\ UNCHANGED <<kind, device, deadline, port, got, net, now, report>> /\ Try' = Try
  BY DEF Cancel, Try
<1>3. Types'
  BY <1>1, <1>2 DEF Types
<1>4. \A t \in Try : stage'[t] \in {stage[t], "done"} /\ stage'[t] \notin {"opening", "asked"}
  BY <1>1, <1>2 DEF Busy
<1>5. Traced'
  BY <1>1, <1>2, <1>4 DEF Traced
<1>6. Sockets'
  BY <1>2, <1>4 DEF Sockets, Busy
<1>7. Reported' /\ AtOnce' /\ InTurn' /\ (now <= Budget)'
  BY <1>1, <1>2 DEF Reported, AtOnce, InTurn, Budget
<1>8. QED
  BY <1>3, <1>5, <1>6, <1>7 DEF IInv

(* Time passes. *)
LEMMA TickInv ==
    ASSUME IInv, Tick
    PROVE  IInv'
<1>1. Types /\ Traced /\ Sockets /\ AtOnce /\ InTurn /\ Reported /\ now <= Budget
  BY DEF IInv
<1>2. /\ \A t \in Busy : now < deadline[t]
      /\ now' = now + 1 /\ now \in Nat /\ kind \in Kinds
      /\ UNCHANGED <<kind, device, phase, stage, deadline, port, got, net, report>>
      /\ Try' = Try /\ phase = "running"
  BY <1>1 DEF Tick, Try, Types, Sockets
<1>3. PICK t \in Busy : TRUE
  BY DEF Tick
<1>4. t \in Try /\ stage[t] \in {"opening", "asked"} /\ deadline[t] \in Nat
  BY <1>1, <1>3 DEF Busy, Types
<1>5. Types' /\ Traced'
  BY <1>1, <1>2 DEF Types, Traced
<1>6. Budget' = Budget /\ Busy' = Busy /\ \A n : Due(n)' = Due(n)
  BY <1>2 DEF Budget, Busy, Due
<1>7. Sockets' /\ Reported'
  <2>1. \A u \in report : u \in Try /\ Hit(u)' = Hit(u)
    BY <1>1, <1>2 DEF Types, Hit
  <2>2. QED
    BY <1>1, <1>2, <1>6, <2>1 DEF Sockets, Reported
<1>8. ASSUME NEW u \in Try, NEW n \in Try, OnTime(u, n) PROVE OnTime(u, n)'
  <2>1. u \in Busy => now + 1 <= deadline[u]
    BY <1>1, <1>2 DEF Types
  <2>2. QED
    BY <1>2, <1>6, <1>8, <2>1 DEF OnTime, Busy
<1>9. ASSUME NEW n \in Try, OnTime(t, n) PROVE (now <= Due(n))' /\ now + 1 <= Due(n)
  <2>1. Due(n) \in Nat /\ kind.slice \in Nat
    BY <1>2, DueFacts, KindFacts
  <2>2. now < deadline[t] /\ deadline[t] <= Due(n)
    BY <1>2, <1>3, <1>4, <1>9, <2>1 DEF OnTime
  <2>3. QED
    BY <1>2, <1>4, <1>6, <2>1, <2>2
<1>10. CASE kind.mode = "together"
  <2>1. 1 \in Try /\ OnTime(t, 1)
    BY <1>1, <1>2, <1>4, <1>10, KindFacts DEF AtOnce
  <2>2. AtOnce'
    BY <1>1, <1>2, <1>8, <1>9, <2>1 DEF AtOnce
  <2>3. InTurn' /\ (now <= Budget)'
    BY <1>2, <1>6, <1>9, <1>10, <2>1, DueFacts DEF InTurn
  <2>4. QED
    BY <1>5, <1>7, <2>2, <2>3 DEF IInv
<1>11. CASE kind.mode # "together"
  <2>1. Current(t) /\ OnTime(t, t)
    BY <1>3, <1>11, BusyIsCurrent DEF Current
  <2>2. Current(t)'
    <3>1. \A u \in Try : Hit(u)' = Hit(u) /\ GoesOn(u)' = GoesOn(u)
      BY <1>2 DEF Hit, GoesOn
    <3>2. QED
      BY <1>2, <1>4, <1>8, <1>9, <2>1, <3>1 DEF Current
  <2>3. InTurn' /\ AtOnce'
    BY <1>2, <1>4, <1>11, <2>2 DEF InTurn, AtOnce
  <2>4. (now <= Budget)'
    <3>1. Due(t) \in Nat /\ Due(t) <= Budget /\ Budget \in Nat
      BY <1>2, <1>4, <1>11, DueFacts
    <3>2. QED
      BY <1>2, <1>4, <1>6, <1>9, <2>1, <3>1
  <2>5. QED
    BY <1>5, <1>7, <2>3, <2>4 DEF IInv
<1>12. QED
  BY <1>10, <1>11

LEMMA StutterInv ==
    ASSUME IInv, UNCHANGED vars
    PROVE  IInv'
<1>1. /\ UNCHANGED <<kind, device, phase, stage, deadline, port, got, net, now, report>>
      /\ Try' = Try
  BY DEF vars, Try
<1>2. /\ \A u \in Try : \A n : OnTime(u, n)' = OnTime(u, n)
      /\ \A n : Due(n)' = Due(n)
      /\ \A u \in Try : Hit(u)' = Hit(u) /\ GoesOn(u)' = GoesOn(u)
  BY <1>1 DEF OnTime, Due, Hit, GoesOn
<1>3. \A k \in Try : Current(k)' = Current(k)
  BY <1>1, <1>2 DEF Current
<1>4. Types' /\ Traced' /\ (now <= Budget)' /\ Busy' = Busy
  BY <1>1 DEF IInv, Types, Traced, Budget, Busy
<1>5. Sockets' /\ AtOnce' /\ InTurn'
  BY <1>1, <1>2, <1>3, <1>4 DEF IInv, Sockets, AtOnce, InTurn
<1>6. Reported'
  <2>1. \A u \in report : u \in Try
    BY DEF IInv, Types
  <2>2. QED
    BY <1>1, <1>2, <2>1 DEF IInv, Reported
<1>7. QED
  BY <1>4, <1>5, <1>6 DEF IInv

LEMMA Invariance == Spec => []IInv
<1>1. Init => IInv
  BY InitInv
<1>2. ASSUME IInv, [Next]_vars PROVE IInv'
  BY <1>2, OpenedInv, AnswerInv, ReceiveInv, EndTryInv, ReturnInv, CancelInv, TickInv,
     StutterInv DEF Next, Finished
<1>3. QED
  BY <1>1, <1>2, PTL DEF Spec

(* base.py:165-176: for any probe, its tries are over within their time-   *)
(* outs, two for each try made in turn; each socket has a port of its own, *)
(* and none outlives the probe.                                            *)
THEOREM TypeCorrectness == Spec => []TypeOK
<1>1. ASSUME IInv PROVE TypeOK
  <2>1. Types /\ Sockets /\ now <= Budget /\ kind \in Kinds /\ 1 \in Try
    BY <1>1, KindFacts DEF IInv, Types
  <2>2. Budget \in Nat
    BY <2>1, DueFacts
  <2>3. ASSUME NEW t \in Busy PROVE deadline[t] \in now .. Budget
    <3>1. t \in Try /\ stage[t] \in {"opening", "asked"} /\ phase = "running"
      BY <2>1 DEF Sockets, Busy
    <3>2. deadline[t] \in Nat /\ now \in Nat /\ kind.slice \in Nat
      BY <2>1, <3>1, KindFacts DEF Types
    <3>3. CASE kind.mode = "together"
      <4>1. OnTime(t, 1) /\ Due(1) = Budget
        BY <1>1, <2>1, <3>1, <3>3, DueFacts DEF IInv, AtOnce
      <4>2. QED
        BY <2>2, <3>1, <3>2, <4>1 DEF OnTime
    <3>4. CASE kind.mode # "together"
      <4>1. OnTime(t, t) /\ Due(t) <= Budget /\ Due(t) \in Nat
        BY <1>1, <2>1, <3>1, <3>4, DueFacts, BusyIsCurrent DEF Current
      <4>2. QED
        BY <2>2, <3>1, <3>2, <4>1 DEF OnTime
    <3>5. QED
      BY <3>3, <3>4
  <2>4. QED
    BY <2>1, <2>2, <2>3 DEF TypeOK, Types, Sockets
<1>2. QED
  BY <1>1, Invariance, PTL

(* snmp.py:110-146, amplification.py:103-136, ot.py:603-624: whatever the  *)
(* network loses, doubles or delays, a probe reports only what the device  *)
(* accepted, give or take the reuse of a local port; and a probe that      *)
(* found nothing has tried everything.                                     *)
THEOREM ReportsAreHonest == Spec => []ProbeHonest
<1>1. ASSUME IInv PROVE ProbeHonest
  <2>1. Types /\ Traced /\ Reported
    BY <1>1 DEF IInv
  <2>2. ASSUME NEW t \in report
        PROVE  \E u \in Try : Answered(u) /\ (u # t => kind.transport = "udp" /\ port[u] = port[t])
    <3>1. t \in Try /\ Hit(t) /\ got[t] # None
      BY <2>1 DEF Types, Reported, Hit, None
    <3>2. PICK d \in net : /\ d.content = got[t] /\ d.port = port[t]
                           /\ kind.transport = "tcp" => d.of = t
      BY <2>1, <3>1 DEF Traced
    <3>3. d.of \in Try /\ d.port = port[d.of] /\ kind.transport \in {"udp", "tcp"}
      BY <2>1, KindFacts DEF Traced, Types
    <3>4. Answered(d.of)
      BY <3>1, <3>2 DEF Answered, Hit
    <3>5. QED
      BY <3>2, <3>3, <3>4
  <2>3. QED
    BY <2>1, <2>2 DEF ProbeHonest, Reported
<1>2. QED
  BY <1>1, Invariance, PTL
=============================================================================
