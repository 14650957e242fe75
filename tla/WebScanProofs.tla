--------------------------- MODULE WebScanProofs ---------------------------
(***************************************************************************)
(* Proofs about Scope and WebScan, for any scope, targets, redirects and   *)
(* answers of the resolver, and any number of workers.                     *)
(*                                                                         *)
(* That connections are authorised is kept because each was checked when   *)
(* it was opened and the address has not changed since (Authorised).  That *)
(* nothing is left open needs to know which request a scan waits for in    *)
(* which phase (InFlightInv), and that a reached target is reported, what  *)
(* the scan knows of the server in which phase (ReachInv).                 *)
(*                                                                         *)
(* The second half of the module is about the other thing that is scanned  *)
(* from the command line without a target, the air: see Wifi below.        *)
(***************************************************************************)
EXTENDS WebScan, FiniteSetTheorems, WellFoundedInduction, TLAPS

(* The phase of a scan while one of its requests is under way. *)
Awaiting(r) == IF r \in Path THEN "dirs" ELSE r

InFlightInv ==
    \A t \in Target, r \in Request :
        request[t][r].stage \in {"hop", "open"} => phase[t] = Awaiting(r)

Authorised ==
    /\ \A t \in Target, r \in Request :
          request[t][r].stage = "open" =>
              MayContact(cfg.scope, request[t][r].url.host, request[t][r].peer,
                         request[t][r].url.port)
    /\ \A t \in Target :
          phase[t] \in {"cert", "trust", "posture"} =>
              MayContact(cfg.scope, Base(t).host, pin[t], Base(t).port)

ReachInv ==
    \A t \in Target :
        /\ phase[t] # "done" => result[t] # "reachable"
        /\ phase[t] \in {"waiting", "start", "cert"} => ~reached[t]
        /\ phase[t] = "cert" => ~cert[t]
        /\ phase[t] = "trust" => reached[t] /\ cert[t]
        /\ phase[t] = "posture" => (reached[t] <=> cert[t])
        /\ phase[t] = "get" => (reached[t] <=> cert[t] \/ request[t]["get"] = Answered)
        /\ phase[t] \in {"options", "dirs"} => reached[t]
        /\ phase[t] = "done" => (result[t] = "reachable" <=> reached[t])

IInv ==
    /\ TypeOK
    /\ InFlightInv
    /\ Authorised
    /\ ReachInv

-----------------------------------------------------------------------------
(* A check by resolve_in_scope (scope.py:82-122) covers every address of   *)
(* the answer it was given.                                                *)
THEOREM ResolvedIsAuthorised ==
    ASSUME NEW scope, NEW host, NEW ips, NEW ip \in ips, NEW port,
           ResolveInScope(scope, host, ips), ValidatePort(scope, port)
    PROVE  MayContact(scope, host, ip, port)
BY DEF ResolveInScope, ValidatePort, MayContact

(* A block that _validate_network accepts (scope.py:128-159) contains no   *)
(* address that resolve_in_scope would refuse on its own: handing nmap a   *)
(* block authorises nothing that its addresses, one by one, are not.       *)
THEOREM NetworkIsAuthorised ==
    ASSUME NEW scope, NEW network, NEW ip \in network,
           ValidateNetwork(scope, network), ip \notin scope.excludedDomains
    PROVE  ResolveInScope(scope, ip, {ip})
BY DEF ValidateNetwork, ResolveInScope, IpIsExcluded, IpIsAuthorized

-----------------------------------------------------------------------------
RequestState == Waiting \cup Connected \cup {Idle, Answered, Failed}

LEMMA RequestTypes ==
    /\ "get" \in Request /\ "options" \in Request /\ Path \subseteq Request
    /\ "get" \notin Path /\ "options" \notin Path
    /\ Awaiting("get") = "get" /\ Awaiting("options") = "options"
    /\ \A p \in Path : Awaiting(p) = "dirs"
    /\ \A r \in Request : Awaiting(r) \in {"get", "options", "dirs"}
BY WebScanAssumption DEF Request, Awaiting

LEMMA BaseType ==
    ASSUME TypeOK, NEW t \in Target
    PROVE  Base(t) \in Url
<1>1. Urls[t] \in Seq(Url) /\ attempt[t] \in 1 .. Len(Urls[t])
  BY WebScanAssumption DEF TypeOK
<1>2. QED
  BY <1>1 DEF Base

(* Changing one request. *)
LEMMA OneRequest ==
    ASSUME TypeOK, NEW t \in Target, NEW r \in Request, NEW s \in RequestState,
           request' = [request EXCEPT ![t][r] = s]
    PROVE  /\ request' \in [Target -> [Request -> RequestState]]
           /\ request'[t][r] = s
           /\ \A u \in Target, q \in Request :
                 u # t \/ q # r => request'[u][q] = request[u][q]
BY DEF TypeOK, RequestState

(* A resolver's answer consists of addresses. *)
LEMMA ResolvedType ==
    ASSUME NEW u \in Url, NEW ips \in Resolved(u.host)
    PROVE  ips \subseteq Addr
BY WebScanAssumption DEF Url, Resolved

LEMMA ValidIsAuthorised ==
    ASSUME NEW u, NEW ips, NEW ip \in ips, Valid(u, ips)
    PROVE  MayContact(cfg.scope, u.host, ip, u.port)
BY ResolvedIsAuthorised DEF Valid

-----------------------------------------------------------------------------
LEMMA InitInv == Init => IInv
<1> SUFFICES ASSUME Init
             PROVE  IInv
  OBVIOUS
<1>1. \A t \in Target : Len(Urls[t]) \in Nat \ {0}
  BY WebScanAssumption
<1>2. NoAddr \in Addr
  BY WebScanAssumption DEF NoAddr
<1>3. TypeOK
  BY <1>1, <1>2 DEF Init, TypeOK, Phase
<1>4. InFlightInv /\ Authorised
  BY DEF Init, InFlightInv, Authorised, Idle
<1>5. ReachInv
  BY DEF Init, ReachInv
<1>6. QED
  BY <1>3, <1>4, <1>5 DEF IInv

(* The end of the scan of a URL, in any way. *)
LEMMA EndScanInv ==
    ASSUME IInv, NEW t \in Target, NEW outcome \in {"none", "unreachable", "reachable"},
           EndScan(t, outcome), UNCHANGED <<cfg, pin, cert>>,
           request' \in [Target -> [Request -> RequestState]],
           reached' \in [Target -> BOOLEAN],
           \A u \in Target \ {t} : request'[u] = request[u] /\ reached'[u] = reached[u],
           \A r \in Request : request'[t][r].stage \notin {"hop", "open"},
           outcome = "reachable" <=> reached'[t]
    PROVE  IInv'
<1>1. /\ phase' \in [Target -> Phase] /\ phase'[t] \in {"start", "done"}
      /\ \A u \in Target \ {t} : phase'[u] = phase[u]
      /\ phase'[t] = "start" => outcome # "reachable"
  BY DEF IInv, TypeOK, EndScan, Phase
<1>2. /\ attempt' \in [Target -> Nat \ {0}]
      /\ \A u \in Target : attempt'[u] <= Len(Urls[u])
      /\ \A u \in Target \ {t} : attempt'[u] = attempt[u]
  <2>1. Len(Urls[t]) \in Nat /\ attempt \in [Target -> Nat \ {0}]
    BY WebScanAssumption DEF IInv, TypeOK
  <2>2. CASE attempt[t] < Len(Urls[t]) /\ attempt' = [attempt EXCEPT ![t] = @ + 1]
    <3>1. attempt[t] + 1 \in Nat \ {0} /\ attempt[t] + 1 <= Len(Urls[t])
      BY <2>1, <2>2
    <3>2. QED
      BY <2>1, <2>2, <3>1 DEF IInv, TypeOK
  <2>3. CASE attempt' = attempt
    BY <2>3 DEF IInv, TypeOK
  <2>4. QED
    BY <2>2, <2>3 DEF EndScan
<1>3. /\ result' = [result EXCEPT ![t] = outcome]
      /\ result \in [Target -> {"none", "unreachable", "reachable"}]
  BY DEF EndScan, IInv, TypeOK
<1>4. TypeOK'
  BY <1>1, <1>2, <1>3 DEF IInv, TypeOK, RequestState
<1>5. InFlightInv'
  BY <1>1 DEF IInv, InFlightInv
<1>6. Authorised'
  <2>1. ASSUME NEW u \in Target, NEW q \in Request, request'[u][q].stage = "open"
        PROVE  MayContact(cfg.scope, request'[u][q].url.host, request'[u][q].peer,
                          request'[u][q].url.port)
    BY <2>1 DEF IInv, Authorised
  <2>2. ASSUME NEW u \in Target, phase'[u] \in {"cert", "trust", "posture"}
        PROVE  u # t /\ MayContact(cfg.scope, Base(u).host, pin[u], Base(u).port)
    BY <1>1, <2>2 DEF IInv, Authorised
  <2>3. QED
    BY <1>2, <2>1, <2>2 DEF Authorised, Base
<1>7. ReachInv'
  BY <1>1, <1>3 DEF IInv, ReachInv
<1>8. QED
  BY <1>4, <1>5, <1>6, <1>7 DEF IInv

(* The same when the scan was not in the middle of a request. *)
LEMMA EndIdleScanInv ==
    ASSUME IInv, NEW t \in Target, NEW outcome \in {"none", "unreachable", "reachable"},
           EndScan(t, outcome), UNCHANGED <<cfg, pin, cert, request, reached>>,
           \A r \in Request : request[t][r].stage \notin {"hop", "open"},
           outcome = "reachable" <=> reached[t]
    PROVE  IInv'
<1>1. /\ request' \in [Target -> [Request -> RequestState]]
      /\ reached' \in [Target -> BOOLEAN]
      /\ request' = request /\ reached' = reached
  BY DEF IInv, TypeOK, RequestState
<1>2. QED
  BY <1>1, EndScanInv

(* A call of _safe_request, made in the phase that waits for it. *)
LEMMA CallInv ==
    ASSUME IInv, NEW t \in Target, NEW r \in Request, Call(t, r),
           phase' = [phase EXCEPT ![t] = Awaiting(r)],
           UNCHANGED <<cfg, attempt, result, reached>>,
           pin' \in [Target -> Addr], cert' \in [Target -> BOOLEAN],
           \A u \in Target \ {t} : pin'[u] = pin[u] /\ cert'[u] = cert[u],
           \A q \in Request \ {r} :
               request[t][q].stage \in {"hop", "open"} => Awaiting(q) = Awaiting(r),
           result[t] # "reachable",
           r = "get" => (reached[t] <=> cert'[t]),
           r # "get" => reached[t]
    PROVE  IInv'
<1> DEFINE call == [stage |-> "hop", url |-> Base(t), hops |-> 0]
<1>1. TypeOK /\ 0 \in 0 .. MaxRedirects
  BY WebScanAssumption DEF IInv
<1>2. call \in RequestState /\ call.stage = "hop" /\ call # Answered
  BY <1>1, BaseType DEF RequestState, Waiting, Answered
<1> HIDE DEF call
<1>3. /\ request' \in [Target -> [Request -> RequestState]]
      /\ request'[t][r] = call
      /\ \A u \in Target, q \in Request :
            u # t \/ q # r => request'[u][q] = request[u][q]
  <2>1. request' = [request EXCEPT ![t][r] = call]
    BY DEF Call, call
  <2>2. \A s \in RequestState :
               (request' = [request EXCEPT ![t][r] = s]) =>
                  /\ request' \in [Target -> [Request -> RequestState]]
                  /\ request'[t][r] = s
                  /\ \A u \in Target, q \in Request :
                        u # t \/ q # r => request'[u][q] = request[u][q]
    BY <1>1, OneRequest
  <2>3. QED
    BY <1>2, <2>1, <2>2
<1>4. /\ phase \in [Target -> Phase] /\ phase'[t] = Awaiting(r)
      /\ Awaiting(r) \in {"get", "options", "dirs"}
      /\ \A u \in Target \ {t} : phase'[u] = phase[u]
  BY <1>1, RequestTypes DEF TypeOK
<1>5. TypeOK'
  BY <1>1, <1>3, <1>4 DEF TypeOK, Phase, RequestState
<1>6. InFlightInv'
  BY <1>3, <1>4 DEF IInv, InFlightInv
<1>7. Authorised'
  <2>1. cfg' = cfg /\ \A u \in Target : attempt'[u] = attempt[u]
    OBVIOUS
  <2>2. ASSUME NEW u \in Target, NEW q \in Request, request'[u][q].stage = "open"
        PROVE  MayContact(cfg.scope, request'[u][q].url.host, request'[u][q].peer,
                          request'[u][q].url.port)
    BY <1>2, <1>3, <2>2 DEF IInv, Authorised
  <2>3. ASSUME NEW u \in Target, phase'[u] \in {"cert", "trust", "posture"}
        PROVE  u # t /\ MayContact(cfg.scope, Base(u).host, pin[u], Base(u).port)
    BY <1>4, <2>3 DEF IInv, Authorised
  <2>4. QED
    BY <2>1, <2>2, <2>3 DEF Authorised, Base
<1>8. ReachInv'
  <2>1. \A u \in Target \ {t} : request'[u]["get"] = request[u]["get"]
    BY <1>3, RequestTypes
  <2>2. r # "get" => Awaiting(r) # "get"
    BY RequestTypes DEF Request, Awaiting
  <2>3. QED
    BY <1>2, <1>3, <1>4, <2>1, <2>2, RequestTypes DEF IInv, ReachInv
<1>9. QED
  BY <1>5, <1>6, <1>7, <1>8 DEF IInv

(* A step of one request.  That a final response was received is recorded  *)
(* when it is.                                                             *)
LEMMA RequestInv ==
    ASSUME IInv, NEW t \in Target, NEW r \in Request, NEW s \in RequestState,
           request[t][r].stage \in {"hop", "open"},
           request' = [request EXCEPT ![t][r] = s],
           s.stage = "open" => MayContact(cfg.scope, s.url.host, s.peer, s.url.port),
           UNCHANGED <<cfg, phase, scanVars, result>>,
           s = Answered => reached' = [reached EXCEPT ![t] = TRUE],
           s # Answered => reached' = reached
    PROVE  IInv'
<1>1. /\ request' \in [Target -> [Request -> RequestState]]
      /\ request'[t][r] = s
      /\ \A u \in Target, q \in Request :
            u # t \/ q # r => request'[u][q] = request[u][q]
  <2>1. TypeOK
    BY DEF IInv
  <2>2. QED
    BY <2>1 DEF TypeOK, RequestState
<1>2. phase[t] = Awaiting(r)
  BY DEF IInv, InFlightInv
<1>3. reached \in [Target -> BOOLEAN] /\ reached' \in [Target -> BOOLEAN]
  BY DEF IInv, TypeOK
<1>4. TypeOK'
  BY <1>1, <1>3 DEF IInv, TypeOK, RequestState, scanVars
<1>5. InFlightInv'
  BY <1>1, <1>2 DEF IInv, InFlightInv
<1>6. Authorised'
  BY <1>1 DEF IInv, Authorised, Base, scanVars
<1>7. ReachInv'
  <2>1. \A u \in Target \ {t} : reached'[u] = reached[u] /\ request'[u]["get"] = request[u]["get"]
    BY <1>1, <1>3, RequestTypes
  <2>2. CASE r = "get"
    <3>1. phase[t] = "get" /\ request[t]["get"] # Answered
      BY <1>2, <2>2, RequestTypes DEF Answered
    <3>2. reached'[t] <=> (reached[t] \/ s = Answered)
      BY <1>3
    <3>3. QED
      BY <1>1, <2>1, <2>2, <3>1, <3>2 DEF IInv, ReachInv, scanVars
  <2>3. CASE r # "get"
    <3>1. phase[t] \in {"options", "dirs"}
      BY <1>2, <2>3, RequestTypes DEF Request, Awaiting
    <3>2. reached'[t] = TRUE
      BY <1>3, <3>1 DEF IInv, ReachInv
    <3>3. QED
      BY <1>1, <2>1, <3>1, <3>2 DEF IInv, ReachInv, scanVars
  <2>4. QED
    BY <2>2, <2>3
<1>8. QED
  BY <1>4, <1>5, <1>6, <1>7 DEF IInv

(* A step of the scan itself, before its GET or into the enumeration.      *)
LEMMA PhaseInv ==
    ASSUME IInv, NEW t \in Target, NEW p \in Phase \ {"get", "done"},
           phase' = [phase EXCEPT ![t] = p],
           UNCHANGED <<cfg, attempt, request, result>>,
           pin' \in [Target -> Addr], cert' \in [Target -> BOOLEAN],
           reached' \in [Target -> BOOLEAN],
           \A u \in Target \ {t} :
               pin'[u] = pin[u] /\ cert'[u] = cert[u] /\ reached'[u] = reached[u],
           \A r \in Request : request[t][r].stage \notin {"hop", "open"},
           result[t] # "reachable",
           p \in {"cert", "trust", "posture"} =>
               MayContact(cfg.scope, Base(t).host, pin'[t], Base(t).port),
           p \in {"waiting", "start", "cert"} => ~reached'[t],
           p = "cert" => ~cert'[t],
           p = "trust" => reached'[t] /\ cert'[t],
           p = "posture" => (reached'[t] <=> cert'[t]),
           p \in {"options", "dirs"} => reached'[t]
    PROVE  IInv'
<1>1. /\ phase' \in [Target -> Phase] /\ phase'[t] = p
      /\ \A u \in Target \ {t} : phase'[u] = phase[u]
  BY DEF IInv, TypeOK
<1>2. TypeOK'
  BY <1>1 DEF IInv, TypeOK
<1>3. InFlightInv'
  BY <1>1 DEF IInv, InFlightInv
<1>4. Authorised'
  <2>1. ASSUME NEW u \in Target, phase'[u] \in {"cert", "trust", "posture"}
        PROVE  MayContact(cfg.scope, Base(u).host, pin'[u], Base(u).port)
    <3>1. CASE u = t
      BY <1>1, <2>1, <3>1
    <3>2. CASE u # t
      BY <1>1, <2>1, <3>2 DEF IInv, Authorised
    <3>3. QED
      BY <3>1, <3>2
  <2>2. QED
    BY <2>1 DEF IInv, Authorised, Base
<1>5. ReachInv'
  BY <1>1 DEF IInv, ReachInv
<1>6. QED
  BY <1>2, <1>3, <1>4, <1>5 DEF IInv

LEMMA NoneInFlight ==
    ASSUME IInv, NEW t \in Target, phase[t] \notin {"get", "options", "dirs"}
    PROVE  \A r \in Request : request[t][r].stage \notin {"hop", "open"}
BY RequestTypes DEF IInv, InFlightInv

(* What a scan waits for is all it has in flight. *)
LEMMA ReturnedNoneInFlight ==
    ASSUME IInv, NEW t \in Target, NEW r \in {"get", "options"},
           phase[t] = r, request[t][r] \in {Answered, Failed}
    PROVE  \A q \in Request : request[t][q].stage \notin {"hop", "open"}
<1> SUFFICES ASSUME NEW q \in Request, request[t][q].stage \in {"hop", "open"}
             PROVE  FALSE
  OBVIOUS
<1>1. phase[t] = Awaiting(q)
  BY DEF IInv, InFlightInv
<1>2. q = r
  BY <1>1, RequestTypes DEF Request, Awaiting
<1>3. QED
  BY <1>2 DEF Answered, Failed

-----------------------------------------------------------------------------
LEMMA ScanStepInv ==
    ASSUME IInv, NEW t \in Target, ScanStep(t)
    PROVE  IInv'
<1>1. /\ TypeOK /\ ReachInv /\ Authorised
      /\ phase[t] # "done" => result[t] # "reachable"
      /\ result[t] \in {"none", "unreachable", "reachable"}
  BY DEF IInv, ReachInv, TypeOK
<1>2. CASE Begin(t)
  <2>1. "start" \in Phase \ {"get", "done"} /\ ~reached[t]
    BY <1>1, <1>2 DEF Begin, ReachInv, Phase
  <2>2. UNCHANGED <<cfg, attempt, pin, cert, request, result, reached>>
    BY <1>2 DEF Begin, scanVars
  <2>3. phase[t] = "waiting" /\ phase' = [phase EXCEPT ![t] = "start"]
    BY <1>2 DEF Begin
  <2>4. /\ pin' \in [Target -> Addr] /\ cert' \in [Target -> BOOLEAN]
        /\ reached' \in [Target -> BOOLEAN]
    BY <1>1, <2>2 DEF TypeOK
  <2>5. QED
    BY <1>1, <2>1, <2>2, <2>3, <2>4, PhaseInv, NoneInFlight
<1>3. CASE RefuseUrl(t)
  <2>1. phase[t] = "start" /\ EndScan(t, result[t]) /\ ~reached[t]
    BY <1>1, <1>3 DEF RefuseUrl, ReachInv
  <2>2. UNCHANGED <<cfg, pin, cert, request, reached>>
    BY <1>3 DEF RefuseUrl
  <2>3. QED
    BY <1>1, <2>1, <2>2, EndIdleScanInv, NoneInFlight
<1>4. CASE StartScan(t)
  <2>1. PICK ips \in Resolved(Base(t).host), ip \in Addr :
           /\ Valid(Base(t), ips)
           /\ IsFirst(ip, ips)
           /\ IF Base(t).scheme = "https"
                 THEN /\ pin' = [pin EXCEPT ![t] = ip]
                      /\ phase' = [phase EXCEPT ![t] = "cert"]
                      /\ UNCHANGED request
                 ELSE /\ phase' = [phase EXCEPT ![t] = "get"]
                      /\ Call(t, "get")
                      /\ UNCHANGED pin
    BY <1>4 DEF StartScan
  <2>2. /\ cert' = [cert EXCEPT ![t] = FALSE]
        /\ UNCHANGED <<cfg, attempt, result, reached>>
        /\ UNCHANGED <<reached>>
    BY <1>4 DEF StartScan
  <2>3. phase[t] = "start" /\ ~reached[t]
    BY <1>1, <1>4 DEF StartScan, ReachInv
  <2>4. /\ cert' \in [Target -> BOOLEAN] /\ ~cert'[t]
        /\ \A u \in Target \ {t} : cert'[u] = cert[u]
        /\ reached' \in [Target -> BOOLEAN]
    BY <1>1, <2>2 DEF TypeOK
  <2>5. CASE Base(t).scheme = "https"
    <3>1. MayContact(cfg.scope, Base(t).host, ip, Base(t).port)
      BY <2>1, ValidIsAuthorised DEF IsFirst
    <3>2. /\ pin' \in [Target -> Addr] /\ pin'[t] = ip
          /\ \A u \in Target \ {t} : pin'[u] = pin[u]
      BY <1>1, <2>1, <2>5 DEF TypeOK
    <3>3. phase' = [phase EXCEPT ![t] = "cert"] /\ UNCHANGED request
      BY <2>1, <2>5
    <3>4. "cert" \in Phase \ {"get", "done"}
      BY DEF Phase
    <3>5. QED
      BY <1>1, <2>2, <2>3, <2>4, <3>1, <3>2, <3>3, <3>4, PhaseInv, NoneInFlight
  <2>6. CASE Base(t).scheme # "https"
    <3>1. phase' = [phase EXCEPT ![t] = Awaiting("get")] /\ Call(t, "get") /\ UNCHANGED pin
      BY <2>1, <2>6, RequestTypes
    <3>2. pin' \in [Target -> Addr]
      BY <1>1, <3>1 DEF TypeOK
    <3>3. QED
      BY <1>1, <2>2, <2>3, <2>4, <3>1, <3>2, CallInv, NoneInFlight, RequestTypes
  <2>7. QED
    BY <2>5, <2>6
<1>5. CASE FetchCert(t)
  <2>1. /\ phase[t] = "cert" /\ ~reached[t]
        /\ UNCHANGED <<cfg, attempt, pin, request, result>>
        /\ MayContact(cfg.scope, Base(t).host, pin[t], Base(t).port)
    BY <1>1, <1>5 DEF FetchCert, ReachInv, Authorised
  <2>2. pin' \in [Target -> Addr]
    BY <1>1, <2>1 DEF TypeOK
  <2>3. "trust" \in Phase \ {"get", "done"} /\ "posture" \in Phase \ {"get", "done"}
    BY DEF Phase
  <2>4. CASE /\ cert' = [cert EXCEPT ![t] = TRUE]
             /\ reached' = [reached EXCEPT ![t] = TRUE]
             /\ phase' = [phase EXCEPT ![t] = "trust"]
    <3>1. /\ cert' \in [Target -> BOOLEAN] /\ cert'[t]
          /\ reached' \in [Target -> BOOLEAN] /\ reached'[t]
          /\ \A u \in Target \ {t} : cert'[u] = cert[u] /\ reached'[u] = reached[u]
      BY <1>1, <2>4 DEF TypeOK
    <3>2. QED
      BY <1>1, <2>1, <2>2, <2>3, <2>4, <3>1, PhaseInv, NoneInFlight
  <2>5. CASE phase' = [phase EXCEPT ![t] = "posture"] /\ UNCHANGED <<cert, reached>>
    <3>1. cert' \in [Target -> BOOLEAN] /\ reached' \in [Target -> BOOLEAN]
      BY <1>1, <2>5 DEF TypeOK
    <3>2. reached[t] <=> cert[t]
      BY <1>1, <2>1 DEF ReachInv
    <3>3. QED
      BY <1>1, <2>1, <2>2, <2>3, <2>5, <3>1, <3>2, PhaseInv, NoneInFlight
  <2>6. QED
    BY <1>5, <2>4, <2>5 DEF FetchCert
<1>6. CASE VerifyTrust(t)
  <2>1. /\ phase[t] = "trust" /\ reached[t] /\ cert[t]
        /\ phase' = [phase EXCEPT ![t] = "posture"]
        /\ UNCHANGED <<cfg, attempt, pin, cert, request, result, reached>>
        /\ MayContact(cfg.scope, Base(t).host, pin[t], Base(t).port)
    BY <1>1, <1>6 DEF VerifyTrust, ReachInv, Authorised, scanVars
  <2>2. /\ pin' \in [Target -> Addr] /\ cert' \in [Target -> BOOLEAN]
        /\ reached' \in [Target -> BOOLEAN]
    BY <1>1, <2>1 DEF TypeOK
  <2>3. "posture" \in Phase \ {"get", "done"}
    BY DEF Phase
  <2>4. QED
    BY <1>1, <2>1, <2>2, <2>3, PhaseInv, NoneInFlight
<1>7. CASE CheckPosture(t)
  <2>1. /\ phase[t] = "posture" /\ (reached[t] <=> cert[t])
        /\ UNCHANGED <<cfg, attempt, cert, result, reached>>
        /\ Call(t, "get")
    BY <1>1, <1>7 DEF CheckPosture, ReachInv
  <2>2. phase' = [phase EXCEPT ![t] = Awaiting("get")]
    BY <1>7, RequestTypes DEF CheckPosture
  <2>3. /\ pin' \in [Target -> Addr] /\ cert' \in [Target -> BOOLEAN]
        /\ \A u \in Target \ {t} : pin'[u] = pin[u] /\ cert'[u] = cert[u]
    <3>1. NoAddr \in Addr
      BY WebScanAssumption DEF NoAddr
    <3>2. QED
      BY <1>1, <1>7, <3>1 DEF CheckPosture, TypeOK
  <2>4. QED
    BY <1>1, <2>1, <2>2, <2>3, CallInv, NoneInFlight, RequestTypes
<1>8. CASE GetFailed(t)
  <2>1. phase[t] = "get" /\ request[t]["get"] = Failed
    BY <1>8 DEF GetFailed
  <2>2. (IF cert[t] THEN "reachable" ELSE "unreachable") = "reachable" <=> reached[t]
    BY <1>1, <2>1 DEF ReachInv, Failed, Answered
  <2>3. \A q \in Request : request[t][q].stage \notin {"hop", "open"}
    BY <2>1, ReturnedNoneInFlight
  <2>4. /\ EndScan(t, IF cert[t] THEN "reachable" ELSE "unreachable")
        /\ UNCHANGED <<cfg, pin, cert, request, reached>>
    BY <1>8 DEF GetFailed
  <2>5. CASE cert[t]
    BY <1>1, <2>2, <2>3, <2>4, <2>5, EndIdleScanInv
  <2>6. CASE ~cert[t]
    BY <1>1, <2>2, <2>3, <2>4, <2>6, EndIdleScanInv
  <2>7. QED
    BY <2>5, <2>6
<1>9. CASE GetAnswered(t)
  <2>1. /\ phase[t] = "get" /\ request[t]["get"] = Answered
        /\ UNCHANGED <<cfg, attempt, pin, cert, result, reached>>
        /\ Call(t, "options")
    BY <1>9 DEF GetAnswered, scanVars
  <2>2. phase' = [phase EXCEPT ![t] = Awaiting("options")] /\ reached[t]
    BY <1>1, <1>9, <2>1, RequestTypes DEF GetAnswered, ReachInv
  <2>3. pin' \in [Target -> Addr] /\ cert' \in [Target -> BOOLEAN]
    BY <1>1, <2>1 DEF TypeOK
  <2>4. \A q \in Request : request[t][q].stage \notin {"hop", "open"}
    BY <2>1, ReturnedNoneInFlight
  <2>5. QED
    BY <1>1, <2>1, <2>2, <2>3, <2>4, CallInv, RequestTypes
<1>10. CASE EndQuick(t)
  <2>1. /\ phase[t] = "options" /\ request[t]["options"] \in {Answered, Failed}
        /\ EndScan(t, "reachable")
        /\ UNCHANGED <<cfg, pin, cert, request, reached>>
    BY <1>10 DEF EndQuick, OptionsReturned
  <2>2. \A q \in Request : request[t][q].stage \notin {"hop", "open"}
    BY <2>1, ReturnedNoneInFlight
  <2>3. reached[t]
    BY <1>1, <2>1 DEF ReachInv
  <2>4. QED
    BY <2>1, <2>2, <2>3, EndIdleScanInv
<1>11. CASE StartDirs(t)
  <2>1. /\ phase[t] = "options" /\ request[t]["options"] \in {Answered, Failed}
        /\ phase' = [phase EXCEPT ![t] = "dirs"]
        /\ UNCHANGED <<cfg, attempt, pin, cert, request, result, reached>>
    BY <1>11 DEF StartDirs, OptionsReturned, scanVars
  <2>2. \A q \in Request : request[t][q].stage \notin {"hop", "open"}
    BY <2>1, ReturnedNoneInFlight
  <2>3. /\ pin' \in [Target -> Addr] /\ cert' \in [Target -> BOOLEAN]
        /\ reached' \in [Target -> BOOLEAN] /\ reached'[t]
    BY <1>1, <2>1 DEF TypeOK, ReachInv
  <2>4. "dirs" \in Phase \ {"get", "done"}
    BY DEF Phase
  <2>5. QED
    BY <1>1, <2>1, <2>2, <2>3, <2>4, PhaseInv
<1>12. CASE EndDeep(t)
  <2>1. /\ phase[t] = "dirs" /\ DirsOver(t) /\ EndScan(t, "reachable")
        /\ UNCHANGED <<cfg, pin, cert, request, reached>>
    BY <1>12 DEF EndDeep
  <2>2. \A q \in Request : request[t][q].stage \notin {"hop", "open"}
    <3> SUFFICES ASSUME NEW q \in Request, request[t][q].stage \in {"hop", "open"}
                 PROVE  FALSE
      OBVIOUS
    <3>1. Awaiting(q) = "dirs"
      BY <2>1 DEF IInv, InFlightInv
    <3>2. q \in Path
      BY <3>1, RequestTypes DEF Request
    <3>3. QED
      BY <2>1, <3>2 DEF DirsOver, Answered, Failed
  <2>3. reached[t]
    BY <1>1, <2>1 DEF ReachInv
  <2>4. QED
    BY <2>1, <2>2, <2>3, EndIdleScanInv
<1>13. QED
  BY <1>2, <1>3, <1>4, <1>5, <1>6, <1>7, <1>8, <1>9, <1>10, <1>11, <1>12 DEF ScanStep

(* A path of the enumeration is requested. *)
LEMMA StartDirInv ==
    ASSUME IInv, NEW t \in Target, NEW p \in Path, StartDir(t, p)
    PROVE  IInv'
<1>1. /\ phase[t] = "dirs" /\ Call(t, p)
      /\ UNCHANGED <<cfg, phase, attempt, pin, cert, result, reached>>
  BY DEF StartDir, scanVars
<1>2. p \in Request /\ p # "get" /\ Awaiting(p) = "dirs"
  BY RequestTypes
<1>3. /\ phase' = [phase EXCEPT ![t] = Awaiting(p)]
      /\ pin' \in [Target -> Addr] /\ cert' \in [Target -> BOOLEAN]
  BY <1>1, <1>2 DEF IInv, TypeOK
<1>4. result[t] # "reachable" /\ reached[t]
  BY <1>1 DEF IInv, ReachInv
<1>5. \A q \in Request : request[t][q].stage \in {"hop", "open"} => Awaiting(q) = Awaiting(p)
  BY <1>1, <1>2 DEF IInv, InFlightInv
<1>6. QED
  BY <1>1, <1>2, <1>3, <1>4, <1>5, CallInv

LEMMA RequestStepInv ==
    ASSUME IInv, NEW t \in Target, NEW r \in Request, RequestStep(t, r)
    PROVE  IInv'
<1>1. /\ request[t][r].stage \in {"hop", "open"}
      /\ reached \in [Target -> BOOLEAN]
      /\ request[t][r] \in RequestState
  BY DEF IInv, TypeOK, RequestState, RequestStep, RefuseHop, Dial, Redirect,
         TooManyRedirects, MalformedRedirect, Respond, Fail
<1>2. /\ Failed \in RequestState /\ Answered \in RequestState /\ Failed # Answered
      /\ Failed.stage # "open" /\ Answered.stage # "open"
  BY DEF RequestState, Failed, Answered
<1>3. CASE RefuseHop(t, r) \/ Fail(t, r)
  <2>1. /\ request' = [request EXCEPT ![t][r] = Failed]
        /\ UNCHANGED <<cfg, phase, scanVars, result>>
        /\ reached' = reached
    BY <1>3 DEF RefuseHop, Fail, Return
  <2>2. QED
    BY <1>1, <1>2, <2>1, RequestInv
<1>4. CASE Dial(t, r)
  <2>1. PICK ips \in Resolved(request[t][r].url.host), ip \in Addr :
           /\ Valid(request[t][r].url, ips)
           /\ IsFirst(ip, ips)
           /\ Connect(t, r, ip)
    BY <1>4 DEF Dial
  <2> DEFINE s == [stage |-> "open", url |-> request[t][r].url,
                   hops |-> request[t][r].hops, peer |-> ip]
  <2>2. /\ request[t][r].url \in Url /\ request[t][r].hops \in 0 .. MaxRedirects
        /\ request \in [Target -> [Request -> RequestState]]
    BY <1>1, <1>4 DEF Dial, IInv, TypeOK, RequestState, Waiting, Connected, Idle, Answered, Failed
  <2>3. s \in RequestState /\ s # Answered
    BY <2>2 DEF RequestState, Connected, Answered
  <2>4. s.stage = "open" => MayContact(cfg.scope, s.url.host, s.peer, s.url.port)
    BY <2>1, ValidIsAuthorised DEF IsFirst
  <2>5. request' = [request EXCEPT ![t][r] = s]
    BY <2>1, <2>2 DEF Connect
  <2>6. /\ UNCHANGED <<cfg, phase, scanVars, result>>
        /\ reached' = reached
    BY <1>4 DEF Dial
  <2> HIDE DEF s
  <2>7. QED
    BY <1>1, <2>3, <2>4, <2>5, <2>6, RequestInv
<1>5. CASE Redirect(t, r)
  <2>1. PICK u \in Locations :
           request' = [request EXCEPT ![t][r] =
                          [stage |-> "hop", url |-> u, hops |-> @.hops + 1]]
    BY <1>5 DEF Redirect
  <2> DEFINE s == [stage |-> "hop", url |-> u, hops |-> request[t][r].hops + 1]
  <2>2. /\ request[t][r].hops \in 0 .. MaxRedirects /\ request[t][r].hops < MaxRedirects
        /\ request \in [Target -> [Request -> RequestState]]
    BY <1>1, <1>5 DEF Redirect, IInv, TypeOK, RequestState, Waiting, Connected, Idle, Answered, Failed
  <2>3. s \in RequestState /\ s # Answered /\ s.stage # "open"
    BY <2>2, WebScanAssumption DEF RequestState, Waiting, Answered
  <2>4. request' = [request EXCEPT ![t][r] = s]
    BY <2>1, <2>2
  <2>5. /\ UNCHANGED <<cfg, phase, scanVars, result>>
        /\ reached' = reached
    BY <1>1, <1>5 DEF Redirect
  <2> HIDE DEF s
  <2>6. QED
    BY <1>1, <2>3, <2>4, <2>5, RequestInv
<1>6. CASE TooManyRedirects(t, r)
  <2>1. /\ request' = [request EXCEPT ![t][r] = Failed]
        /\ UNCHANGED <<cfg, phase, scanVars, result>>
        /\ reached' = reached
    BY <1>1, <1>6 DEF TooManyRedirects, Return
  <2>2. QED
    BY <1>1, <1>2, <2>1, RequestInv
<1>7. CASE Respond(t, r)
  <2>1. /\ request' = [request EXCEPT ![t][r] = Answered]
        /\ UNCHANGED <<cfg, phase, scanVars, result>>
        /\ reached' = [reached EXCEPT ![t] = TRUE]
    BY <1>1, <1>7 DEF Respond, Return
  <2>2. QED
    BY <1>1, <1>2, <2>1, RequestInv
<1>8. CASE MalformedRedirect(t, r)
  <2>1. /\ request' = [request EXCEPT ![t][r] = Failed]
        /\ UNCHANGED <<cfg, pin, cert>>
    BY <1>1, <1>8 DEF MalformedRedirect, Return
  <2>2. CASE r = "get"
    <3>1. EndScan(t, result[t]) /\ reached' = [reached EXCEPT ![t] = FALSE]
      BY <1>8, <2>2 DEF MalformedRedirect
    <3>2. /\ request' \in [Target -> [Request -> RequestState]]
          /\ request'[t][r] = Failed
          /\ \A u \in Target, q \in Request :
                u # t \/ q # r => request'[u][q] = request[u][q]
          /\ \A u \in Target \ {t} : request'[u] = request[u]
      <4>1. TypeOK /\ request \in [Target -> [Request -> RequestState]]
        BY DEF IInv, TypeOK, RequestState
      <4>2. \A u \in Target \ {t} : request'[u] = request[u]
        BY <2>1, <4>1
      <4>3. QED
        BY <1>2, <2>1, <4>1, <4>2, OneRequest
    <3>3. phase[t] = "get"
      BY <1>1, <2>2, RequestTypes DEF IInv, InFlightInv
    <3>4. \A q \in Request : request'[t][q].stage \notin {"hop", "open"}
      <4> SUFFICES ASSUME NEW q \in Request, request'[t][q].stage \in {"hop", "open"}
                   PROVE  FALSE
        OBVIOUS
      <4>1. q # r
        BY <3>2 DEF Failed
      <4>2. Awaiting(q) = "get"
        BY <3>2, <3>3, <4>1 DEF IInv, InFlightInv
      <4>3. QED
        BY <2>2, <4>1, <4>2, RequestTypes DEF Request, Awaiting
    <3>5. /\ result[t] \in {"none", "unreachable", "reachable"}
          /\ result[t] # "reachable"
      BY <3>3 DEF IInv, TypeOK, ReachInv
    <3>6. /\ reached' \in [Target -> BOOLEAN] /\ ~reached'[t]
          /\ \A u \in Target \ {t} : reached'[u] = reached[u]
      BY <1>1, <3>1
    <3>7. result[t] = "reachable" <=> reached'[t]
      BY <3>5, <3>6
    <3>8. EndScan(t, result[t])
      BY <3>1
    <3>9. QED
      BY <2>1, <3>2, <3>4, <3>5, <3>6, <3>7, <3>8, EndScanInv
  <2>3. CASE r # "get"
    <3>1. UNCHANGED <<cfg, phase, scanVars, result>> /\ reached' = reached
      BY <1>8, <2>3 DEF MalformedRedirect, scanVars
    <3>2. QED
      BY <1>1, <1>2, <2>1, <3>1, RequestInv
  <2>4. QED
    BY <2>2, <2>3
<1>9. QED
  BY <1>3, <1>4, <1>5, <1>6, <1>7, <1>8 DEF RequestStep

LEMMA StepInv == IInv /\ [Next]_vars => IInv'
<1> SUFFICES ASSUME IInv, [Next]_vars
             PROVE  IInv'
  OBVIOUS
<1>1. ASSUME NEW t \in Target, Step(t)
      PROVE  IInv'
  BY <1>1, ScanStepInv, StartDirInv, RequestStepInv DEF Step
<1>2. CASE UNCHANGED vars
  BY <1>2 DEF vars, scanVars, IInv, TypeOK, InFlightInv, Authorised, Base, ReachInv
<1>3. QED
  BY <1>1, <1>2 DEF Next, Finished

LEMMA Invariance == Spec => []IInv
BY InitInv, StepInv, PTL DEF Spec

-----------------------------------------------------------------------------
(* Every variable keeps its type; in particular the attempt under way is   *)
(* always one of the target's URLs, and no request follows more redirects  *)
(* than max_redirects (scanner.py:318-322).                                *)
THEOREM TypeCorrectness == Spec => []TypeOK
<1>1. IInv => TypeOK
  BY DEF IInv
<1>2. QED
  BY <1>1, Invariance, PTL

(* Whatever the resolver answers and wherever redirects lead, a connection *)
(* goes only to an address and a port that the scope authorises.           *)
THEOREM ConnectionsAreAuthorised == Spec => []OnlyAuthorised
<1>1. IInv => OnlyAuthorised
  <2> SUFFICES ASSUME IInv, NEW t \in Target, NEW c \in Connections(t)
               PROVE  MayContact(cfg.scope, c.host, c.ip, c.port)
    BY DEF OnlyAuthorised
  <2>1. CASE \E r \in Request :
                /\ request[t][r].stage = "open"
                /\ c = [host |-> request[t][r].url.host, ip |-> request[t][r].peer,
                         port |-> request[t][r].url.port]
    BY <2>1 DEF IInv, Authorised
  <2>2. CASE /\ phase[t] \in {"cert", "trust", "posture"}
             /\ c = [host |-> Base(t).host, ip |-> pin[t], port |-> Base(t).port]
    BY <2>2 DEF IInv, Authorised
  <2>3. QED
    BY <2>1, <2>2 DEF Connections
<1>2. QED
  BY <1>1, Invariance, PTL

(* A target whose server answered is reported as reachable, and no other.  *)
THEOREM ReachabilityIsReported == Spec => []ReachedIsReported
<1>1. IInv => ReachedIsReported
  BY DEF IInv, ReachInv, ReachedIsReported
<1>2. QED
  BY <1>1, Invariance, PTL

(* No request outlives the scan that made it. *)
THEOREM RequestsAreOver == Spec => []NothingLeftOpen
<1>1. IInv => NothingLeftOpen
  BY RequestTypes DEF IInv, InFlightInv, NothingLeftOpen
<1>2. QED
  BY <1>1, Invariance, PTL

-----------------------------------------------------------------------------
(***************************************************************************)
(* Wireless, for any access points, stations and signals, any machine and  *)
(* command line, and any number of sightings.                              *)
(*                                                                         *)
(* Truthful says what every source's reading of an access point has right, *)
(* whatever it is told afterwards.  FirstOf and Strongest are the places   *)
(* of InventoryFaithful's values in the history: a field that fills up     *)
(* names the sighting it was taken from, so that one more sighting either  *)
(* changes nothing or is itself the one named.  Entries carry their own    *)
(* key (Holds), without which two of a name could be one of them twice.    *)
(***************************************************************************)
CONSTANTS Commands, Radios, Stations, Broadcast, Signals, BleDevices, MaxPairs, MaxSeen

VARIABLES config, pc, child, frames, aps, pairs, source, inventory, told, report

Wifi == INSTANCE Wireless

Source == {"capture"} \cup Wifi!Tool \cup Wifi!Format

Encryption == {"open", "owe", "wep", "wpa", "wpa2", "wpa2/wpa3", "wpa3"}

Fields ==
    {"bssid", "ssid", "band", "encryption", "cipher", "auth", "wps", "signal", "clients",
     "place", "source", "issues"}

IsAp(ap) ==
    /\ ap = [f \in Fields |-> ap[f]]
    /\ ap.encryption \in Encryption /\ ap.wps \in BOOLEAN /\ ap.signal \in Int

(* What each source's parser may make of an access point.                  *)
ParsedBy(from, r, wording, signal, place, withheld) ==
    CASE from = "capture"  -> {Wifi!ApFromFrame(r, signal)}
      [] from = "nmcli"    -> {Wifi!ApFromNmcliRow(r, signal)}
      [] from = "iw"       -> {Wifi!ApFromIwBlock(r, signal)}
      [] from = "profiler" -> Wifi!ApsFromAirportNet(r, signal, withheld)
      [] from \in Wifi!Format -> Wifi!ApsFromExport(from, r, signal, place, wording)

ParsedFrom(from, r, wording) ==
    UNION {ParsedBy(from, r, wording, signal, place, withheld) :
              signal \in Signals, place \in {"none", "exact"}, withheld \in BOOLEAN}

ApSet ==
    UNION {ParsedFrom(from, r, wording) :
              from \in Source, r \in Radios, wording \in Wifi!Wording}

Sighting == [source : Source, radio : Radios, wording : Wifi!Wording, ap : ApSet]

(* What every sighting tells truly of its access point.                    *)
Truthful(s) ==
    LET r == s.radio
    IN  /\ IsAp(s.ap) /\ s.ap.clients = {}
        /\ s.source = "capture" => s.ap.bssid = r.mac
        /\ ~(s.source = "profiler" /\ r.mode = "owe") =>
              s.ap.encryption \in Wifi!ShownAs(s)
        /\ s.source \in {"nmcli", "iw"} \cup Wifi!Format => s.ap.cipher = Wifi!Ciphers(r)
        /\ s.source \in Wifi!Tool => s.ap.band = Wifi!TrueBand(r)

IsTold(S) == S \in Seq(Sighting) /\ \A i \in DOMAIN S : Truthful(S[i])

Seen(S, key) ==
    {i \in DOMAIN S : ~Wifi!Anonymous(S[i].ap) /\ Wifi!Key(S[i].ap) = key}

(* A value is the field's in the first of these sightings in which it is   *)
(* not empty, or in the first of them if it is empty in all.               *)
FirstOf(v, f, S, seen, empty) ==
    \E m \in seen :
        /\ v = S[m].ap[f]
        /\ \/ v \notin empty /\ \A j \in seen : j < m => S[j].ap[f] \in empty
           \/ v \in empty /\ \A j \in seen : m <= j /\ S[j].ap[f] \in empty

(* A signal is the strongest of these sightings that measured one.         *)
Strongest(v, S, seen) ==
    \/ v = 0 /\ \A i \in seen : S[i].ap.signal = 0
    \/ /\ v # 0 /\ \E i \in seen : S[i].ap.signal = v
       /\ \A i \in seen : S[i].ap.signal = 0 \/ S[i].ap.signal <= v

(* The properties a beacon or a row gives, or does not know.               *)
Property == DOMAIN Wifi!Unknown

Collected(e, S, seen) ==
    /\ FirstOf(e.ssid, "ssid", S, seen, {""})
    /\ Strongest(e.signal, S, seen)
    /\ \A f \in Property : FirstOf(e[f], f, S, seen, {})

Merged(e, S, seen) ==
    /\ FirstOf(e.ssid, "ssid", S, seen, {""})
    /\ Strongest(e.signal, S, seen)
    /\ \A f \in Property : FirstOf(e[f], f, S, seen, {Wifi!Unknown[f]})
    /\ e.clients = {}

Linked(P, bssid) ==
    {s \in (Stations \cup Wifi!Macs) \ {Broadcast} : \E p \in P : {p[1], p[2]} = {bssid, s}}

(* What a collector holds after the beacons F.                             *)
Holding(A, F) ==
    /\ IsTold(F) /\ \A i \in DOMAIN F : F[i].source = "capture"
    /\ IsFiniteSet(DOMAIN A)
    /\ DOMAIN A = {F[i].radio.mac : i \in DOMAIN F}
    /\ \A b \in DOMAIN A :
          IsAp(A[b]) /\ A[b].bssid = b /\ Collected(A[b], F, Seen(F, <<"bssid", b>>))

CollectorInv == Holding(aps, frames)

AnonKeys(n) == {<<"anon", j>> : j \in 0 .. n - 1}

Unnamed(S) == {i \in DOMAIN S : Wifi!Anonymous(S[i].ap)}

Live(S) == \E i \in DOMAIN S : S[i].source = "capture"

(* What an inventory holds after sightings S; n of them have no name.      *)
KeysOf(S) == {Wifi!Key(S[i].ap) : i \in DOMAIN S \ Unnamed(S)}

Holds(inv, S) ==
    /\ DOMAIN inv = {"access_points", "anon", "ble_devices"}
    /\ inv.anon \in Nat
    /\ IsFiniteSet(DOMAIN inv.access_points)
    /\ Cardinality(Unnamed(S)) = inv.anon
    /\ DOMAIN inv.access_points = KeysOf(S) \cup AnonKeys(inv.anon)
    /\ \A k \in DOMAIN inv.access_points :
          LET e == inv.access_points[k]
          IN  IsAp(e) /\ (e.bssid # Wifi!NoMac => k = <<"bssid", e.bssid>>)

HoldsMerged(inv, S) ==
    \A k \in DOMAIN inv.access_points :
       Seen(S, k) # {} => Merged(inv.access_points[k], S, Seen(S, k))

HoldsCollected(inv, S, P) ==
    \A k \in DOMAIN inv.access_points :
       LET e == inv.access_points[k]
       IN  Seen(S, k) # {} => Collected(e, S, Seen(S, k)) /\ e.clients = Linked(P, e.bssid)

InventoryInv ==
    /\ Holds(inventory, told)
    /\ IF Live(told) THEN HoldsCollected(inventory, told, pairs) ELSE HoldsMerged(inventory, told)

HoldsAssessed(inv) ==
    \A k \in DOMAIN inv.access_points :
       inv.access_points[k].issues = Wifi!Assess(inv.access_points[k])

TwinsIn(es, e) ==
    {o \in Wifi!Range(es) : o.ssid = e.ssid /\ o.bssid # Wifi!NoMac /\ o.bssid # e.bssid}

Differ(o, q) == o.encryption # q.encryption \/ Wifi!OUI(o.bssid) # Wifi!OUI(q.bssid)

SuspiciousIn(es, e) ==
    /\ e.ssid # "" /\ e.bssid # Wifi!NoMac
    /\ \E o \in TwinsIn(es, e), q \in TwinsIn(es, e) \cup {e} : Differ(o, q)

HoldsNoted(inv) ==
    \A k \in DOMAIN inv.access_points :
       LET e == inv.access_points[k]
       IN  /\ e.issues \ Wifi!Notes(e) = Wifi!Assess(e)
           /\ Wifi!Cardinality(Wifi!Notes(e)) =
                 IF SuspiciousIn(inv.access_points, e) THEN 1 ELSE 0

IssuesInv ==
    /\ pc \in {"capture", "adding", "detect"} \cup Wifi!Tool => HoldsAssessed(inventory)
    /\ Wifi!Built /\ pc # "detect" => HoldsNoted(inventory)

StageInv ==
    /\ config \in Commands
    /\ pc \in {"capture", "adding", "detect", "ble", "report", "done"} \cup Wifi!Tool
    /\ child \in {"none", "running", "ok", "failed", "killed"}
    /\ child # "none" => pc \in config.tools /\ (pc = "iw" => config.root)
    /\ pairs \subseteq (Stations \cup {Broadcast} \cup Wifi!Macs)
                          \X (Stations \cup {Broadcast} \cup Wifi!Macs)
    /\ source \in {"none"} \cup Wifi!Tool \cup Wifi!Format
    /\ pc = "capture" => config.monitor
    /\ pc # "capture" => frames = <<>>
    /\ config.command = "ble" => pc \in {"ble", "done"}
    /\ pc \in {"capture"} \cup Wifi!Tool => told = <<>>
    /\ pc = "adding" => source # "none" /\ \A i \in DOMAIN told : told[i].source = source
    /\ IsTold(told) /\ \A i, j \in DOMAIN told : told[i].source = told[j].source

(* Nothing happens once the report is written.                             *)
ReportInv == pc = "done" /\ config.command # "ble" => Wifi!ReportFaithful

WirelessInv == StageInv /\ CollectorInv /\ InventoryInv /\ IssuesInv /\ ReportInv

-----------------------------------------------------------------------------
(* What the parsers make of an access point.                               *)
LEMMA FirstInAt ==
    ASSUME NEW order, NEW words, NEW n \in Nat, DOMAIN order = 1 .. n, NEW i \in 1 .. n,
           order[i] \in words, \A j \in 1 .. (i - 1) : order[j] \notin words
    PROVE  Wifi!FirstIn(order, words) = order[i]
<1> DEFINE hits == {j \in DOMAIN order : order[j] \in words}
<1>1. i \in hits /\ \A j \in hits : i <= j
  OBVIOUS
<1>2. hits \subseteq Nat
  OBVIOUS
<1> HIDE DEF hits
<1>3. \A x \in hits : (\A y \in hits : x <= y) <=> x = i
  BY <1>1, <1>2
<1>4. Wifi!Min(hits) = i
  BY <1>1, <1>3 DEF Wifi!Min
<1> QED
  BY <1>1, <1>4 DEF Wifi!FirstIn, hits

LEMMA FirstInNone ==
    ASSUME NEW order, NEW words, \A j \in DOMAIN order : order[j] \notin words
    PROVE  Wifi!FirstIn(order, words) = ""
BY DEF Wifi!FirstIn

LEMMA TokenFacts ==
    ASSUME NEW tokens
    PROVE  Wifi!EncryptionOfTokens(tokens) =
              IF "WEP" \in tokens THEN "wep"
              ELSE IF "OWE" \in tokens THEN "owe"
              ELSE IF "WPA3" \in tokens THEN "wpa3"
              ELSE IF "WPA2" \in tokens THEN "wpa2"
              ELSE IF "WPA1" \in tokens THEN "wpa" ELSE "open"
<1> DEFINE order == <<"WEP", "OWE", "WPA3", "WPA2", "WPA1">>
           first == Wifi!FirstIn(order, tokens)
<1>1. /\ DOMAIN order = 1 .. 5
      /\ order[1] = "WEP" /\ order[2] = "OWE" /\ order[3] = "WPA3"
      /\ order[4] = "WPA2" /\ order[5] = "WPA1"
  OBVIOUS
<1>2. Wifi!EncryptionOfTokens(tokens) =
         IF first = "" THEN "open"
         ELSE [WEP |-> "wep", OWE |-> "owe", WPA3 |-> "wpa3", WPA2 |-> "wpa2",
               WPA1 |-> "wpa"][first]
  BY DEF Wifi!EncryptionOfTokens
<1> HIDE DEF order
<1>3. ASSUME NEW i \in 1 .. 5, order[i] \in tokens, \A j \in 1 .. (i - 1) : order[j] \notin tokens
      PROVE  first = order[i]
  BY <1>1, <1>3, FirstInAt
<1>4. (\A j \in 1 .. 5 : order[j] \notin tokens) => first = ""
  BY <1>1, FirstInNone
<1> HIDE DEF first
<1>5. CASE "WEP" \in tokens
  <2>1. first = "WEP"
    BY <1>1, <1>3, <1>5
  <2> QED
    BY <1>2, <1>5, <2>1
<1>6. CASE "WEP" \notin tokens /\ "OWE" \in tokens
  <2>1. first = "OWE"
    BY <1>1, <1>3, <1>6
  <2> QED
    BY <1>2, <1>6, <2>1
<1>7. CASE "WEP" \notin tokens /\ "OWE" \notin tokens /\ "WPA3" \in tokens
  <2>1. first = "WPA3"
    BY <1>1, <1>3, <1>7
  <2> QED
    BY <1>2, <1>7, <2>1
<1>8. CASE /\ "WEP" \notin tokens /\ "OWE" \notin tokens /\ "WPA3" \notin tokens
           /\ "WPA2" \in tokens
  <2>1. first = "WPA2"
    BY <1>1, <1>3, <1>8
  <2> QED
    BY <1>2, <1>8, <2>1
<1>9. CASE /\ "WEP" \notin tokens /\ "OWE" \notin tokens /\ "WPA3" \notin tokens
           /\ "WPA2" \notin tokens /\ "WPA1" \in tokens
  <2>1. first = "WPA1"
    BY <1>1, <1>3, <1>9
  <2> QED
    BY <1>2, <1>9, <2>1
<1>10. CASE /\ "WEP" \notin tokens /\ "OWE" \notin tokens /\ "WPA3" \notin tokens
            /\ "WPA2" \notin tokens /\ "WPA1" \notin tokens
  <2>1. \A j \in 1 .. 5 : order[j] \notin tokens
    BY <1>1, <1>10
  <2> QED
    BY <1>2, <1>4, <1>10, <2>1
<1> QED
  BY <1>5, <1>6, <1>7, <1>8, <1>9, <1>10

(* The key managements of each mode.                                       *)
LEMMA SuiteFacts ==
    ASSUME NEW r, r.mode \in Wifi!Mode
    PROVE  /\ Wifi!Akms(r) =
                 CASE r.mode \in {"wpa+wpa2", "wpa2"} -> {"PSK"}
                   [] r.mode = "wpa2/wpa3" -> {"PSK", "SAE"}
                   [] r.mode = "wpa3"      -> {"SAE"}
                   [] r.mode = "owe"       -> {"OWE"}
                   [] r.mode = "802.1X"    -> {"802.1X"}
                   [] r.mode \in {"open", "wep", "wpa"} -> {}
           /\ Wifi!HasRsn(r) <=> r.mode \notin {"open", "wep", "wpa"}
<1>1. r.mode \in {"open", "owe", "wep", "wpa", "wpa+wpa2", "wpa2", "802.1X", "wpa2/wpa3", "wpa3"}
  BY DEF Wifi!Mode
<1>2. CASE r.mode \in {"wpa+wpa2", "wpa2"}
  <2>1. Wifi!AkmSuites(r) = <<"PSK">>
    BY <1>2 DEF Wifi!AkmSuites
  <2>2. Wifi!Akms(r) = {"PSK"}
    BY <2>1 DEF Wifi!Akms, Wifi!Range
  <2> QED
    BY <1>2, <2>1, <2>2 DEF Wifi!HasRsn
<1>3. CASE r.mode = "wpa2/wpa3"
  <2>1. Wifi!AkmSuites(r) = <<"PSK", "SAE">>
    BY <1>3 DEF Wifi!AkmSuites
  <2>2. Wifi!Akms(r) = {"PSK", "SAE"}
    BY <2>1 DEF Wifi!Akms, Wifi!Range
  <2> QED
    BY <1>3, <2>1, <2>2 DEF Wifi!HasRsn
<1>4. CASE r.mode = "wpa3"
  <2>1. Wifi!AkmSuites(r) = <<"SAE">>
    BY <1>4 DEF Wifi!AkmSuites
  <2>2. Wifi!Akms(r) = {"SAE"}
    BY <2>1 DEF Wifi!Akms, Wifi!Range
  <2> QED
    BY <1>4, <2>1, <2>2 DEF Wifi!HasRsn
<1>5. CASE r.mode = "owe"
  <2>1. Wifi!AkmSuites(r) = <<"OWE">>
    BY <1>5 DEF Wifi!AkmSuites
  <2>2. Wifi!Akms(r) = {"OWE"}
    BY <2>1 DEF Wifi!Akms, Wifi!Range
  <2> QED
    BY <1>5, <2>1, <2>2 DEF Wifi!HasRsn
<1>6. CASE r.mode = "802.1X"
  <2>1. Wifi!AkmSuites(r) = <<"802.1X">>
    BY <1>6 DEF Wifi!AkmSuites
  <2>2. Wifi!Akms(r) = {"802.1X"}
    BY <2>1 DEF Wifi!Akms, Wifi!Range
  <2> QED
    BY <1>6, <2>1, <2>2 DEF Wifi!HasRsn
<1>7. CASE r.mode \in {"open", "wep", "wpa"}
  <2>1. Wifi!AkmSuites(r) = <<>>
    BY <1>7 DEF Wifi!AkmSuites
  <2>2. Wifi!Akms(r) = {}
    BY <2>1 DEF Wifi!Akms, Wifi!Range
  <2> QED
    BY <1>7, <2>1, <2>2 DEF Wifi!HasRsn
<1> QED
  BY <1>1, <1>2, <1>3, <1>4, <1>5, <1>6, <1>7

(* The encryption that frames, nmcli and system_profiler, and exports show. *)
LEMMA ElementsFacts ==
    ASSUME NEW r, r.mode \in Wifi!Mode
    PROVE  /\ Wifi!EncryptionOfElements(r) \in Wifi!Configured(r)
           /\ Wifi!EncryptionOfElements(r) \in Encryption
<1>1. r.mode \in {"open", "owe", "wep", "wpa", "wpa+wpa2", "wpa2", "802.1X", "wpa2/wpa3", "wpa3"}
  BY DEF Wifi!Mode
<1>2. Wifi!EncryptionOfElements(r) =
         CASE r.mode \in {"wpa2/wpa3", "wpa3"} -> "wpa3"
           [] r.mode = "owe" -> "owe"
           [] r.mode \in {"wpa+wpa2", "wpa2", "802.1X"} -> "wpa2"
           [] r.mode = "wpa" -> "wpa"
           [] r.mode = "wep" -> "wep"
           [] r.mode = "open" -> "open"
  BY <1>1, SuiteFacts DEF Wifi!EncryptionOfElements, Wifi!HasWpa, Wifi!Privacy
<1> QED
  BY <1>1, <1>2 DEF Wifi!Configured, Encryption

LEMMA TokensFacts ==
    ASSUME NEW r, r.mode \in Wifi!Mode
    PROVE  LET tokens == Wifi!SecurityTokens(r)
           IN  /\ "WEP" \in tokens <=> r.mode = "wep"
               /\ "OWE" \in tokens <=> r.mode = "owe"
               /\ "WPA3" \in tokens <=> r.mode \in {"wpa2/wpa3", "wpa3"}
               /\ "WPA2" \in tokens <=> r.mode \in {"wpa+wpa2", "wpa2", "802.1X", "wpa2/wpa3"}
               /\ "WPA1" \in tokens <=> r.mode \in {"wpa", "wpa+wpa2"}
               /\ tokens \subseteq {"WPA1", "WPA2", "WPA3", "OWE", "WEP", "802.1X"}
               /\ tokens = {} <=> r.mode = "open"
<1>1. r.mode \in {"open", "owe", "wep", "wpa", "wpa+wpa2", "wpa2", "802.1X", "wpa2/wpa3", "wpa3"}
  BY DEF Wifi!Mode
<1> DEFINE tokens == Wifi!SecurityTokens(r)
<1>2. /\ "WPA1" \in tokens <=> Wifi!HasWpa(r)
      /\ "WPA2" \in tokens <=> Wifi!Akms(r) \cap {"PSK", "802.1X"} # {}
      /\ "WPA3" \in tokens <=> "SAE" \in Wifi!Akms(r)
      /\ "WEP" \in tokens <=> Wifi!Privacy(r) /\ ~Wifi!HasRsn(r) /\ ~Wifi!HasWpa(r)
      /\ "OWE" \in tokens <=> "OWE" \in Wifi!Akms(r)
      /\ "802.1X" \in tokens <=> "802.1X" \in Wifi!Akms(r)
      /\ tokens \subseteq {"WPA1", "WPA2", "WPA3", "OWE", "WEP", "802.1X"}
  BY DEF Wifi!SecurityTokens
<1> HIDE DEF tokens
<1>3. /\ "WEP" \in tokens <=> r.mode = "wep"
      /\ "OWE" \in tokens <=> r.mode = "owe"
      /\ "WPA3" \in tokens <=> r.mode \in {"wpa2/wpa3", "wpa3"}
      /\ "WPA2" \in tokens <=> r.mode \in {"wpa+wpa2", "wpa2", "802.1X", "wpa2/wpa3"}
      /\ "WPA1" \in tokens <=> r.mode \in {"wpa", "wpa+wpa2"}
      /\ "802.1X" \in tokens <=> r.mode = "802.1X"
  BY <1>1, <1>2, SuiteFacts DEF Wifi!HasWpa, Wifi!Privacy
<1>4. tokens = {} <=> r.mode = "open"
  BY <1>1, <1>2, <1>3
<1> QED
  BY <1>2, <1>3, <1>4 DEF tokens

LEMMA FrequencyFacts ==
    ASSUME NEW freq \in Wifi!Frequency
    PROVE  /\ Wifi!BandFromFreq(freq) # ""
           /\ \A r : r.freq = freq => Wifi!BandFromFreq(freq) = Wifi!TrueBand(r)
<1>1. freq \in Int
  BY DEF Wifi!Frequency
<1>2. \/ freq \in 2412 .. 2472 \/ freq = 2484
      \/ freq \in 5160 .. 5885 \/ freq \in 5955 .. 7115
  BY DEF Wifi!Frequency
<1>3. \/ 2412 <= freq /\ freq <= 2484
      \/ 5160 <= freq /\ freq <= 5885
      \/ 5955 <= freq /\ freq <= 7115
  BY <1>1, <1>2
<1>4. \/ 2412 <= freq /\ freq <= 2484 /\ Wifi!BandFromFreq(freq) = "2.4GHz"
      \/ 5160 <= freq /\ freq <= 5885 /\ Wifi!BandFromFreq(freq) = "5GHz"
      \/ 5955 <= freq /\ freq <= 7115 /\ Wifi!BandFromFreq(freq) = "6GHz"
  BY <1>1, <1>3 DEF Wifi!BandFromFreq
<1>5. Wifi!BandFromFreq(freq) # ""
  <2>1. \/ Wifi!BandFromFreq(freq) = "2.4GHz" \/ Wifi!BandFromFreq(freq) = "5GHz"
        \/ Wifi!BandFromFreq(freq) = "6GHz"
    BY <1>4
  <2> QED
    BY ONLY <2>1
<1>6. Wifi!BandFromFreq(freq) =
         CASE freq < 3000 -> "2.4GHz"
           [] 3000 <= freq /\ freq < 5950 -> "5GHz"
           [] 5950 <= freq -> "6GHz"
  BY <1>1, <1>4
<1>7. ASSUME NEW r, r.freq = freq
      PROVE  Wifi!BandFromFreq(freq) = Wifi!TrueBand(r)
  BY <1>6, <1>7 DEF Wifi!TrueBand
<1> QED
  BY <1>5, <1>7

LEMMA BandFacts ==
    ASSUME NEW r, r.freq \in Wifi!Frequency, NEW channel
    PROVE  Wifi!Band(r.freq, channel) = Wifi!TrueBand(r)
BY FrequencyFacts DEF Wifi!Band

LEMMA AccessPointFacts ==
    ASSUME NEW bssid, NEW ssid, NEW band, NEW encryption \in Encryption, NEW cipher, NEW auth,
           NEW wps \in BOOLEAN, NEW signal \in Int, NEW place, NEW from,
           NEW ap, ap = Wifi!AccessPoint(bssid, ssid, band,
                            Wifi!Security(encryption, cipher, auth, wps), signal, place, from)
    PROVE  /\ IsAp(ap) /\ ap.clients = {} /\ ap.bssid = bssid /\ ap.ssid = ssid
           /\ ap.band = band /\ ap.encryption = encryption /\ ap.cipher = cipher
<1>1. ap = [bssid |-> bssid, ssid |-> ssid, band |-> band, encryption |-> encryption,
            cipher |-> cipher, auth |-> auth, wps |-> wps, signal |-> signal, clients |-> {},
            place |-> place, source |-> from, issues |-> {}]
  BY DEF Wifi!AccessPoint, Wifi!Security
<1>2. ap = [f \in Fields |-> ap[f]]
  BY <1>1 DEF Fields
<1> QED
  BY <1>1, <1>2 DEF IsAp

LEMMA AssessedFacts ==
    ASSUME NEW ap, IsAp(ap), NEW a, a = Wifi!Assessed(ap)
    PROVE  /\ IsAp(a) /\ a.issues = Wifi!Assess(ap)
           /\ \A f \in Fields \ {"issues"} : a[f] = ap[f]
BY DEF IsAp, Wifi!Assessed, Fields

RadioType(r) ==
    /\ r.mac # Wifi!NoMac /\ r.mode \in Wifi!Mode /\ r.freq \in Wifi!Frequency
    /\ r.wps \in BOOLEAN

LEMMA CipherFacts ==
    ASSUME NEW r, r.mode \in Wifi!Mode
    PROVE  /\ Wifi!Ciphers(r) \cap {"CCMP", "GCMP", "TKIP"} = Wifi!Ciphers(r)
           /\ r.mode = "open" => Wifi!Ciphers(r) = {}
           /\ "TKIP" \in Wifi!Ciphers(r) <=> r.mode \in {"wpa", "wpa+wpa2"}
           /\ \A token \in {"WPA1", "WPA2", "WPA3", "OWE", "WEP"} : token \notin Wifi!Ciphers(r)
BY SuiteFacts DEF Wifi!Ciphers, Wifi!RsnCiphers, Wifi!WpaCiphers, Wifi!HasWpa

LEMMA FrameIsTruthful ==
    ASSUME NEW r, RadioType(r), NEW signal \in Int, NEW ap, ap = Wifi!ApFromFrame(r, signal)
    PROVE  Truthful([source |-> "capture", radio |-> r, wording |-> "version", ap |-> ap])
<1>1. PICK band, cipher, auth :
         ap = Wifi!AccessPoint(r.mac, r.ssid, band,
                 Wifi!Security(Wifi!EncryptionOfElements(r), cipher, auth, r.wps),
                 signal, "none", "scan")
  BY DEF Wifi!ApFromFrame
<1>2. r.mode \in Wifi!Mode /\ r.wps \in BOOLEAN
  BY DEF RadioType
<1>3. /\ IsAp(ap) /\ ap.clients = {} /\ ap.bssid = r.mac
      /\ ap.encryption = Wifi!EncryptionOfElements(r)
  BY <1>1, <1>2, ElementsFacts, AccessPointFacts
<1>4. ap.encryption \in Wifi!Configured(r)
  BY <1>2, <1>3, ElementsFacts
<1> QED
  BY <1>3, <1>4 DEF Truthful, Wifi!ShownAs, Wifi!Tool, Wifi!Format

LEMMA IwIsTruthful ==
    ASSUME NEW r, RadioType(r), NEW signal \in Int, NEW ap, ap = Wifi!ApFromIwBlock(r, signal)
    PROVE  Truthful([source |-> "iw", radio |-> r, wording |-> "version", ap |-> ap])
<1>1. PICK channel, auth :
         ap = Wifi!AccessPoint(r.mac, r.ssid, Wifi!Band(r.freq, channel),
                 Wifi!Security(Wifi!EncryptionOfElements(r), Wifi!Ciphers(r), auth, r.wps),
                 signal, "none", "scan")
  BY DEF Wifi!ApFromIwBlock
<1>2. r.mode \in Wifi!Mode /\ r.wps \in BOOLEAN /\ r.freq \in Wifi!Frequency
  BY DEF RadioType
<1>3. /\ IsAp(ap) /\ ap.clients = {} /\ ap.band = Wifi!Band(r.freq, channel)
      /\ ap.encryption = Wifi!EncryptionOfElements(r) /\ ap.cipher = Wifi!Ciphers(r)
  BY <1>1, <1>2, ElementsFacts, AccessPointFacts
<1>4. ap.encryption \in Wifi!Configured(r) /\ ap.band = Wifi!TrueBand(r)
  BY <1>2, <1>3, ElementsFacts, BandFacts
<1> QED
  BY <1>3, <1>4 DEF Truthful, Wifi!ShownAs, Wifi!Tool, Wifi!Format

LEMMA NmcliIsTruthful ==
    ASSUME NEW r, RadioType(r), NEW signal \in Int, NEW ap, ap = Wifi!ApFromNmcliRow(r, signal)
    PROVE  Truthful([source |-> "nmcli", radio |-> r, wording |-> "version", ap |-> ap])
<1> DEFINE tokens == Wifi!SecurityTokens(r)
           dbm == Wifi!NmcliSignalToDbm(Wifi!Quality(signal))
<1>1. PICK channel, auth :
         ap = Wifi!AccessPoint(r.mac, r.ssid, Wifi!Band(r.freq, channel),
                 IF tokens = {} THEN Wifi!OpenSecurity
                 ELSE Wifi!Security(Wifi!EncryptionOfTokens(tokens),
                         Wifi!Ciphers(r) \cap {"CCMP", "GCMP", "TKIP"}, auth, FALSE),
                 dbm, "none", "scan")
  BY DEF Wifi!ApFromNmcliRow
<1>2. r.mode \in Wifi!Mode /\ r.freq \in Wifi!Frequency
  BY DEF RadioType
<1>3. dbm \in Int
  BY DEF Wifi!NmcliSignalToDbm, Wifi!Quality
<1> HIDE DEF tokens, dbm
<1>4. \E e \in Encryption : \E a :
         /\ e \in Wifi!Configured(r)
         /\ ap = Wifi!AccessPoint(r.mac, r.ssid, Wifi!Band(r.freq, channel),
                    Wifi!Security(e, Wifi!Ciphers(r), a, FALSE), dbm, "none", "scan")
  <2>1. CASE tokens = {}
    <3>1. r.mode = "open"
      BY <1>2, <2>1, TokensFacts DEF tokens
    <3>2. "open" \in Encryption /\ "open" \in Wifi!Configured(r)
      BY <3>1 DEF Encryption, Wifi!Configured
    <3>3. Wifi!OpenSecurity = Wifi!Security("open", Wifi!Ciphers(r), "", FALSE)
      BY <1>2, <3>1, CipherFacts DEF Wifi!OpenSecurity
    <3> QED
      BY <1>1, <2>1, <3>2, <3>3
  <2>2. CASE tokens # {}
    <3>1. r.mode \in {"owe", "wep", "wpa", "wpa+wpa2", "wpa2", "802.1X", "wpa2/wpa3", "wpa3"}
      BY <1>2, <2>2, TokensFacts DEF tokens, Wifi!Mode
    <3>2. Wifi!EncryptionOfTokens(tokens) =
             CASE r.mode = "wep" -> "wep"
               [] r.mode = "owe" -> "owe"
               [] r.mode \in {"wpa2/wpa3", "wpa3"} -> "wpa3"
               [] r.mode \in {"wpa+wpa2", "wpa2", "802.1X"} -> "wpa2"
               [] r.mode = "wpa" -> "wpa"
      BY <1>2, <3>1, TokensFacts, TokenFacts DEF tokens
    <3>3. /\ Wifi!EncryptionOfTokens(tokens) \in Encryption
          /\ Wifi!EncryptionOfTokens(tokens) \in Wifi!Configured(r)
      BY <3>1, <3>2 DEF Encryption, Wifi!Configured
    <3> QED
      BY <1>1, <1>2, <2>2, <3>3, CipherFacts
  <2> QED
    BY <2>1, <2>2
<1>5. /\ IsAp(ap) /\ ap.clients = {} /\ ap.band = Wifi!Band(r.freq, channel)
      /\ ap.encryption \in Wifi!Configured(r) /\ ap.cipher = Wifi!Ciphers(r)
  <2>1. PICK e \in Encryption :
           /\ e \in Wifi!Configured(r)
           /\ \E a : ap = Wifi!AccessPoint(r.mac, r.ssid, Wifi!Band(r.freq, channel),
                       Wifi!Security(e, Wifi!Ciphers(r), a, FALSE), dbm, "none", "scan")
    BY <1>4
  <2>2. PICK a :
           ap = Wifi!AccessPoint(r.mac, r.ssid, Wifi!Band(r.freq, channel),
                   Wifi!Security(e, Wifi!Ciphers(r), a, FALSE), dbm, "none", "scan")
    BY <2>1
  <2>3. PICK no \in BOOLEAN : no = FALSE
    OBVIOUS
  <2>4. ap = Wifi!AccessPoint(r.mac, r.ssid, Wifi!Band(r.freq, channel),
                Wifi!Security(e, Wifi!Ciphers(r), a, no), dbm, "none", "scan")
    BY <2>2, <2>3, Zenon
  <2>5. no \in BOOLEAN
    BY <2>3
  <2>6. IsAp(ap) /\ ap.clients = {}
    BY <1>3, <2>4, <2>5, AccessPointFacts
  <2>7. ap.band = Wifi!Band(r.freq, channel) /\ ap.encryption = e /\ ap.cipher = Wifi!Ciphers(r)
    BY <1>3, <2>4, <2>5, AccessPointFacts
  <2> QED
    BY <2>1, <2>6, <2>7
<1>6. ap.band = Wifi!TrueBand(r)
  BY <1>2, <1>5, BandFacts
<1> QED
  BY <1>5, <1>6 DEF Truthful, Wifi!ShownAs, Wifi!Tool, Wifi!Format

LEMMA ProfilerIsTruthful ==
    ASSUME NEW r, RadioType(r), NEW signal \in Int, NEW withheld \in BOOLEAN,
           NEW ap \in Wifi!ApsFromAirportNet(r, signal, withheld)
    PROVE  Truthful([source |-> "profiler", radio |-> r, wording |-> "version", ap |-> ap])
<1> DEFINE mode == Wifi!EncryptionOfTokens(Wifi!SecurityTokens(r))
<1> DEFINE named == r.ssid # "" /\ ~withheld
           bssid == IF withheld THEN Wifi!NoMac ELSE r.mac
           ssid == IF named THEN r.ssid ELSE ""
           channel == Wifi!ChannelFromFreq(r.freq)
           auth == CASE "802.1X" \in Wifi!SecurityTokens(r) -> "802.1X"
                     [] OTHER -> IF mode = "wpa3" THEN "SAE" ELSE "PSK"
           security ==
              CASE mode \in {"open", "owe"} -> Wifi!OpenSecurity
                [] mode = "wep" -> Wifi!Security("wep", {}, "", FALSE)
                [] OTHER -> Wifi!Security(mode, IF mode = "wpa" THEN {"TKIP"} ELSE {"CCMP"},
                                          auth, FALSE)
<1>1. ap = Wifi!AccessPoint(bssid, ssid, Wifi!Band(r.freq, channel), security, signal,
                            "none", "scan")
  BY DEF Wifi!ApsFromAirportNet
<1> HIDE DEF bssid, ssid, channel, auth
<1>2. r.mode \in Wifi!Mode /\ r.freq \in Wifi!Frequency
  BY DEF RadioType
<1>3. r.mode \in {"open", "owe", "wep", "wpa", "wpa+wpa2", "wpa2", "802.1X", "wpa2/wpa3", "wpa3"}
  BY <1>2 DEF Wifi!Mode
<1>4. mode = CASE r.mode = "open" -> "open"
               [] r.mode = "wep" -> "wep"
               [] r.mode = "owe" -> "owe"
               [] r.mode \in {"wpa2/wpa3", "wpa3"} -> "wpa3"
               [] r.mode \in {"wpa+wpa2", "wpa2", "802.1X"} -> "wpa2"
               [] r.mode = "wpa" -> "wpa"
  BY <1>2, <1>3, TokensFacts, TokenFacts
<1> HIDE DEF mode
<1>5. mode \in {"open", "owe", "wep", "wpa", "wpa2", "wpa3"}
  BY <1>3, <1>4
<1> DEFINE shown == IF mode = "owe" THEN "open" ELSE mode
<1>6. shown \in Encryption
  BY <1>5 DEF Encryption
<1>7. r.mode # "owe" => shown \in Wifi!Configured(r)
  BY <1>3, <1>4 DEF Wifi!Configured
<1>8. PICK no \in BOOLEAN : no = FALSE
  OBVIOUS
<1>9. \E cipher, a : security = Wifi!Security(shown, cipher, a, no)
  <2>1. CASE mode \in {"open", "owe"}
    <3>1. security = Wifi!Security(shown, {}, "", no)
      BY <1>8, <2>1, Zenon DEF Wifi!OpenSecurity
    <3> QED
      BY <3>1
  <2>2. CASE mode = "wep"
    <3>1. security = Wifi!Security(shown, {}, "", no)
      BY <1>8, <2>2
    <3> QED
      BY <3>1
  <2>3. CASE mode \notin {"open", "owe", "wep"}
    <3>1. security = Wifi!Security(shown, IF mode = "wpa" THEN {"TKIP"} ELSE {"CCMP"}, auth, no)
      BY <1>8, <2>3
    <3> QED
      BY <3>1
  <2> QED
    BY <2>1, <2>2, <2>3
<1>10. PICK cipher, a : security = Wifi!Security(shown, cipher, a, no)
  BY <1>9
<1> HIDE DEF security, shown
<1>11. ap = Wifi!AccessPoint(bssid, ssid, Wifi!Band(r.freq, channel),
               Wifi!Security(shown, cipher, a, no), signal, "none", "scan")
  BY <1>1, <1>10
<1>12. IsAp(ap) /\ ap.clients = {}
  BY <1>6, <1>8, <1>11, AccessPointFacts
<1>13. ap.band = Wifi!Band(r.freq, channel) /\ ap.encryption = shown
  BY <1>6, <1>8, <1>11, AccessPointFacts
<1>14. ap.band = Wifi!TrueBand(r)
  BY <1>2, <1>13, BandFacts
<1> QED
  BY <1>7, <1>12, <1>13, <1>14 DEF Truthful, Wifi!ShownAs, Wifi!Tool, Wifi!Format

(* What the words of an export stand for, and in which order they count.   *)
LEMMA WordsFacts ==
    ASSUME NEW r, r.mode \in Wifi!Mode, NEW wording \in Wifi!Wording
    PROVE  LET words == Wifi!AuthMode(r, wording)
               signs == Wifi!ToldOf(words)
           IN  /\ words \cap {"CCMP", "GCMP", "TKIP"} = Wifi!Ciphers(r)
               /\ "owe" \in signs <=> r.mode = "owe"
               /\ "wpa3" \in signs <=> r.mode \in {"wpa2/wpa3", "wpa3"}
               /\ r.mode \in {"wpa+wpa2", "wpa2", "802.1X", "wpa2/wpa3"} => "wpa2" \in signs
               /\ r.mode = "wpa3" => ("wpa2" \in signs <=> wording # "version")
               /\ r.mode \in {"open", "wep", "wpa"} => "wpa2" \notin signs
               /\ "wpa" \in signs <=> r.mode \in {"wpa", "wpa+wpa2"}
               /\ "wep" \in signs <=> r.mode = "wep"
<1> DEFINE words == Wifi!AuthMode(r, wording)
           tokens == Wifi!SecurityTokens(r)
           signs == Wifi!ToldOf(words)
<1>1. PICK named, rsn, rest :
        /\ words = named \cup rsn \cup Wifi!Akms(r) \cup Wifi!Ciphers(r) \cup rest
        /\ named = tokens \ (IF wording = "element" THEN {"WPA2", "WPA3"} ELSE {})
        /\ rsn = IF wording # "version" /\ Wifi!HasRsn(r) THEN {"RSN"} ELSE {}
        /\ rest \subseteq {"WPS", "PSK", "EAP"}
  <2> DEFINE rest == (IF r.wps THEN {"WPS"} ELSE {}) \cup (IF Wifi!HasWpa(r) THEN {"PSK"} ELSE {})
                     \cup (IF "802.1X" \in Wifi!Akms(r) THEN {"EAP"} ELSE {})
             named == tokens \ (IF wording = "element" THEN {"WPA2", "WPA3"} ELSE {})
             rsn == IF wording # "version" /\ Wifi!HasRsn(r) THEN {"RSN"} ELSE {}
  <2>1. words = named \cup rsn \cup Wifi!Akms(r) \cup Wifi!Ciphers(r) \cup rest
    BY DEF Wifi!AuthMode
  <2>2. rest \subseteq {"WPS", "PSK", "EAP"}
    OBVIOUS
  <2> QED
    BY <2>1, <2>2
<1>2. /\ Wifi!Akms(r) \subseteq {"PSK", "SAE", "OWE", "802.1X"}
      /\ "OWE" \in Wifi!Akms(r) <=> r.mode = "owe"
      /\ "SAE" \in Wifi!Akms(r) <=> r.mode \in {"wpa2/wpa3", "wpa3"}
      /\ Wifi!HasRsn(r) <=> r.mode \notin {"open", "wep", "wpa"}
  BY SuiteFacts DEF Wifi!Mode
<1>3. Wifi!Ciphers(r) \subseteq {"CCMP", "TKIP"}
  BY DEF Wifi!Ciphers, Wifi!RsnCiphers, Wifi!WpaCiphers
<1>4. /\ tokens \subseteq {"WPA1", "WPA2", "WPA3", "OWE", "WEP", "802.1X"}
      /\ "WEP" \in tokens <=> r.mode = "wep"
      /\ "OWE" \in tokens <=> r.mode = "owe"
      /\ "WPA3" \in tokens <=> r.mode \in {"wpa2/wpa3", "wpa3"}
      /\ "WPA2" \in tokens <=> r.mode \in {"wpa+wpa2", "wpa2", "802.1X", "wpa2/wpa3"}
      /\ "WPA1" \in tokens <=> r.mode \in {"wpa", "wpa+wpa2"}
  BY TokensFacts
<1>5. /\ "wpa3" \in signs <=> "WPA3" \in words \/ "SAE" \in words
      /\ "wpa2" \in signs <=> "WPA2" \in words \/ "RSN" \in words
      /\ "wpa" \in signs <=> "WPA1" \in words
      /\ "wep" \in signs <=> "WEP" \in words
      /\ "owe" \in signs <=> "OWE" \in words
  BY DEF Wifi!ToldOf, Wifi!ToldBy
<1>6. wording \in {"version", "element", "both"}
  BY DEF Wifi!Wording
<1> HIDE DEF words, tokens, signs
<1>7. words \cap {"CCMP", "GCMP", "TKIP"} = Wifi!Ciphers(r)
  BY <1>1, <1>2, <1>3, <1>4
<1>8. /\ "WEP" \in words <=> r.mode = "wep"
      /\ "OWE" \in words <=> r.mode = "owe"
      /\ "WPA1" \in words <=> r.mode \in {"wpa", "wpa+wpa2"}
      /\ "SAE" \in words <=> r.mode \in {"wpa2/wpa3", "wpa3"}
      /\ "WPA3" \in words => r.mode \in {"wpa2/wpa3", "wpa3"}
      /\ "WPA2" \in words <=> /\ wording # "element"
                              /\ r.mode \in {"wpa+wpa2", "wpa2", "802.1X", "wpa2/wpa3"}
      /\ "RSN" \in words <=> wording # "version" /\ r.mode \notin {"open", "wep", "wpa"}
  BY <1>1, <1>2, <1>3, <1>4
<1> QED
  BY <1>5, <1>6, <1>7, <1>8 DEF words, signs

LEMMA ClassifiedFacts ==
    ASSUME NEW words
    PROVE  LET signs == Wifi!ToldOf(words)
               encryption == IF "owe" \in signs THEN "owe"
                             ELSE IF {"wpa2", "wpa3"} \subseteq signs THEN "wpa2/wpa3"
                             ELSE IF "wpa3" \in signs THEN "wpa3"
                             ELSE IF "wpa2" \in signs THEN "wpa2"
                             ELSE IF "wpa" \in signs THEN "wpa"
                             ELSE IF "wep" \in signs THEN "wep" ELSE "open"
           IN  \E auth : Wifi!ClassifySecurity(words) =
                  Wifi!Security(encryption, words \cap {"CCMP", "GCMP", "TKIP"}, auth,
                                "WPS" \in words)
<1> DEFINE signs == Wifi!ToldOf(words)
           mixed == IF {"wpa2", "wpa3"} \subseteq signs THEN {"wpa2/wpa3"} ELSE {}
           all == signs \cup mixed \cup {"open"}
           order == <<"owe", "wpa2/wpa3", "wpa3", "wpa2", "wpa", "wep", "open">>
           first == Wifi!FirstIn(order, all)
<1>1. \E auth : Wifi!ClassifySecurity(words) =
         Wifi!Security(first, words \cap {"CCMP", "GCMP", "TKIP"}, auth, "WPS" \in words)
  BY DEF Wifi!ClassifySecurity
<1>2. /\ DOMAIN order = 1 .. 7
      /\ order[1] = "owe" /\ order[2] = "wpa2/wpa3" /\ order[3] = "wpa3" /\ order[4] = "wpa2"
      /\ order[5] = "wpa" /\ order[6] = "wep" /\ order[7] = "open"
  OBVIOUS
<1>3. signs \subseteq {"wpa3", "wpa2", "wpa", "wep", "owe"}
  BY DEF Wifi!ToldOf, Wifi!ToldBy
<1> HIDE DEF order, signs
<1>4. /\ \A e \in {"owe", "wpa3", "wpa2", "wpa", "wep"} : e \in all <=> e \in signs
      /\ "wpa2/wpa3" \in all <=> {"wpa2", "wpa3"} \subseteq signs
      /\ "open" \in all
  BY <1>3
<1> HIDE DEF all
<1>5. ASSUME NEW i \in 1 .. 7, order[i] \in all, \A j \in 1 .. (i - 1) : order[j] \notin all
      PROVE  first = order[i]
  BY <1>2, <1>5, FirstInAt
<1> HIDE DEF first
<1>6. first = IF "owe" \in signs THEN "owe"
              ELSE IF {"wpa2", "wpa3"} \subseteq signs THEN "wpa2/wpa3"
              ELSE IF "wpa3" \in signs THEN "wpa3"
              ELSE IF "wpa2" \in signs THEN "wpa2"
              ELSE IF "wpa" \in signs THEN "wpa"
              ELSE IF "wep" \in signs THEN "wep" ELSE "open"
  <2>1. CASE "owe" \in signs
    <3>1. first = "owe"
      BY <1>2, <1>4, <1>5, <2>1
    <3> QED
      BY <2>1, <3>1
  <2>2. CASE "owe" \notin signs /\ {"wpa2", "wpa3"} \subseteq signs
    <3>1. first = "wpa2/wpa3"
      BY <1>2, <1>4, <1>5, <2>2
    <3> QED
      BY <2>2, <3>1
  <2>3. CASE "owe" \notin signs /\ "wpa2" \notin signs /\ "wpa3" \in signs
    <3>1. first = "wpa3"
      BY <1>2, <1>4, <1>5, <2>3
    <3> QED
      BY <2>3, <3>1
  <2>4. CASE "owe" \notin signs /\ "wpa3" \notin signs /\ "wpa2" \in signs
    <3>1. first = "wpa2"
      BY <1>2, <1>4, <1>5, <2>4
    <3> QED
      BY <2>4, <3>1
  <2>5. CASE signs \cap {"owe", "wpa2", "wpa3"} = {} /\ "wpa" \in signs
    <3>1. first = "wpa"
      BY <1>2, <1>4, <1>5, <2>5
    <3> QED
      BY <2>5, <3>1
  <2>6. CASE signs \cap {"owe", "wpa2", "wpa3", "wpa"} = {} /\ "wep" \in signs
    <3>1. first = "wep"
      BY <1>2, <1>4, <1>5, <2>6
    <3> QED
      BY <2>6, <3>1
  <2>7. CASE signs \cap {"owe", "wpa2", "wpa3", "wpa", "wep"} = {}
    <3>1. first = "open"
      BY <1>2, <1>4, <1>5, <2>7
    <3> QED
      BY <2>7, <3>1
  <2> QED
    BY <2>1, <2>2, <2>3, <2>4, <2>5, <2>6, <2>7
<1> QED
  BY <1>1, <1>6 DEF signs

LEMMA ExportIsTruthful ==
    ASSUME NEW r, RadioType(r), NEW signal \in Int, NEW place, NEW format \in Wifi!Format,
           NEW wording \in Wifi!Wording,
           NEW ap \in Wifi!ApsFromExport(format, r, signal, place, wording)
    PROVE  Truthful([source |-> format, radio |-> r, wording |-> wording, ap |-> ap])
<1> DEFINE words == Wifi!AuthMode(r, wording)
           signs == Wifi!ToldOf(words)
           encryption == IF "owe" \in signs THEN "owe"
                         ELSE IF {"wpa2", "wpa3"} \subseteq signs THEN "wpa2/wpa3"
                         ELSE IF "wpa3" \in signs THEN "wpa3"
                         ELSE IF "wpa2" \in signs THEN "wpa2"
                         ELSE IF "wpa" \in signs THEN "wpa"
                         ELSE IF "wep" \in signs THEN "wep" ELSE "open"
           wps == "WPS" \in words
           signalOf == IF format = "wigle" THEN signal ELSE 0
           shown == Wifi!ShownAs([source |-> format, radio |-> r, wording |-> wording, ap |-> ap])
<1>1. r.mode \in Wifi!Mode
  BY DEF RadioType
<1>2. PICK band, auth :
         ap = Wifi!Assessed(Wifi!AccessPoint(r.mac, r.ssid, band,
                 Wifi!Security(encryption, words \cap {"CCMP", "GCMP", "TKIP"}, auth, wps),
                 signalOf, place, format))
  <2>1. PICK auth : Wifi!ClassifySecurity(words) =
                       Wifi!Security(encryption, words \cap {"CCMP", "GCMP", "TKIP"}, auth, wps)
    BY ClassifiedFacts
  <2>2. PICK band :
           ap = Wifi!Assessed(Wifi!AccessPoint(r.mac, r.ssid, band,
                   Wifi!ClassifySecurity(words), signalOf, place, format))
    BY DEF Wifi!ApsFromExport
  <2> QED
    BY <2>1, <2>2
<1>3. words \cap {"CCMP", "GCMP", "TKIP"} = Wifi!Ciphers(r)
  BY <1>1, WordsFacts
<1>4. shown = IF r.mode = "wpa3" /\ wording # "version" THEN {"wpa2/wpa3"}
              ELSE Wifi!Configured(r)
  BY DEF Wifi!ShownAs
<1>5. wps \in BOOLEAN /\ signalOf \in Int
  OBVIOUS
<1>6. r.mode \in {"open", "owe", "wep", "wpa", "wpa+wpa2", "wpa2", "802.1X", "wpa2/wpa3", "wpa3"}
  BY <1>1 DEF Wifi!Mode
<1>7. /\ "owe" \in signs <=> r.mode = "owe"
      /\ "wpa3" \in signs <=> r.mode \in {"wpa2/wpa3", "wpa3"}
      /\ r.mode \in {"wpa+wpa2", "wpa2", "802.1X", "wpa2/wpa3"} => "wpa2" \in signs
      /\ r.mode = "wpa3" => ("wpa2" \in signs <=> wording # "version")
      /\ r.mode \in {"open", "wep", "wpa"} => "wpa2" \notin signs
      /\ "wpa" \in signs <=> r.mode \in {"wpa", "wpa+wpa2"}
      /\ "wep" \in signs <=> r.mode = "wep"
  BY <1>1, WordsFacts
<1> HIDE DEF words, signs
<1>8. encryption =
         CASE r.mode = "open" -> "open"
           [] r.mode = "wep" -> "wep"
           [] r.mode = "owe" -> "owe"
           [] r.mode = "wpa2/wpa3" -> "wpa2/wpa3"
           [] r.mode = "wpa3" -> IF wording # "version" THEN "wpa2/wpa3" ELSE "wpa3"
           [] r.mode \in {"wpa+wpa2", "wpa2", "802.1X"} -> "wpa2"
           [] r.mode = "wpa" -> "wpa"
  BY <1>6, <1>7
<1> HIDE DEF encryption, wps, signalOf, shown
<1>9. encryption \in Encryption /\ encryption \in shown
  BY <1>4, <1>6, <1>8 DEF Encryption, Wifi!Configured
<1>10. PICK raw :
          /\ raw = Wifi!AccessPoint(r.mac, r.ssid, band,
                      Wifi!Security(encryption, Wifi!Ciphers(r), auth, wps),
                      signalOf, place, format)
          /\ ap = Wifi!Assessed(raw)
  BY <1>2, <1>3
<1>11. /\ IsAp(raw) /\ raw.clients = {}
       /\ raw.encryption = encryption /\ raw.cipher = Wifi!Ciphers(r)
  <2>1. PICK enc \in Encryption, level \in Int : enc = encryption /\ level = signalOf
    BY <1>5, <1>9
  <2>2. PICK offered \in BOOLEAN : offered = wps
    BY <1>5
  <2>3. PICK bssid, ssid, cipher : bssid = r.mac /\ ssid = r.ssid /\ cipher = Wifi!Ciphers(r)
    OBVIOUS
  <2>4. raw = Wifi!AccessPoint(bssid, ssid, band, Wifi!Security(enc, cipher, auth, offered),
                               level, place, format)
    BY <1>10, <2>1, <2>2, <2>3
  <2>5. IsAp(raw) /\ raw.clients = {} /\ raw.encryption = enc /\ raw.cipher = cipher
    BY <2>4, AccessPointFacts
  <2> QED
    BY <2>1, <2>3, <2>5
<1>12. IsAp(ap) /\ \A f \in Fields \ {"issues"} : ap[f] = raw[f]
  BY <1>10, <1>11, AssessedFacts
<1>13. /\ ap.clients = {} /\ ap.encryption = encryption /\ ap.cipher = Wifi!Ciphers(r)
  BY <1>11, <1>12 DEF Fields
<1> QED
  BY <1>9, <1>12, <1>13 DEF Truthful, Wifi!Tool, Wifi!Format, shown

LEMMA Truthfulness ==
    ASSUME Wifi!WirelessAssumption, NEW from \in Source, NEW r \in Radios,
           NEW wording \in Wifi!WordingsOf(from), NEW ap \in ParsedFrom(from, r, wording),
           NEW s, s = Wifi!Sees(from, r, wording, ap)
    PROVE  s \in Sighting /\ Truthful(s)
<1>1. /\ s = [source |-> from, radio |-> r, wording |-> wording, ap |-> ap]
      /\ wording \in Wifi!Wording /\ (from \notin Wifi!Format => wording = "version")
  BY DEF Wifi!Sees, Wifi!WordingsOf, Wifi!Wording
<1>2. s \in Sighting
  BY <1>1 DEF Sighting, ApSet
<1>3. RadioType(r) /\ Signals \subseteq Int
  BY DEF Wifi!WirelessAssumption, RadioType
<1>4. PICK signal \in Signals, place \in {"none", "exact"}, withheld \in BOOLEAN :
         ap \in ParsedBy(from, r, wording, signal, place, withheld)
  BY DEF ParsedFrom
<1>5. signal \in Int
  BY <1>3
<1>6. CASE from = "capture"
  <2>1. ap = Wifi!ApFromFrame(r, signal)
    BY <1>4, <1>6 DEF ParsedBy, Wifi!Format
  <2> QED
    BY <1>1, <1>2, <1>3, <1>5, <1>6, <2>1, FrameIsTruthful DEF Wifi!Format
<1>7. CASE from = "nmcli"
  <2>1. ap = Wifi!ApFromNmcliRow(r, signal)
    BY <1>4, <1>7 DEF ParsedBy, Wifi!Format
  <2> QED
    BY <1>1, <1>2, <1>3, <1>5, <1>7, <2>1, NmcliIsTruthful DEF Wifi!Format
<1>8. CASE from = "iw"
  <2>1. ap = Wifi!ApFromIwBlock(r, signal)
    BY <1>4, <1>8 DEF ParsedBy, Wifi!Format
  <2> QED
    BY <1>1, <1>2, <1>3, <1>5, <1>8, <2>1, IwIsTruthful DEF Wifi!Format
<1>9. CASE from = "profiler"
  <2>1. ap \in Wifi!ApsFromAirportNet(r, signal, withheld)
    BY <1>4, <1>9 DEF ParsedBy, Wifi!Format
  <2> QED
    BY <1>1, <1>2, <1>3, <1>5, <1>9, <2>1, ProfilerIsTruthful DEF Wifi!Format
<1>10. CASE from \in Wifi!Format
  <2>1. ap \in Wifi!ApsFromExport(from, r, signal, place, wording)
    BY <1>4, <1>10 DEF ParsedBy, Wifi!Format
  <2> QED
    BY <1>1, <1>2, <1>3, <1>5, <1>10, <2>1, ExportIsTruthful
<1> QED
  BY <1>2, <1>6, <1>7, <1>8, <1>9, <1>10 DEF Source, Wifi!Tool

-----------------------------------------------------------------------------
(* One more sighting.                                                      *)
LEMMA AppendFacts ==
    ASSUME NEW S, IsTold(S), NEW s \in Sighting, NEW T, T = Append(S, s), NEW n, n = Len(S) + 1
    PROVE  /\ Len(S) \in Nat /\ DOMAIN S = 1 .. Len(S) /\ DOMAIN T = DOMAIN S \cup {n}
           /\ n \notin DOMAIN S /\ n \in Nat /\ \A i \in DOMAIN S : i \in Nat /\ i < n
           /\ T[n] = s /\ \A i \in DOMAIN S : T[i] = S[i]
           /\ Truthful(s) => IsTold(T)
<1>1. S \in Seq(Sighting)
  BY DEF IsTold
<1>2. /\ Len(S) \in Nat /\ DOMAIN S = 1 .. Len(S) /\ DOMAIN T = DOMAIN S \cup {n}
      /\ n \notin DOMAIN S /\ n \in Nat /\ \A i \in DOMAIN S : i \in Nat /\ i < n
      /\ T[n] = s /\ \A i \in DOMAIN S : T[i] = S[i] /\ T \in Seq(Sighting)
  BY <1>1
<1> QED
  BY <1>2 DEF IsTold

LEMMA AppendTold ==
    ASSUME NEW S, IsTold(S), NEW s \in Sighting, Truthful(s), NEW T, T = Append(S, s)
    PROVE  IsTold(T)
BY AppendFacts

SeenGrows(T, S, s, n) ==
    \A key :
       Seen(T, key) = IF ~Wifi!Anonymous(s.ap) /\ Wifi!Key(s.ap) = key THEN Seen(S, key) \cup {n}
                      ELSE Seen(S, key)

LEMMA SeenStep ==
    ASSUME NEW S, IsTold(S), NEW s \in Sighting, NEW T, T = Append(S, s), NEW n, n = Len(S) + 1
    PROVE  SeenGrows(T, S, s, n)
<1> SUFFICES ASSUME NEW key
             PROVE  Seen(T, key) = IF ~Wifi!Anonymous(s.ap) /\ Wifi!Key(s.ap) = key
                                   THEN Seen(S, key) \cup {n} ELSE Seen(S, key)
  BY DEF SeenGrows
<1> QED
  BY AppendFacts DEF Seen

LEMMA SeenDomain ==
    ASSUME NEW S, IsTold(S), NEW key
    PROVE  Seen(S, key) \subseteq DOMAIN S /\ Seen(S, key) \subseteq Nat
BY DEF Seen, IsTold

LEMMA FirstKept ==
    ASSUME NEW S, IsTold(S), NEW s \in Sighting, NEW T, T = Append(S, s),
           NEW seen \in SUBSET DOMAIN S, NEW v, NEW f, NEW empty, FirstOf(v, f, S, seen, empty)
    PROVE  FirstOf(v, f, T, seen, empty)
BY AppendFacts DEF FirstOf

LEMMA FirstNew ==
    ASSUME NEW S, IsTold(S), NEW s \in Sighting, NEW T, T = Append(S, s), NEW n, n = Len(S) + 1,
           NEW f, NEW empty
    PROVE  FirstOf(s.ap[f], f, T, {n}, empty)
BY AppendFacts DEF FirstOf

LEMMA FirstFilled ==
    ASSUME NEW S, IsTold(S), NEW s \in Sighting, NEW T, T = Append(S, s), NEW n, n = Len(S) + 1,
           NEW seen \in SUBSET DOMAIN S, NEW v, NEW f, NEW empty, FirstOf(v, f, S, seen, empty),
           NEW w, \/ v \in empty /\ s.ap[f] \notin empty /\ w = s.ap[f]
                  \/ ~(v \in empty /\ s.ap[f] \notin empty) /\ w = v
    PROVE  FirstOf(w, f, T, seen \cup {n}, empty)
<1>1. /\ \A i \in DOMAIN S : i \in Nat /\ i < n /\ T[i] = S[i]
      /\ n \in Nat /\ T[n] = s
  BY AppendFacts
<1>2. PICK m \in seen :
        /\ v = S[m].ap[f]
        /\ \/ v \notin empty /\ \A j \in seen : j < m => S[j].ap[f] \in empty
           \/ v \in empty /\ \A j \in seen : m <= j /\ S[j].ap[f] \in empty
  BY DEF FirstOf
<1>3. CASE v \in empty /\ s.ap[f] \notin empty
  <2>1. w = T[n].ap[f] /\ w \notin empty
    BY <1>1, <1>3
  <2>2. \A j \in seen \cup {n} : j < n => T[j].ap[f] \in empty
    BY <1>1, <1>2, <1>3
  <2> QED
    BY <2>1, <2>2 DEF FirstOf
<1>4. CASE v \notin empty
  <2>1. w = T[m].ap[f] /\ w \notin empty
    BY <1>1, <1>2, <1>4
  <2>2. \A j \in seen \cup {n} : j < m => T[j].ap[f] \in empty
    BY <1>1, <1>2, <1>4
  <2> QED
    BY <2>1, <2>2 DEF FirstOf
<1>5. CASE v \in empty /\ s.ap[f] \in empty
  <2>1. w = T[m].ap[f] /\ w \in empty
    BY <1>1, <1>2, <1>5
  <2>2. \A j \in seen \cup {n} : m <= j /\ T[j].ap[f] \in empty
    BY <1>1, <1>2, <1>5
  <2> QED
    BY <2>1, <2>2 DEF FirstOf
<1> QED
  BY <1>3, <1>4, <1>5

LEMMA StrongestKept ==
    ASSUME NEW S, IsTold(S), NEW s \in Sighting, NEW T, T = Append(S, s),
           NEW seen \in SUBSET DOMAIN S, NEW v, Strongest(v, S, seen)
    PROVE  Strongest(v, T, seen)
BY AppendFacts DEF Strongest

LEMMA StrongestNew ==
    ASSUME NEW S, IsTold(S), NEW s \in Sighting, NEW T, T = Append(S, s), NEW n, n = Len(S) + 1,
           s.ap.signal \in Int
    PROVE  Strongest(s.ap.signal, T, {n})
BY AppendFacts DEF Strongest

LEMMA StrongestFilled ==
    ASSUME NEW S, IsTold(S), NEW s \in Sighting, NEW T, T = Append(S, s), NEW n, n = Len(S) + 1,
           NEW seen \in SUBSET DOMAIN S, NEW v \in Int, Strongest(v, S, seen),
           s.ap.signal \in Int
    PROVE  Strongest(Wifi!Stronger(v, s.ap.signal), T, seen \cup {n})
<1> DEFINE b == s.ap.signal
<1>1. \A i \in seen : T[i] = S[i] /\ S[i].ap.signal \in Int
  <2>1. \A i \in seen : T[i] = S[i]
    BY AppendFacts
  <2>2. \A i \in seen : S[i].ap.signal \in Int
    BY DEF IsTold, Truthful, IsAp
  <2> QED
    BY <2>1, <2>2
<1>2. T[n].ap.signal = b
  BY AppendFacts
<1>3. CASE b # 0 /\ (v = 0 \/ b > v)
  <2>1. Wifi!Stronger(v, b) = b
    BY <1>3 DEF Wifi!Stronger
  <2>2. \A i \in seen : T[i].ap.signal = 0 \/ T[i].ap.signal <= b
    BY <1>1, <1>3 DEF Strongest
  <2>3. Strongest(b, T, seen \cup {n})
    BY <1>2, <1>3, <2>2 DEF Strongest
  <2> QED
    BY <2>1, <2>3
<1>4. CASE ~(b # 0 /\ (v = 0 \/ b > v))
  <2>1. Wifi!Stronger(v, b) = v
    BY <1>4 DEF Wifi!Stronger
  <2>2. b = 0 \/ (v # 0 /\ b <= v)
    BY <1>4
  <2>3. Strongest(v, T, seen \cup {n})
    BY <1>1, <1>2, <2>2 DEF Strongest
  <2> QED
    BY <2>1, <2>3
<1> QED
  BY <1>3, <1>4

(* What the property says in terms of least and greatest elements.         *)
LEMMA FirstIs ==
    ASSUME IsTold(told), NEW seen \in SUBSET DOMAIN told, NEW v, NEW f, NEW empty,
           FirstOf(v, f, told, seen, empty)
    PROVE  v = Wifi!FirstKnown(f, seen, empty)
<1>1. seen \subseteq Nat
  BY DEF IsTold
<1>2. PICK m \in seen :
        /\ v = told[m].ap[f]
        /\ \/ v \notin empty /\ \A j \in seen : j < m => told[j].ap[f] \in empty
           \/ v \in empty /\ \A j \in seen : m <= j /\ told[j].ap[f] \in empty
  BY DEF FirstOf
<1> DEFINE known == {i \in seen : told[i].ap[f] \notin empty}
<1>3. CASE v \notin empty
  <2>1. m \in known /\ \A j \in known : m <= j
    BY <1>1, <1>2, <1>3
  <2>2. \A x \in known : (\A y \in known : x <= y) <=> x = m
    BY <1>1, <2>1
  <2>3. known # {}
    BY <2>1
  <2> HIDE DEF known
  <2>4. Wifi!Min(known) = m
    BY <2>1, <2>2 DEF Wifi!Min
  <2> QED
    BY <1>2, <2>3, <2>4 DEF Wifi!FirstKnown, known
<1>4. CASE v \in empty
  <2>1. known = {}
    BY <1>2, <1>4
  <2>2. \A x \in seen : (\A y \in seen : x <= y) <=> x = m
    BY <1>1, <1>2, <1>4
  <2>3. Wifi!Min(seen) = m
    BY <1>2, <2>2 DEF Wifi!Min
  <2> QED
    BY <1>2, <2>1, <2>3 DEF Wifi!FirstKnown
<1> QED
  BY <1>3, <1>4

LEMMA StrongestIs ==
    ASSUME IsTold(told), NEW seen \in SUBSET DOMAIN told, NEW v \in Int, Strongest(v, told, seen)
    PROVE  LET strengths == {told[i].ap.signal : i \in seen} \ {0}
           IN  v = IF strengths = {} THEN 0 ELSE Wifi!Max(strengths)
<1> DEFINE strengths == {told[i].ap.signal : i \in seen} \ {0}
<1>1. strengths \subseteq Int
  BY DEF IsTold, Truthful, IsAp
<1>2. CASE v = 0
  <2>1. strengths = {}
    BY <1>2 DEF Strongest
  <2> QED
    BY <1>2, <2>1
<1>3. CASE v # 0
  <2>1. v \in strengths /\ \A x \in strengths : x <= v
    BY <1>3 DEF Strongest
  <2>2. \A x \in strengths : (\A y \in strengths : x >= y) <=> x = v
    BY <1>1, <2>1
  <2> HIDE DEF strengths
  <2>3. Wifi!Max(strengths) = v
    BY <2>1, <2>2 DEF Wifi!Max
  <2>4. strengths # {}
    BY <2>1
  <2> QED
    BY <2>3, <2>4 DEF strengths
<1> QED
  BY <1>2, <1>3

-----------------------------------------------------------------------------
(* The inventory: assessing, merging, adding.                              *)
LEMMA AssessSame ==
    ASSUME NEW e, NEW g,
           e.encryption = g.encryption, e.cipher = g.cipher, e.wps = g.wps, e.auth = g.auth,
           e.ssid = g.ssid
    PROVE  Wifi!Assess(e) = Wifi!Assess(g)
BY DEF Wifi!Assess

LEMMA AssessFacts ==
    ASSUME NEW e
    PROVE  /\ \A i \in Wifi!Assess(e) : i[1] # "twin"
           /\ <<"tkip">> \in Wifi!Assess(e) <=> "TKIP" \in e.cipher
BY DEF Wifi!Assess

LEMMA AssessedIs ==
    ASSUME NEW e, IsAp(e), NEW a, a = Wifi!Assessed(e)
    PROVE  IsAp(a) /\ a.issues = Wifi!Assess(a) /\ \A f \in Fields \ {"issues"} : a[f] = e[f]
<1>1. IsAp(a) /\ a.issues = Wifi!Assess(e) /\ \A f \in Fields \ {"issues"} : a[f] = e[f]
  BY AssessedFacts
<1>2. /\ a.encryption = e.encryption /\ a.cipher = e.cipher /\ a.wps = e.wps
      /\ a.auth = e.auth /\ a.ssid = e.ssid
  BY <1>1 DEF Fields
<1>3. Wifi!Assess(a) = Wifi!Assess(e)
  BY <1>2, AssessSame
<1> QED
  BY <1>1, <1>3

LEMMA UnknownFacts ==
    /\ Property = {"encryption", "wps", "band", "cipher", "auth", "place"}
    /\ Wifi!Unknown["encryption"] = "open" /\ Wifi!Unknown["wps"] = FALSE
    /\ Property \subseteq Fields \ {"issues", "clients", "signal", "ssid", "bssid"}
    /\ \A f \in Property \ {"encryption", "wps"} :
          f \in DOMAIN Wifi!Blank /\ Wifi!Unknown[f] = Wifi!Blank[f]
<1>1. PICK u, b : u = Wifi!Unknown /\ b = Wifi!Blank
  OBVIOUS
<1>2. /\ DOMAIN u = {"encryption", "wps", "band", "cipher", "auth", "place"}
      /\ u["encryption"] = "open" /\ u["wps"] = FALSE
      /\ u["band"] = "" /\ u["cipher"] = {} /\ u["auth"] = "" /\ u["place"] = "none"
  BY <1>1 DEF Wifi!Unknown
<1>3. /\ DOMAIN b = {"ssid", "band", "cipher", "auth", "place"}
      /\ b["band"] = "" /\ b["cipher"] = {} /\ b["auth"] = "" /\ b["place"] = "none"
  BY <1>1 DEF Wifi!Blank
<1>4. Property = DOMAIN u
  BY <1>1 DEF Property
<1>5. Property \subseteq Fields \ {"issues", "clients", "signal", "ssid", "bssid"}
  BY <1>2, <1>4 DEF Fields
<1>6. ASSUME NEW f \in Property \ {"encryption", "wps"}
      PROVE  f \in DOMAIN b /\ u[f] = b[f]
  <2>1. f = "band" \/ f = "cipher" \/ f = "auth" \/ f = "place"
    BY <1>2, <1>4
  <2> QED
    BY <1>2, <1>3, <2>1
<1> QED
  BY <1>1, <1>2, <1>4, <1>5, <1>6

(* What becomes of a property: the known value fills the unknown one.      *)
FilledBy(m, old, ap, f) ==
    \/ /\ old[f] \in {Wifi!Unknown[f]} /\ ap[f] \notin {Wifi!Unknown[f]}
       /\ m[f] = ap[f]
    \/ /\ ~(old[f] \in {Wifi!Unknown[f]} /\ ap[f] \notin {Wifi!Unknown[f]})
       /\ m[f] = old[f]

MergedWith(m, old, ap) ==
    /\ IsAp(m) /\ m.issues = Wifi!Assess(m)
    /\ m.bssid = old.bssid
    /\ m.ssid = IF old.ssid = "" THEN ap.ssid ELSE old.ssid
    /\ m.signal = Wifi!Stronger(old.signal, ap.signal)
    /\ \A f \in Property : FilledBy(m, old, ap, f)
    /\ m.clients = old.clients \cup ap.clients

LEMMA MergeFacts ==
    ASSUME NEW old, NEW ap, IsAp(old), IsAp(ap), NEW m, m = Wifi!Merge(old, ap)
    PROVE  MergedWith(m, old, ap)
<1> DEFINE value(f) ==
        CASE f \in DOMAIN Wifi!Blank -> IF old[f] = Wifi!Blank[f] THEN ap[f] ELSE old[f]
          [] f = "signal"       -> Wifi!Stronger(old.signal, ap.signal)
          [] f = "wps"          -> old.wps \/ ap.wps
          [] f = "encryption"   ->
                IF old.encryption \in Wifi!Unencrypted /\ ap.encryption \notin Wifi!Unencrypted
                THEN ap.encryption ELSE old.encryption
          [] f = "clients"      -> old.clients \cup ap.clients
          [] OTHER              -> old[f]
           raw == [f \in DOMAIN old |-> value(f)]
<1>1. m = Wifi!Assessed(raw)
  BY DEF Wifi!Merge
<1>2. DOMAIN old = Fields
  BY DEF IsAp
<1>3. /\ DOMAIN Wifi!Blank = {"ssid", "band", "cipher", "auth", "place"}
      /\ Wifi!Blank["ssid"] = ""
  BY DEF Wifi!Blank
<1>4. \A f \in Fields : raw[f] = value(f)
  BY <1>2
<1>5. /\ raw["ssid"] = value("ssid") /\ raw["encryption"] = value("encryption")
      /\ raw["signal"] = value("signal") /\ raw["wps"] = value("wps")
      /\ raw["clients"] = value("clients") /\ raw["bssid"] = value("bssid")
  BY <1>4 DEF Fields
<1>6. raw.ssid = IF old.ssid = "" THEN ap.ssid ELSE old.ssid
  BY <1>3, <1>5
<1>7. /\ raw.signal = Wifi!Stronger(old.signal, ap.signal)
      /\ raw.clients = old.clients \cup ap.clients /\ raw.bssid = old.bssid
  BY <1>3, <1>5
<1>8. raw.wps = (old.wps \/ ap.wps)
  BY <1>3, <1>5
<1>9. raw.encryption = IF old.encryption = "open" /\ ap.encryption # "open" THEN ap.encryption
                       ELSE old.encryption
  BY <1>3, <1>5 DEF IsAp, Encryption, Wifi!Unencrypted
<1>10. raw = [f \in Fields |-> raw[f]]
  BY <1>2
<1>14. \A f \in Property \ {"encryption", "wps"} :
          raw[f] = IF old[f] = Wifi!Unknown[f] THEN ap[f] ELSE old[f]
  <2> SUFFICES ASSUME NEW f \in Property \ {"encryption", "wps"}
               PROVE  raw[f] = IF old[f] = Wifi!Unknown[f] THEN ap[f] ELSE old[f]
    OBVIOUS
  <2>1. f \in Fields /\ f \in DOMAIN Wifi!Blank /\ Wifi!Unknown[f] = Wifi!Blank[f]
    BY UnknownFacts
  <2>2. value(f) = IF old[f] = Wifi!Blank[f] THEN ap[f] ELSE old[f]
    <3>1. f \notin {"signal", "wps", "encryption", "clients"}
      BY <1>3, <2>1
    <3> QED
      BY <2>1, <3>1
  <2>3. raw[f] = value(f)
    BY <1>4, <2>1
  <2> HIDE DEF raw, value
  <2> QED
    BY <2>1, <2>2, <2>3
<1> HIDE DEF raw, value
<1>11. IsAp(raw)
  <2>1. raw.encryption \in Encryption
    BY <1>9 DEF IsAp
  <2>2. raw.signal \in Int
    BY <1>7 DEF IsAp, Wifi!Stronger
  <2>3. raw.wps \in BOOLEAN
    BY <1>8
  <2> QED
    BY <1>10, <2>1, <2>2, <2>3 DEF IsAp
<1>12. IsAp(m) /\ m.issues = Wifi!Assess(m) /\ \A f \in Fields \ {"issues"} : m[f] = raw[f]
  BY <1>1, <1>11, AssessedIs
<1>13. /\ m.ssid = raw.ssid /\ m.encryption = raw.encryption /\ m.signal = raw.signal
       /\ m.wps = raw.wps /\ m.clients = raw.clients /\ m.bssid = raw.bssid
  BY <1>12 DEF Fields
<1>15. \A f \in Property \ {"encryption", "wps"} : FilledBy(m, old, ap, f)
  <2> SUFFICES ASSUME NEW f \in Property \ {"encryption", "wps"}
               PROVE  FilledBy(m, old, ap, f)
    OBVIOUS
  <2>1. m[f] = raw[f]
    BY <1>12, UnknownFacts
  <2> QED
    BY <1>14, <2>1 DEF FilledBy
<1>16. FilledBy(m, old, ap, "encryption")
  BY <1>9, <1>13, UnknownFacts DEF FilledBy
<1>17. FilledBy(m, old, ap, "wps")
  <2>1. old.wps \in BOOLEAN /\ ap.wps \in BOOLEAN
    BY DEF IsAp
  <2>2. CASE old.wps = TRUE
    <3>1. m.wps = TRUE
      BY <1>8, <1>13, <2>2
    <3> QED
      BY <2>2, <3>1, UnknownFacts DEF FilledBy
  <2>3. CASE old.wps = FALSE
    <3>1. m.wps = ap.wps
      BY <1>8, <1>13, <2>1, <2>3
    <3> QED
      BY <2>3, <3>1, UnknownFacts DEF FilledBy
  <2> QED
    BY <2>1, <2>2, <2>3
<1>18. \A f \in Property : FilledBy(m, old, ap, f)
  BY <1>15, <1>16, <1>17
<1> QED
  BY <1>6, <1>7, <1>12, <1>13, <1>18 DEF MergedWith

(* What add_ap does with an access point that has a name.                  *)
KeyOf(inv, ap) == IF Wifi!Anonymous(ap) THEN <<"anon", inv.anon>> ELSE Wifi!Key(ap)

AddedTo(new, inv, ap) ==
    LET old == inv.access_points
        aps2 == new.access_points
        key == KeyOf(inv, ap)
    IN  /\ DOMAIN new = DOMAIN inv
        /\ new.anon = IF Wifi!Anonymous(ap) THEN inv.anon + 1 ELSE inv.anon
        /\ DOMAIN aps2 = DOMAIN old \cup {key}
        /\ aps2[key] = IF key \in DOMAIN old THEN Wifi!Merge(old[key], ap) ELSE ap
        /\ \A k \in DOMAIN old \ {key} : aps2[k] = old[k]

LEMMA AddApFacts ==
    ASSUME NEW inv, DOMAIN inv = {"access_points", "anon", "ble_devices"},
           NEW ap, NEW new, new = Wifi!AddAp(inv, ap)
    PROVE  AddedTo(new, inv, ap)
<1> DEFINE old == inv.access_points
           key == KeyOf(inv, ap)
           count == IF Wifi!Anonymous(ap) THEN inv.anon + 1 ELSE inv.anon
           entry == IF key \in DOMAIN old THEN Wifi!Merge(old[key], ap) ELSE ap
           next == [k \in DOMAIN old \cup {key} |-> IF k = key THEN entry ELSE old[k]]
<1>1. new = [inv EXCEPT !.anon = count, !.access_points = next]
  BY Zenon DEF Wifi!AddAp, KeyOf
<1>2. /\ DOMAIN next = DOMAIN old \cup {key}
      /\ next[key] = IF key \in DOMAIN old THEN Wifi!Merge(old[key], ap) ELSE ap
      /\ \A k \in DOMAIN old \ {key} : next[k] = old[k]
  OBVIOUS
<1> HIDE DEF next, count, key
<1>3. DOMAIN new = DOMAIN inv /\ new.anon = count /\ new.access_points = next
  BY <1>1
<1> QED
  BY <1>2, <1>3 DEF AddedTo, count, key

(* An entry and one more sighting, of another access point or of its own.  *)
SameButIssues(a, b) == \A f \in Fields \ {"issues"} : a[f] = b[f]

LEMMA SameFields ==
    ASSUME NEW a, NEW b, SameButIssues(a, b)
    PROVE  /\ a.bssid = b.bssid /\ a.ssid = b.ssid /\ a.band = b.band
           /\ a.encryption = b.encryption /\ a.cipher = b.cipher /\ a.auth = b.auth
           /\ a.wps = b.wps /\ a.signal = b.signal /\ a.clients = b.clients
           /\ \A f \in Property : a[f] = b[f]
BY UnknownFacts DEF SameButIssues, Fields

LEMMA CollectedKept ==
    ASSUME NEW S, IsTold(S), NEW s \in Sighting, NEW T, T = Append(S, s),
           NEW seen \in SUBSET DOMAIN S, NEW e, Collected(e, S, seen)
    PROVE  Collected(e, T, seen)
BY FirstKept, StrongestKept DEF Collected

LEMMA CollectedNew ==
    ASSUME NEW S, IsTold(S), NEW s \in Sighting, NEW T, T = Append(S, s), NEW n, n = Len(S) + 1,
           IsAp(s.ap), NEW a, SameButIssues(a, s.ap)
    PROVE  Collected(a, T, {n})
<1>1. /\ a.ssid = s.ap["ssid"] /\ a.signal = s.ap.signal
      /\ \A f \in Property : a[f] = s.ap[f]
  BY SameFields
<1>2. s.ap.signal \in Int
  BY DEF IsAp
<1>3. \A f \in Property : FirstOf(a[f], f, T, {n}, {})
  BY <1>1, FirstNew
<1> QED
  BY <1>1, <1>2, <1>3, FirstNew, StrongestNew DEF Collected

CollectedWith(m, e, ap) ==
    /\ m.ssid = IF e.ssid = "" THEN ap.ssid ELSE e.ssid
    /\ m.signal = Wifi!Stronger(e.signal, ap.signal)
    /\ \A f \in Property : m[f] = e[f]

LEMMA CollectedFilled ==
    ASSUME NEW S, IsTold(S), NEW s \in Sighting, NEW T, T = Append(S, s), NEW n, n = Len(S) + 1,
           NEW seen \in SUBSET DOMAIN S, NEW e, IsAp(e), Collected(e, S, seen), IsAp(s.ap),
           NEW m, CollectedWith(m, e, s.ap)
    PROVE  Collected(m, T, seen \cup {n})
<1>1. FirstOf(m.ssid, "ssid", T, seen \cup {n}, {""})
  <2>1. \/ e.ssid \in {""} /\ s.ap["ssid"] \notin {""} /\ m.ssid = s.ap["ssid"]
        \/ ~(e.ssid \in {""} /\ s.ap["ssid"] \notin {""}) /\ m.ssid = e.ssid
    BY DEF CollectedWith
  <2>2. FirstOf(e.ssid, "ssid", S, seen, {""})
    BY DEF Collected
  <2> QED
    BY <2>1, <2>2, FirstFilled
<1>2. ASSUME NEW f \in Property
      PROVE  FirstOf(m[f], f, T, seen \cup {n}, {})
  <2>1. ~(e[f] \in {} /\ s.ap[f] \notin {}) /\ m[f] = e[f]
    BY DEF CollectedWith
  <2>2. FirstOf(e[f], f, S, seen, {})
    BY DEF Collected
  <2> QED
    BY <2>1, <2>2, FirstFilled
<1>3. Strongest(m.signal, T, seen \cup {n})
  <2>1. e.signal \in Int /\ s.ap.signal \in Int
    BY DEF IsAp
  <2>2. Strongest(e.signal, S, seen)
    BY DEF Collected
  <2>3. Strongest(Wifi!Stronger(e.signal, s.ap.signal), T, seen \cup {n})
    BY <2>1, <2>2, StrongestFilled
  <2> QED
    BY <2>3 DEF CollectedWith
<1> QED
  BY <1>1, <1>2, <1>3 DEF Collected

LEMMA MergedKept ==
    ASSUME NEW S, IsTold(S), NEW s \in Sighting, NEW T, T = Append(S, s),
           NEW seen \in SUBSET DOMAIN S, NEW e, Merged(e, S, seen)
    PROVE  Merged(e, T, seen)
BY FirstKept, StrongestKept DEF Merged

LEMMA MergedNew ==
    ASSUME NEW S, IsTold(S), NEW s \in Sighting, NEW T, T = Append(S, s), NEW n, n = Len(S) + 1,
           IsAp(s.ap), s.ap.clients = {}, NEW a, SameButIssues(a, s.ap)
    PROVE  Merged(a, T, {n})
<1>1. /\ a.ssid = s.ap["ssid"] /\ a.signal = s.ap.signal /\ a.clients = {}
      /\ \A f \in Property : a[f] = s.ap[f]
  BY SameFields
<1>2. s.ap.signal \in Int
  BY DEF IsAp
<1>3. \A f \in Property : FirstOf(a[f], f, T, {n}, {Wifi!Unknown[f]})
  BY <1>1, FirstNew
<1> QED
  BY <1>1, <1>2, <1>3, FirstNew, StrongestNew DEF Merged

LEMMA MergedFilled ==
    ASSUME NEW S, IsTold(S), NEW s \in Sighting, NEW T, T = Append(S, s), NEW n, n = Len(S) + 1,
           NEW seen \in SUBSET DOMAIN S, NEW e, IsAp(e), Merged(e, S, seen),
           IsAp(s.ap), s.ap.clients = {}, NEW a, SameButIssues(a, s.ap),
           NEW m, MergedWith(m, e, a)
    PROVE  Merged(m, T, seen \cup {n})
<1>1. /\ a.ssid = s.ap["ssid"] /\ a.signal = s.ap.signal /\ a.clients = {}
      /\ \A f \in Property : a[f] = s.ap[f]
  BY SameFields
<1>2. FirstOf(m.ssid, "ssid", T, seen \cup {n}, {""})
  <2>1. \/ e.ssid \in {""} /\ s.ap["ssid"] \notin {""} /\ m.ssid = s.ap["ssid"]
        \/ ~(e.ssid \in {""} /\ s.ap["ssid"] \notin {""}) /\ m.ssid = e.ssid
    BY <1>1 DEF MergedWith
  <2>2. FirstOf(e.ssid, "ssid", S, seen, {""})
    BY DEF Merged
  <2> QED
    BY <2>1, <2>2, FirstFilled
<1>3. ASSUME NEW f \in Property
      PROVE  FirstOf(m[f], f, T, seen \cup {n}, {Wifi!Unknown[f]})
  <2>1. PICK empty : empty = {Wifi!Unknown[f]}
    OBVIOUS
  <2>2. \/ e[f] \in empty /\ s.ap[f] \notin empty /\ m[f] = s.ap[f]
        \/ ~(e[f] \in empty /\ s.ap[f] \notin empty) /\ m[f] = e[f]
    BY <1>1, <2>1 DEF MergedWith, FilledBy
  <2>3. FirstOf(e[f], f, S, seen, empty)
    BY <2>1 DEF Merged
  <2>4. FirstOf(m[f], f, T, seen \cup {n}, empty)
    BY <2>2, <2>3, FirstFilled
  <2> QED
    BY <2>1, <2>4
<1>4. Strongest(m.signal, T, seen \cup {n})
  <2>1. m.signal = Wifi!Stronger(e.signal, s.ap.signal) /\ e.signal \in Int /\ s.ap.signal \in Int
    BY <1>1 DEF MergedWith, IsAp
  <2>2. Strongest(e.signal, S, seen)
    BY DEF Merged
  <2>3. Strongest(Wifi!Stronger(e.signal, s.ap.signal), T, seen \cup {n})
    BY <2>1, <2>2, StrongestFilled
  <2> QED
    BY <2>1, <2>3
<1>5. m.clients = {}
  BY <1>1 DEF Merged, MergedWith
<1> QED
  BY <1>2, <1>3, <1>4, <1>5 DEF Merged

-----------------------------------------------------------------------------
(* The keys of an inventory.                                               *)
LEMMA KeyFacts ==
    ASSUME NEW ap, NEW j
    PROVE  Wifi!Key(ap) # <<"anon", j>>
BY DEF Wifi!Key

LEMMA NamedKeys ==
    ASSUME NEW a, NEW b, SameButIssues(a, b)
    PROVE  /\ Wifi!Key(a) = Wifi!Key(b)
           /\ Wifi!Anonymous(a) <=> Wifi!Anonymous(b)
BY SameFields DEF Wifi!Key, Wifi!Anonymous

LEMMA AnonKeysFacts ==
    ASSUME NEW n \in Nat
    PROVE  /\ AnonKeys(n + 1) = AnonKeys(n) \cup {<<"anon", n>>}
           /\ <<"anon", n>> \notin AnonKeys(n)
           /\ AnonKeys(0) = {}
<1>1. 0 .. (n + 1) - 1 = (0 .. n - 1) \cup {n} /\ n \notin 0 .. n - 1
  OBVIOUS
<1>2. <<"anon", n>> \notin AnonKeys(n)
  BY <1>1 DEF AnonKeys
<1>3. AnonKeys(n + 1) = AnonKeys(n) \cup {<<"anon", n>>}
  BY <1>1 DEF AnonKeys
<1>4. AnonKeys(0) = {}
  BY DEF AnonKeys
<1> QED
  BY <1>2, <1>3, <1>4

LEMMA CardinalityIs == ASSUME NEW S PROVE Wifi!Cardinality(S) = Cardinality(S)
BY DEF Wifi!Cardinality, Cardinality

LEMMA NoAnonKey ==
    ASSUME NEW S, NEW j
    PROVE  <<"anon", j>> \notin KeysOf(S) /\ Seen(S, <<"anon", j>>) = {}
BY KeyFacts DEF KeysOf, Seen

LEMMA SeenKeys ==
    ASSUME NEW S, NEW key
    PROVE  key \in KeysOf(S) <=> Seen(S, key) # {}
BY DEF KeysOf, Seen, Unnamed

KeysGrow(T, S, s, n) ==
    IF Wifi!Anonymous(s.ap) THEN Unnamed(T) = Unnamed(S) \cup {n} /\ KeysOf(T) = KeysOf(S)
    ELSE Unnamed(T) = Unnamed(S) /\ KeysOf(T) = KeysOf(S) \cup {Wifi!Key(s.ap)}

LEMMA KeysStep ==
    ASSUME NEW S, IsTold(S), NEW s \in Sighting, NEW T, T = Append(S, s), NEW n, n = Len(S) + 1
    PROVE  KeysGrow(T, S, s, n)
<1>1. /\ DOMAIN T = DOMAIN S \cup {n} /\ n \notin DOMAIN S
      /\ T[n] = s /\ \A i \in DOMAIN S : T[i] = S[i]
  BY AppendFacts
<1>2. CASE Wifi!Anonymous(s.ap)
  <2>1. Unnamed(T) = Unnamed(S) \cup {n}
    BY <1>1, <1>2 DEF Unnamed
  <2>2. DOMAIN T \ Unnamed(T) = DOMAIN S \ Unnamed(S)
    BY <1>1, <2>1
  <2>3. KeysOf(T) = KeysOf(S)
    BY <1>1, <2>2 DEF KeysOf
  <2> QED
    BY <1>2, <2>1, <2>3 DEF KeysGrow
<1>3. CASE ~Wifi!Anonymous(s.ap)
  <2>1. Unnamed(T) = Unnamed(S)
    BY <1>1, <1>3 DEF Unnamed
  <2>2. DOMAIN T \ Unnamed(T) = (DOMAIN S \ Unnamed(S)) \cup {n}
    BY <1>1, <2>1 DEF Unnamed
  <2>3. KeysOf(T) = KeysOf(S) \cup {Wifi!Key(s.ap)}
    BY <1>1, <2>2 DEF KeysOf
  <2> QED
    BY <1>3, <2>1, <2>3 DEF KeysGrow
<1> QED
  BY <1>2, <1>3

LEMMA UnnamedFinite ==
    ASSUME NEW S, IsTold(S)
    PROVE  IsFiniteSet(Unnamed(S)) /\ Unnamed(S) \subseteq DOMAIN S
<1>1. Len(S) \in Nat /\ DOMAIN S = 1 .. Len(S)
  BY DEF IsTold
<1>2. IsFiniteSet(1 .. Len(S))
  BY <1>1, FS_Interval
<1>3. Unnamed(S) \subseteq DOMAIN S
  BY DEF Unnamed
<1> QED
  BY <1>1, <1>2, <1>3, FS_Subset

(* The next access point of a tool or an export.                           *)
LEMMA AddStep ==
    ASSUME NEW inv, NEW S, Holds(inv, S), HoldsMerged(inv, S), HoldsAssessed(inv), IsTold(S),
           NEW s \in Sighting, Truthful(s), NEW T, T = Append(S, s),
           NEW new, new = Wifi!AddAp(inv, Wifi!Assessed(s.ap))
    PROVE  Holds(new, T) /\ HoldsMerged(new, T) /\ HoldsAssessed(new)
<1>1. PICK a : a = Wifi!Assessed(s.ap)
  OBVIOUS
<1>2. PICK n : n = Len(S) + 1
  OBVIOUS
<1>3. PICK key : key = KeyOf(inv, a)
  OBVIOUS
<1>4. PICK old, next : old = inv.access_points /\ next = new.access_points
  OBVIOUS
<1>5. IsAp(s.ap) /\ s.ap.clients = {}
  BY DEF Truthful
<1>6. IsAp(a) /\ a.issues = Wifi!Assess(a) /\ SameButIssues(a, s.ap)
  BY <1>1, <1>5, AssessedIs DEF SameButIssues
<1>7. Wifi!Key(a) = Wifi!Key(s.ap) /\ (Wifi!Anonymous(a) <=> Wifi!Anonymous(s.ap))
  BY <1>6, NamedKeys
<1>8. /\ DOMAIN inv = {"access_points", "anon", "ble_devices"} /\ inv.anon \in Nat
      /\ IsFiniteSet(DOMAIN old) /\ Cardinality(Unnamed(S)) = inv.anon
      /\ DOMAIN old = KeysOf(S) \cup AnonKeys(inv.anon)
      /\ \A k \in DOMAIN old : IsAp(old[k]) /\ old[k].issues = Wifi!Assess(old[k])
      /\ \A k \in DOMAIN old : old[k].bssid # Wifi!NoMac => k = <<"bssid", old[k].bssid>>
      /\ \A k \in DOMAIN old : Seen(S, k) # {} => Merged(old[k], S, Seen(S, k))
  BY <1>4 DEF Holds, HoldsMerged, HoldsAssessed
<1>9. AddedTo(new, inv, a)
  BY <1>1, <1>8, AddApFacts
<1>10. /\ DOMAIN new = {"access_points", "anon", "ble_devices"}
       /\ new.anon = IF Wifi!Anonymous(a) THEN inv.anon + 1 ELSE inv.anon
       /\ DOMAIN next = DOMAIN old \cup {key}
       /\ next[key] = IF key \in DOMAIN old THEN Wifi!Merge(old[key], a) ELSE a
       /\ \A k \in DOMAIN old \ {key} : next[k] = old[k]
  BY <1>3, <1>4, <1>8, <1>9 DEF AddedTo
<1>11. /\ n \notin DOMAIN S /\ DOMAIN T = DOMAIN S \cup {n} /\ T[n] = s
  BY <1>2, AppendFacts
<1>12. IsFiniteSet(DOMAIN next)
  <2>1. IsFiniteSet(DOMAIN old \cup {key})
    BY <1>8, FS_AddElement
  <2> QED
    BY <1>10, <2>1
<1>13. \A k : Seen(S, k) \in SUBSET DOMAIN S
  BY DEF Seen
<1>14. SeenGrows(T, S, s, n)
  BY <1>2, SeenStep
<1>15. \A k \in DOMAIN old \ {key} : Seen(T, k) = Seen(S, k)
  <2> SUFFICES ASSUME NEW k \in DOMAIN old, k # key
               PROVE  Seen(T, k) = Seen(S, k)
    OBVIOUS
  <2>1. ~(~Wifi!Anonymous(s.ap) /\ Wifi!Key(s.ap) = k)
    BY <1>3, <1>7 DEF KeyOf
  <2> QED
    BY <1>14, <2>1 DEF SeenGrows
<1>16. \A k \in DOMAIN next : IsAp(next[k]) /\ next[k].issues = Wifi!Assess(next[k])
  <2>1. key \in DOMAIN old => MergedWith(next[key], old[key], a)
    BY <1>6, <1>8, <1>10, MergeFacts
  <2>2. key \in DOMAIN old => IsAp(next[key]) /\ next[key].issues = Wifi!Assess(next[key])
    BY <2>1 DEF MergedWith
  <2>3. key \notin DOMAIN old => IsAp(next[key]) /\ next[key].issues = Wifi!Assess(next[key])
    BY <1>6, <1>10
  <2> QED
    BY <1>8, <1>10, <2>2, <2>3
<1>17. \A k \in DOMAIN next : next[k].bssid # Wifi!NoMac => k = <<"bssid", next[k].bssid>>
  <2>1. key \in DOMAIN old => MergedWith(next[key], old[key], a)
    BY <1>6, <1>8, <1>10, MergeFacts
  <2>2. key \in DOMAIN old => next[key].bssid = old[key].bssid
    BY <2>1 DEF MergedWith
  <2>3. a.bssid # Wifi!NoMac => key = <<"bssid", a.bssid>>
    BY <1>3 DEF KeyOf, Wifi!Anonymous, Wifi!Key
  <2>4. key \notin DOMAIN old => next[key] = a
    BY <1>10
  <2>5. next[key].bssid # Wifi!NoMac => key = <<"bssid", next[key].bssid>>
    BY <1>8, <2>2, <2>3, <2>4
  <2> QED
    BY <1>8, <1>10, <2>5
<1>18. \A k \in DOMAIN old \ {key} : Seen(T, k) # {} => Merged(next[k], T, Seen(T, k))
  BY <1>8, <1>10, <1>13, <1>15, MergedKept
<1>19. KeysGrow(T, S, s, n)
  BY <1>2, KeysStep
<1>20. CASE Wifi!Anonymous(a)
  <2>1. key = <<"anon", inv.anon>>
    BY <1>3, <1>20 DEF KeyOf
  <2>2. Unnamed(T) = Unnamed(S) \cup {n} /\ KeysOf(T) = KeysOf(S)
    BY <1>7, <1>19, <1>20 DEF KeysGrow
  <2>3. IsFiniteSet(Unnamed(S)) /\ n \notin Unnamed(S)
    BY <1>11, UnnamedFinite
  <2>4. Cardinality(Unnamed(T)) = inv.anon + 1
    BY <1>8, <2>2, <2>3, FS_AddElement
  <2>5. new.anon = inv.anon + 1
    BY <1>10, <1>20
  <2>6. AnonKeys(inv.anon + 1) = AnonKeys(inv.anon) \cup {key}
    BY <1>8, <2>1, AnonKeysFacts
  <2>7. DOMAIN next = KeysOf(T) \cup AnonKeys(new.anon)
    BY <1>8, <1>10, <2>2, <2>5, <2>6
  <2>8. Seen(T, key) = {}
    BY <2>1, NoAnonKey
  <2>9. \A k \in DOMAIN next : Seen(T, k) # {} => Merged(next[k], T, Seen(T, k))
    BY <1>10, <1>18, <2>8
  <2>10. Holds(new, T)
    BY <1>4, <1>8, <1>10, <1>12, <1>16, <1>17, <2>4, <2>5, <2>7 DEF Holds
  <2> QED
    BY <1>4, <1>16, <2>9, <2>10 DEF HoldsMerged, HoldsAssessed
<1>21. CASE ~Wifi!Anonymous(a)
  <2>1. key = Wifi!Key(s.ap)
    BY <1>3, <1>7, <1>21 DEF KeyOf
  <2>2. Unnamed(T) = Unnamed(S) /\ KeysOf(T) = KeysOf(S) \cup {key}
    BY <1>7, <1>19, <1>21, <2>1 DEF KeysGrow
  <2>3. new.anon = inv.anon
    BY <1>10, <1>21
  <2>4. DOMAIN next = KeysOf(T) \cup AnonKeys(new.anon)
    BY <1>8, <1>10, <2>2, <2>3
  <2>5. Seen(T, key) = Seen(S, key) \cup {n}
    BY <1>7, <1>21, <1>14, <2>1 DEF SeenGrows
  <2>6. Merged(next[key], T, Seen(T, key))
    <3>1. CASE key \in DOMAIN old
      <4>1. key \notin AnonKeys(inv.anon)
        BY <2>1, KeyFacts DEF AnonKeys
      <4>2. Seen(S, key) # {}
        BY <1>8, <3>1, <4>1, SeenKeys
      <4>3. Merged(old[key], S, Seen(S, key)) /\ IsAp(old[key])
        BY <1>8, <3>1, <4>2
      <4>4. MergedWith(next[key], old[key], a)
        BY <1>6, <1>8, <1>10, <3>1, MergeFacts
      <4>5. Merged(next[key], T, Seen(S, key) \cup {n})
        BY <1>2, <1>5, <1>6, <1>13, <4>3, <4>4, MergedFilled
      <4> QED
        BY <2>5, <4>5
    <3>2. CASE key \notin DOMAIN old
      <4>1. Seen(S, key) = {}
        BY <1>8, <3>2, SeenKeys
      <4>2. Merged(a, T, {n})
        BY <1>2, <1>5, <1>6, MergedNew
      <4> QED
        BY <1>10, <2>5, <3>2, <4>1, <4>2
    <3> QED
      BY <3>1, <3>2
  <2>7. \A k \in DOMAIN next : Seen(T, k) # {} => Merged(next[k], T, Seen(T, k))
    BY <1>10, <1>18, <2>6
  <2>8. Cardinality(Unnamed(T)) = new.anon
    BY <1>8, <2>2, <2>3
  <2>9. Holds(new, T)
    BY <1>4, <1>8, <1>10, <1>12, <1>16, <1>17, <2>3, <2>4, <2>8 DEF Holds
  <2> QED
    BY <1>4, <1>16, <2>7, <2>9 DEF HoldsMerged, HoldsAssessed
<1> QED
  BY <1>20, <1>21

-----------------------------------------------------------------------------
(* What a capture collects.                                                *)
LEMMA CapturedKey ==
    ASSUME Wifi!WirelessAssumption, NEW s \in Sighting, Truthful(s), s.source = "capture"
    PROVE  /\ s.ap.bssid = s.radio.mac /\ s.ap.bssid # Wifi!NoMac
           /\ ~Wifi!Anonymous(s.ap) /\ Wifi!Key(s.ap) = <<"bssid", s.ap.bssid>>
<1>1. s.radio \in Radios
  BY DEF Sighting
<1>2. s.radio.mac # Wifi!NoMac
  BY <1>1 DEF Wifi!WirelessAssumption
<1>3. s.ap.bssid = s.radio.mac
  BY DEF Truthful
<1> QED
  BY <1>2, <1>3 DEF Wifi!Anonymous, Wifi!Key

EntryOf(A, ap) ==
    IF ap.bssid \in DOMAIN A
    THEN [A[ap.bssid] EXCEPT
            !.signal = Wifi!Stronger(A[ap.bssid].signal, ap.signal),
            !.ssid = IF A[ap.bssid].ssid = "" THEN ap.ssid ELSE A[ap.bssid].ssid]
    ELSE ap

Put(A, b, entry) == [c \in DOMAIN A \cup {b} |-> IF c = b THEN entry ELSE A[c]]

LEMMA CollectStep ==
    ASSUME Wifi!WirelessAssumption, NEW A, NEW F, Holding(A, F),
           NEW s \in Sighting, Truthful(s), s.source = "capture", NEW G, G = Append(F, s),
           NEW entry, entry = EntryOf(A, s.ap),
           NEW B, B = Put(A, s.ap.bssid, entry)
    PROVE  Holding(B, G)
<1>1. PICK n, mac, key : n = Len(F) + 1 /\ mac = s.ap.bssid /\ key = <<"bssid", mac>>
  OBVIOUS
<1>2. /\ IsTold(F) /\ \A i \in DOMAIN F : F[i].source = "capture"
      /\ IsFiniteSet(DOMAIN A) /\ DOMAIN A = {F[i].radio.mac : i \in DOMAIN F}
      /\ \A b \in DOMAIN A : IsAp(A[b]) /\ A[b].bssid = b
      /\ \A b \in DOMAIN A : Collected(A[b], F, Seen(F, <<"bssid", b>>))
  BY DEF Holding
<1>3. /\ n \notin DOMAIN F /\ DOMAIN G = DOMAIN F \cup {n} /\ G[n] = s /\ IsTold(G)
      /\ \A i \in DOMAIN F : G[i] = F[i]
  <2>1. n \notin DOMAIN F /\ DOMAIN G = DOMAIN F \cup {n} /\ G[n] = s
    BY <1>1, <1>2, AppendFacts
  <2>2. \A i \in DOMAIN F : G[i] = F[i]
    BY <1>1, <1>2, AppendFacts
  <2>3. IsTold(G)
    BY <1>2, AppendTold
  <2> QED
    BY <2>1, <2>2, <2>3
<1>4. s.radio.mac = mac /\ ~Wifi!Anonymous(s.ap) /\ Wifi!Key(s.ap) = key
  BY <1>1, CapturedKey
<1>5. SeenGrows(G, F, s, n)
  BY <1>1, <1>2, SeenStep
<1>6. IsAp(s.ap)
  BY DEF Truthful
<1>7. DOMAIN B = DOMAIN A \cup {mac} /\ B[mac] = entry /\ \A b \in DOMAIN A \ {mac} : B[b] = A[b]
  BY <1>1 DEF Put
<1>8. \A i \in DOMAIN G : G[i].source = "capture"
  BY <1>2, <1>3
<1>9. IsFiniteSet(DOMAIN B)
  <2>1. IsFiniteSet(DOMAIN A \cup {mac})
    BY <1>2, FS_AddElement
  <2> QED
    BY <1>7, <2>1
<1>10. DOMAIN B = {G[i].radio.mac : i \in DOMAIN G}
  <2>1. {G[i].radio.mac : i \in DOMAIN G} = {F[i].radio.mac : i \in DOMAIN F} \cup {G[n].radio.mac}
    BY <1>3
  <2> QED
    BY <1>2, <1>3, <1>4, <1>7, <2>1
<1>11. \A b \in DOMAIN A \ {mac} :
          IsAp(B[b]) /\ B[b].bssid = b /\ Collected(B[b], G, Seen(G, <<"bssid", b>>))
  <2> SUFFICES ASSUME NEW b \in DOMAIN A, b # mac
               PROVE  IsAp(B[b]) /\ B[b].bssid = b /\ Collected(B[b], G, Seen(G, <<"bssid", b>>))
    OBVIOUS
  <2>1. Seen(G, <<"bssid", b>>) = Seen(F, <<"bssid", b>>)
    BY <1>1, <1>4, <1>5 DEF SeenGrows
  <2>2. Seen(F, <<"bssid", b>>) \in SUBSET DOMAIN F
    BY DEF Seen
  <2>3. Collected(A[b], G, Seen(F, <<"bssid", b>>))
    BY <1>2, <2>2, CollectedKept
  <2> QED
    BY <1>2, <1>7, <2>1, <2>3
<1>12. Seen(G, key) = Seen(F, key) \cup {n}
  BY <1>4, <1>5 DEF SeenGrows
<1>13. IsAp(entry) /\ entry.bssid = mac /\ Collected(entry, G, Seen(G, key))
  <2>1. CASE mac \in DOMAIN A
    <3>1. PICK e : e = A[mac]
      OBVIOUS
    <3>2. IsAp(e) /\ e.bssid = mac /\ Collected(e, F, Seen(F, key))
      BY <1>1, <1>2, <2>1, <3>1
    <3>3. PICK name : name = IF e.ssid = "" THEN s.ap.ssid ELSE e.ssid
      OBVIOUS
    <3>4. PICK level : level = Wifi!Stronger(e.signal, s.ap.signal)
      OBVIOUS
    <3>5. entry = [e EXCEPT !.signal = level, !.ssid = name]
      BY <1>1, <2>1, <3>1, <3>3, <3>4 DEF EntryOf
    <3>6. e = [f \in Fields |-> e[f]] /\ e.signal \in Int /\ s.ap.signal \in Int
      BY <1>6, <3>2 DEF IsAp
    <3>7. level \in Int
      BY <3>4, <3>6 DEF Wifi!Stronger
    <3>8. DOMAIN e = Fields
      BY <3>6
    <3>9. /\ DOMAIN entry = Fields /\ entry.signal = level /\ entry.ssid = name
          /\ entry.bssid = e.bssid /\ entry.encryption = e.encryption /\ entry.wps = e.wps
          /\ entry = [f \in Fields |-> entry[f]]
          /\ \A f \in Fields \ {"signal", "ssid"} : entry[f] = e[f]
      BY <3>5, <3>8 DEF Fields
    <3>10. IsAp(entry)
      BY <3>2, <3>7, <3>9 DEF IsAp
    <3>11. Seen(F, key) \in SUBSET DOMAIN F
      BY DEF Seen
    <3>12. Collected(entry, G, Seen(F, key) \cup {n})
      <4>1. PICK seen \in SUBSET DOMAIN F : seen = Seen(F, key)
        BY <3>11
      <4>2. Collected(e, F, seen)
        BY <3>2, <4>1
      <4>3. CollectedWith(entry, e, s.ap)
        BY <3>3, <3>4, <3>9, UnknownFacts DEF CollectedWith
      <4>4. Collected(entry, G, seen \cup {n})
        BY <1>1, <1>2, <1>6, <3>2, <4>2, <4>3, CollectedFilled
      <4> QED
        BY <4>1, <4>4
    <3> QED
      BY <1>12, <3>2, <3>9, <3>10, <3>12
  <2>2. CASE mac \notin DOMAIN A
    <3>1. entry = s.ap
      BY <1>1, <2>2 DEF EntryOf
    <3>2. SameButIssues(entry, s.ap)
      BY <3>1 DEF SameButIssues
    <3>3. Collected(entry, G, {n})
      BY <1>1, <1>2, <1>6, <3>2, CollectedNew
    <3>4. Seen(F, key) = {}
      <4> SUFFICES ASSUME NEW i \in Seen(F, key)
                   PROVE  FALSE
        OBVIOUS
      <4>1. i \in DOMAIN F /\ Wifi!Key(F[i].ap) = key
        BY DEF Seen
      <4>2. F[i] \in Sighting /\ Truthful(F[i]) /\ F[i].source = "capture"
        BY <1>2, <4>1 DEF IsTold
      <4>3. Wifi!Key(F[i].ap) = <<"bssid", F[i].radio.mac>>
        BY <4>2, CapturedKey
      <4>4. F[i].radio.mac = mac
        BY <1>1, <4>1, <4>3
      <4> QED
        BY <1>2, <2>2, <4>1, <4>4
    <3> QED
      BY <1>1, <1>6, <1>12, <3>1, <3>3, <3>4
  <2> QED
    BY <2>1, <2>2
<1>14. \A b \in DOMAIN B :
          IsAp(B[b]) /\ B[b].bssid = b /\ Collected(B[b], G, Seen(G, <<"bssid", b>>))
  BY <1>1, <1>7, <1>11, <1>13
<1> QED
  BY <1>3, <1>8, <1>9, <1>10, <1>14 DEF Holding

LEMMA ClientsAre ==
    ASSUME NEW b,
           pairs \subseteq (Stations \cup {Broadcast} \cup Wifi!Macs)
                              \X (Stations \cup {Broadcast} \cup Wifi!Macs)
    PROVE  Wifi!ClientsOf(b) = Linked(pairs, b)
<1>1. ASSUME NEW c \in Wifi!ClientsOf(b)
      PROVE  c \in Linked(pairs, b)
  <2>1. c # Broadcast /\ (<<b, c>> \in pairs \/ <<c, b>> \in pairs)
    BY <1>1 DEF Wifi!ClientsOf
  <2>2. c \in (Stations \cup Wifi!Macs) \ {Broadcast}
    BY <2>1
  <2>3. \E p \in pairs : {p[1], p[2]} = {b, c}
    <3>1. CASE <<b, c>> \in pairs
      BY <3>1
    <3>2. CASE <<c, b>> \in pairs
      BY <3>2
    <3> QED
      BY <2>1, <3>1, <3>2
  <2> QED
    BY <2>2, <2>3 DEF Linked
<1>2. ASSUME NEW c \in Linked(pairs, b)
      PROVE  c \in Wifi!ClientsOf(b)
  <2>1. c # Broadcast
    BY <1>2 DEF Linked
  <2>2. PICK p \in pairs : {p[1], p[2]} = {b, c}
    BY <1>2 DEF Linked
  <2>3. p = <<p[1], p[2]>>
    OBVIOUS
  <2>4. p = <<b, c>> \/ p = <<c, b>>
    BY <2>2, <2>3
  <2>5. c \in {q[1] : q \in pairs} \cup {q[2] : q \in pairs}
    BY <2>4
  <2> QED
    BY <2>1, <2>4, <2>5 DEF Wifi!ClientsOf
<1> QED
  BY <1>1, <1>2

(* What finalize makes of it.                                              *)
LEMMA FinalizedFacts ==
    ASSUME Wifi!WirelessAssumption, Holding(aps, frames), NEW inv, inv = Wifi!Finalized,
           pairs \subseteq (Stations \cup {Broadcast} \cup Wifi!Macs)
                              \X (Stations \cup {Broadcast} \cup Wifi!Macs)
    PROVE  Holds(inv, frames) /\ HoldsCollected(inv, frames, pairs) /\ HoldsAssessed(inv)
<1> DEFINE keys == {<<"bssid", b>> : b \in DOMAIN aps}
           raw(b) == [aps[b] EXCEPT !.clients = Wifi!ClientsOf(b)]
           next == [k \in keys |-> Wifi!Assessed(raw(k[2]))]
<1>1. /\ IsTold(frames) /\ \A i \in DOMAIN frames : frames[i].source = "capture"
      /\ IsFiniteSet(DOMAIN aps) /\ DOMAIN aps = {frames[i].radio.mac : i \in DOMAIN frames}
      /\ \A b \in DOMAIN aps : IsAp(aps[b]) /\ aps[b].bssid = b
      /\ \A b \in DOMAIN aps : Collected(aps[b], frames, Seen(frames, <<"bssid", b>>))
  BY DEF Holding
<1>2. inv = [access_points |-> next, anon |-> 0, ble_devices |-> <<>>]
  BY DEF Wifi!Finalized, Wifi!EmptyInventory
<1>3. DOMAIN inv = {"access_points", "anon", "ble_devices"} /\ inv.anon = 0
  BY <1>2
<1>4. inv.access_points = next /\ DOMAIN next = keys
  BY <1>2
<1>5. ASSUME NEW b \in DOMAIN aps
      PROVE  LET e == next[<<"bssid", b>>]
             IN  /\ IsAp(e) /\ e.bssid = b /\ e.issues = Wifi!Assess(e)
                 /\ e.clients = Linked(pairs, b)
                 /\ Collected(e, frames, Seen(frames, <<"bssid", b>>))
  <2>1. PICK e, g, old : /\ e = next[<<"bssid", b>>] /\ g = raw(b) /\ old = aps[b]
    OBVIOUS
  <2>2. e = Wifi!Assessed(g)
    BY <2>1
  <2>3. IsAp(old) /\ old.bssid = b /\ Collected(old, frames, Seen(frames, <<"bssid", b>>))
    BY <1>1, <2>1
  <2>4. old = [f \in Fields |-> old[f]] /\ DOMAIN old = Fields
    BY <2>3 DEF IsAp
  <2>5. g = [old EXCEPT !.clients = Linked(pairs, b)]
    BY <2>1, ClientsAre
  <2>6. /\ DOMAIN g = Fields /\ g = [f \in Fields |-> g[f]] /\ g.clients = Linked(pairs, b)
        /\ \A f \in Fields \ {"clients"} : g[f] = old[f]
    BY <2>4, <2>5 DEF Fields
  <2>7. /\ g.bssid = old.bssid /\ g.ssid = old.ssid /\ g.encryption = old.encryption
        /\ g.signal = old.signal /\ g.wps = old.wps
    BY <2>6 DEF Fields
  <2>8. IsAp(g)
    BY <2>3, <2>6, <2>7 DEF IsAp
  <2>9. IsAp(e) /\ e.issues = Wifi!Assess(e) /\ \A f \in Fields \ {"issues"} : e[f] = g[f]
    BY <2>2, <2>8, AssessedIs
  <2>10. SameButIssues(e, g)
    BY <2>9 DEF SameButIssues
  <2>11. /\ e.bssid = g.bssid /\ e.ssid = g.ssid /\ e.signal = g.signal
         /\ e.clients = g.clients /\ \A f \in Property : e[f] = g[f]
    BY <2>10, SameFields
  <2>13. \A f \in Property : e[f] = old[f]
    BY <2>6, <2>11, UnknownFacts
  <2>12. Collected(e, frames, Seen(frames, <<"bssid", b>>))
    BY <2>3, <2>7, <2>11, <2>13 DEF Collected
  <2> QED
    BY <2>1, <2>3, <2>6, <2>7, <2>9, <2>11, <2>12
<1>6. ASSUME NEW i \in DOMAIN frames
      PROVE  /\ ~Wifi!Anonymous(frames[i].ap)
             /\ Wifi!Key(frames[i].ap) = <<"bssid", frames[i].radio.mac>>
  <2>1. frames[i] \in Sighting /\ Truthful(frames[i]) /\ frames[i].source = "capture"
    BY <1>1 DEF IsTold
  <2> QED
    BY <2>1, CapturedKey
<1>7. Unnamed(frames) = {}
  BY <1>6 DEF Unnamed
<1>8. KeysOf(frames) = keys
  <2>1. KeysOf(frames) = {<<"bssid", frames[i].radio.mac>> : i \in DOMAIN frames}
    BY <1>6, <1>7 DEF KeysOf
  <2> QED
    BY <1>1, <2>1
<1>9. IsFiniteSet(keys)
  <2> DEFINE f == [b \in DOMAIN aps |-> <<"bssid", b>>]
  <2>1. f \in Surjection(DOMAIN aps, keys)
    BY DEF Surjection
  <2> QED
    BY <1>1, <2>1, FS_Surjection
<1> HIDE DEF keys, next
<1>10. ASSUME NEW k \in keys
       PROVE  LET e == next[k]
              IN  /\ IsAp(e) /\ k = <<"bssid", e.bssid>> /\ e.issues = Wifi!Assess(e)
                  /\ Collected(e, frames, Seen(frames, k)) /\ e.clients = Linked(pairs, e.bssid)
  <2>1. PICK b \in DOMAIN aps : k = <<"bssid", b>>
    BY DEF keys
  <2> QED
    BY <1>5, <2>1
<1>11. AnonKeys(0) = {} /\ Cardinality({}) = 0
  BY AnonKeysFacts, FS_EmptySet
<1>12. Holds(inv, frames)
  <2>1. IsFiniteSet(DOMAIN inv.access_points)
    BY <1>4, <1>9
  <2>2. DOMAIN inv.access_points = KeysOf(frames) \cup AnonKeys(inv.anon)
    BY <1>3, <1>4, <1>8, <1>11
  <2>3. Cardinality(Unnamed(frames)) = inv.anon /\ inv.anon \in Nat
    BY <1>3, <1>7, <1>11
  <2> QED
    BY <1>3, <1>4, <1>10, <2>1, <2>2, <2>3 DEF Holds
<1>13. HoldsCollected(inv, frames, pairs) /\ HoldsAssessed(inv)
  BY <1>4, <1>10 DEF HoldsCollected, HoldsAssessed
<1> QED
  BY <1>12, <1>13

-----------------------------------------------------------------------------
(* Evil twins.                                                             *)
LEMMA SeveralFacts ==
    ASSUME NEW S, IsFiniteSet(S)
    PROVE  Wifi!Cardinality(S) > 1 <=> \E x, y \in S : x # y
<1>1. Wifi!Cardinality(S) = Cardinality(S)
  BY CardinalityIs
<1>2. Cardinality(S) \in Nat
  BY FS_CardinalityType
<1>3. Cardinality(S) = 0 <=> S = {}
  BY FS_EmptySet
<1>4. Cardinality(S) = 1 <=> \E x : S = {x}
  BY FS_Singleton
<1>5. ASSUME Cardinality(S) > 1
      PROVE  \E x, y \in S : x # y
  <2>1. S # {}
    BY <1>2, <1>3, <1>5
  <2>2. PICK x : x \in S
    BY <2>1
  <2>3. S # {x}
    BY <1>2, <1>4, <1>5
  <2> QED
    BY <2>2, <2>3
<1>6. ASSUME NEW x \in S, NEW y \in S, x # y
      PROVE  Cardinality(S) > 1
  <2>1. Cardinality(S) # 0 /\ Cardinality(S) # 1
    BY <1>3, <1>4, <1>6
  <2> QED
    BY <1>2, <2>1
<1> QED
  BY <1>1, <1>5, <1>6

LEMMA ImageIsFinite ==
    ASSUME NEW S, IsFiniteSet(S), NEW f, DOMAIN f = S
    PROVE  IsFiniteSet({f[x] : x \in S})
<1> DEFINE g == [x \in S |-> f[x]]
<1>1. g \in Surjection(S, {f[x] : x \in S})
  BY DEF Surjection
<1> QED
  BY <1>1, FS_Surjection

(* The note of a group, in terms of its members.                           *)
LEMMA TwinNoteFacts ==
    ASSUME NEW group, IsFiniteSet(group)
    PROVE  /\ \A i \in Wifi!TwinNote(group) : i[1] = "twin"
           /\ Wifi!Cardinality(Wifi!TwinNote(group)) =
                 IF (\E o, q \in group : o.bssid # q.bssid) /\ (\E o, q \in group : Differ(o, q))
                 THEN 1 ELSE 0
<1> DEFINE bssids == {ap.bssid : ap \in group}
           encryptions == {ap.encryption : ap \in group}
           ouis == {Wifi!OUI(b) : b \in bssids}
           note == IF Wifi!Cardinality(encryptions) > 1 THEN <<"twin", "encryption", encryptions>>
                   ELSE <<"twin", "vendor", ouis>>
<1>1. Wifi!TwinNote(group) =
         IF /\ Wifi!Cardinality(bssids) > 1
            /\ Wifi!Cardinality(encryptions) > 1 \/ Wifi!Cardinality(ouis) > 1
         THEN {note} ELSE {}
  BY DEF Wifi!TwinNote
<1>2. note[1] = "twin"
  OBVIOUS
<1>3. IsFiniteSet(bssids) /\ IsFiniteSet(encryptions) /\ IsFiniteSet(ouis)
  <2> DEFINE f == [ap \in group |-> ap.bssid]
             g == [ap \in group |-> ap.encryption]
             h == [b \in bssids |-> Wifi!OUI(b)]
  <2>1. bssids = {f[ap] : ap \in group} /\ encryptions = {g[ap] : ap \in group}
    OBVIOUS
  <2>2. ouis = {h[b] : b \in bssids}
    OBVIOUS
  <2>3. DOMAIN f = group /\ DOMAIN g = group /\ DOMAIN h = bssids
    OBVIOUS
  <2> HIDE DEF f, g, h
  <2>4. IsFiniteSet({f[ap] : ap \in group}) /\ IsFiniteSet({g[ap] : ap \in group})
    BY <2>3, ImageIsFinite
  <2>5. IsFiniteSet(bssids) /\ IsFiniteSet(encryptions)
    BY <2>1, <2>4
  <2> HIDE DEF bssids
  <2>6. IsFiniteSet({h[b] : b \in bssids})
    BY <2>3, <2>5, ImageIsFinite
  <2> QED
    BY <2>2, <2>5, <2>6
<1>4. Wifi!Cardinality(bssids) > 1 <=> \E o, q \in group : o.bssid # q.bssid
  <2>1. Wifi!Cardinality(bssids) > 1 <=> \E x, y \in bssids : x # y
    <3> HIDE DEF bssids
    <3> QED
      BY <1>3, SeveralFacts
  <2> QED
    BY <2>1
<1>5. Wifi!Cardinality(encryptions) > 1 <=> \E o, q \in group : o.encryption # q.encryption
  <2>1. Wifi!Cardinality(encryptions) > 1 <=> \E x, y \in encryptions : x # y
    <3> HIDE DEF encryptions
    <3> QED
      BY <1>3, SeveralFacts
  <2> QED
    BY <2>1
<1>6. Wifi!Cardinality(ouis) > 1 <=> \E o, q \in group : Wifi!OUI(o.bssid) # Wifi!OUI(q.bssid)
  <2>1. Wifi!Cardinality(ouis) > 1 <=> \E x, y \in ouis : x # y
    <3> HIDE DEF ouis
    <3> QED
      BY <1>3, SeveralFacts
  <2> QED
    BY <2>1
<1>7. /\ Wifi!Cardinality(encryptions) > 1 \/ Wifi!Cardinality(ouis) > 1 <=>
            \E o, q \in group : Differ(o, q)
  BY <1>5, <1>6 DEF Differ
<1> HIDE DEF note, bssids, encryptions, ouis
<1>8. Wifi!Cardinality({note}) = 1 /\ Wifi!Cardinality({}) = 0
  BY CardinalityIs, FS_Singleton, FS_EmptySet
<1> QED
  BY <1>1, <1>2, <1>4, <1>7, <1>8

(* The entries that share the name of one.                                 *)
Alike(next, es) ==
    DOMAIN next = DOMAIN es /\ \A j \in DOMAIN es : SameButIssues(next[j], es[j])

Keyed(es) ==
    \A j \in DOMAIN es : es[j].bssid # Wifi!NoMac => j = <<"bssid", es[j].bssid>>

TwinsDiffer(group) ==
    (\E o, q \in group : o.bssid # q.bssid) /\ (\E o, q \in group : Differ(o, q))

LEMMA TwinsFacts ==
    ASSUME NEW es, NEW next, Alike(next, es), Keyed(es), IsFiniteSet(DOMAIN es),
           NEW k \in DOMAIN es, es[k].ssid # "", es[k].bssid # Wifi!NoMac,
           NEW group, group = Wifi!Named(Wifi!Range(es), es[k].ssid)
    PROVE  /\ IsFiniteSet(group)
           /\ SuspiciousIn(next, next[k]) <=> TwinsDiffer(group)
<1> DEFINE K == {j \in DOMAIN es : es[j].ssid = es[k].ssid /\ es[j].bssid # Wifi!NoMac}
<1>1. group = {es[j] : j \in K}
  BY DEF Wifi!Named, Wifi!Range
<1>2. IsFiniteSet(group)
  <2>1. IsFiniteSet(K)
    BY FS_Subset
  <2> DEFINE f == [j \in K |-> es[j]]
  <2>2. DOMAIN f = K
    OBVIOUS
  <2>3. group = {f[j] : j \in K}
    BY <1>1
  <2> HIDE DEF f, K
  <2>4. IsFiniteSet({f[j] : j \in K})
    BY <2>1, <2>2, ImageIsFinite
  <2> QED
    BY <2>3, <2>4
<1>3. \A j \in DOMAIN es :
         /\ next[j].bssid = es[j].bssid /\ next[j].ssid = es[j].ssid
         /\ next[j].encryption = es[j].encryption
  <2> SUFFICES ASSUME NEW j \in DOMAIN es
               PROVE  /\ next[j].bssid = es[j].bssid /\ next[j].ssid = es[j].ssid
                      /\ next[j].encryption = es[j].encryption
    OBVIOUS
  <2>1. PICK a, b : a = next[j] /\ b = es[j]
    OBVIOUS
  <2>2. SameButIssues(a, b)
    BY <2>1 DEF Alike
  <2>3. a.bssid = b.bssid /\ a.ssid = b.ssid /\ a.encryption = b.encryption
    BY <2>2, SameFields
  <2> QED
    BY <2>1, <2>3
<1>4. \A i, j \in K : es[i].bssid = es[j].bssid => i = j
  BY DEF Keyed
<1>5. k \in K
  OBVIOUS
<1>6. TwinsIn(next, next[k]) = {next[j] : j \in K \ {k}}
  <2>1. TwinsIn(next, next[k]) =
           {next[j] : j \in {i \in DOMAIN es : /\ next[i].ssid = next[k].ssid
                                               /\ next[i].bssid # Wifi!NoMac
                                               /\ next[i].bssid # next[k].bssid}}
    BY DEF TwinsIn, Wifi!Range, Alike
  <2>2. {i \in DOMAIN es : /\ next[i].ssid = next[k].ssid /\ next[i].bssid # Wifi!NoMac
                           /\ next[i].bssid # next[k].bssid} = K \ {k}
    <3>1. \A i \in DOMAIN es :
             /\ next[i].ssid = next[k].ssid <=> es[i].ssid = es[k].ssid
             /\ next[i].bssid # Wifi!NoMac <=> es[i].bssid # Wifi!NoMac
             /\ next[i].bssid # next[k].bssid <=> es[i].bssid # es[k].bssid
      BY <1>3
    <3>2. \A i \in K : es[i].bssid # es[k].bssid <=> i # k
      BY <1>4, <1>5
    <3> QED
      BY <3>1, <3>2
  <2> QED
    BY <2>1, <2>2
<1>7. \A i, j \in K : Differ(next[i], next[j]) <=> Differ(es[i], es[j])
  BY <1>3 DEF Differ
<1>8. next[k].ssid # "" /\ next[k].bssid # Wifi!NoMac
  BY <1>3
<1>9. SuspiciousIn(next, next[k]) <=> \E i \in K \ {k}, j \in K : Differ(es[i], es[j])
  <2>1. SuspiciousIn(next, next[k]) <=> \E i \in K \ {k}, j \in K : Differ(next[i], next[j])
    <3>1. TwinsIn(next, next[k]) \cup {next[k]} = {next[j] : j \in K}
      BY <1>5, <1>6
    <3>2. SuspiciousIn(next, next[k]) <=>
             \E o \in {next[j] : j \in K \ {k}}, q \in {next[j] : j \in K} : Differ(o, q)
      BY <1>6, <1>8, <3>1 DEF SuspiciousIn
    <3> HIDE DEF K
    <3> QED
      BY <3>2
  <2> HIDE DEF K
  <2> QED
    BY <1>7, <2>1
<1>10. \A i, j \in K : Differ(es[i], es[j]) => Differ(es[j], es[i]) /\ i # j
  BY DEF Differ
<1> HIDE DEF K
<1>11. ASSUME NEW i \in K \ {k}, NEW j \in K, Differ(es[i], es[j])
       PROVE  TwinsDiffer(group)
  <2>1. es[i] \in group /\ es[j] \in group /\ es[k] \in group
    BY <1>1, <1>5
  <2>2. es[i].bssid # es[k].bssid
    BY <1>4, <1>5
  <2> QED
    BY <1>11, <2>1, <2>2 DEF TwinsDiffer
<1>12. ASSUME NEW o \in group, NEW q \in group, Differ(o, q)
       PROVE  \E i \in K \ {k}, j \in K : Differ(es[i], es[j])
  <2>1. PICK i \in K, j \in K : o = es[i] /\ q = es[j]
    BY <1>1
  <2>2. Differ(es[i], es[j]) /\ Differ(es[j], es[i]) /\ i # j
    BY <1>10, <1>12, <2>1
  <2> QED
    BY <2>1, <2>2
<1> QED
  BY <1>2, <1>9, <1>11, <1>12 DEF TwinsDiffer

(* What detect_evil_twins adds.                                            *)
LEMMA DetectFacts ==
    ASSUME NEW inv, NEW S, NEW P, Holds(inv, S), HoldsAssessed(inv),
           NEW new, new = Wifi!DetectTwins(inv)
    PROVE  /\ Holds(new, S) /\ HoldsNoted(new)
           /\ HoldsMerged(inv, S) => HoldsMerged(new, S)
           /\ HoldsCollected(inv, S, P) => HoldsCollected(new, S, P)
<1>1. PICK es : es = inv.access_points
  OBVIOUS
<1> DEFINE Note(ap) == IF ap.ssid = "" \/ ap.bssid = Wifi!NoMac THEN {}
                       ELSE Wifi!TwinNote(Wifi!Named(Wifi!Range(es), ap.ssid))
           next == [k \in DOMAIN es |-> [es[k] EXCEPT !.issues = es[k].issues \cup Note(es[k])]]
<1>2. new = [inv EXCEPT !.access_points = next]
  BY <1>1 DEF Wifi!DetectTwins
<1>3. /\ DOMAIN inv = {"access_points", "anon", "ble_devices"} /\ inv.anon \in Nat
      /\ IsFiniteSet(DOMAIN es) /\ Cardinality(Unnamed(S)) = inv.anon
      /\ DOMAIN es = KeysOf(S) \cup AnonKeys(inv.anon)
      /\ \A k \in DOMAIN es : IsAp(es[k]) /\ es[k].issues = Wifi!Assess(es[k])
      /\ \A k \in DOMAIN es : es[k].bssid # Wifi!NoMac => k = <<"bssid", es[k].bssid>>
  BY <1>1 DEF Holds, HoldsAssessed
<1>4. DOMAIN next = DOMAIN es
  OBVIOUS
<1>5. \A k \in DOMAIN es : next[k] = [es[k] EXCEPT !.issues = es[k].issues \cup Note(es[k])]
  OBVIOUS
<1> HIDE DEF next
<1>6. DOMAIN new = DOMAIN inv /\ new.anon = inv.anon /\ new.access_points = next
  BY <1>2, <1>3
<1>7. ASSUME NEW k \in DOMAIN es
      PROVE  /\ IsAp(next[k]) /\ SameButIssues(next[k], es[k])
             /\ next[k].issues = Wifi!Assess(next[k]) \cup Note(es[k])
  <2>1. PICK e, old, note : e = next[k] /\ old = es[k] /\ note = Note(es[k])
    OBVIOUS
  <2>2. /\ IsAp(old) /\ old.issues = Wifi!Assess(old)
        /\ e = [old EXCEPT !.issues = old.issues \cup note]
    BY <1>3, <1>5, <2>1
  <2>3. old = [f \in Fields |-> old[f]]
    BY <2>2 DEF IsAp
  <2>4. /\ e = [f \in Fields |-> e[f]] /\ e.issues = Wifi!Assess(old) \cup note
        /\ \A f \in Fields \ {"issues"} : e[f] = old[f]
    BY <2>2, <2>3 DEF Fields
  <2>5. SameButIssues(e, old)
    BY <2>4 DEF SameButIssues
  <2>6. /\ e.encryption = old.encryption /\ e.cipher = old.cipher /\ e.wps = old.wps
        /\ e.auth = old.auth /\ e.ssid = old.ssid /\ e.signal = old.signal
    BY <2>5, SameFields
  <2>7. Wifi!Assess(e) = Wifi!Assess(old)
    BY <2>6, AssessSame
  <2>8. IsAp(e)
    BY <2>2, <2>4, <2>6 DEF IsAp
  <2> QED
    BY <2>1, <2>4, <2>5, <2>7, <2>8
<1>8. \A k \in DOMAIN es : next[k].bssid # Wifi!NoMac => k = <<"bssid", next[k].bssid>>
  <2> SUFFICES ASSUME NEW k \in DOMAIN es, next[k].bssid # Wifi!NoMac
               PROVE  k = <<"bssid", next[k].bssid>>
    OBVIOUS
  <2>1. next[k].bssid = es[k].bssid
    BY <1>7, SameFields
  <2> QED
    BY <1>3, <2>1
<1>9. Holds(new, S)
  BY <1>3, <1>4, <1>6, <1>7, <1>8 DEF Holds
<1>10. ASSUME NEW k \in DOMAIN es
       PROVE  /\ next[k].issues \ Wifi!Notes(next[k]) = Wifi!Assess(next[k])
              /\ Wifi!Cardinality(Wifi!Notes(next[k])) =
                    IF SuspiciousIn(next, next[k]) THEN 1 ELSE 0
  <2>1. PICK e, old, note : e = next[k] /\ old = es[k] /\ note = Note(es[k])
    OBVIOUS
  <2>2. e.issues = Wifi!Assess(e) \cup note /\ e.ssid = old.ssid /\ e.bssid = old.bssid
    <3>1. SameButIssues(e, old)
      BY <1>7, <2>1
    <3>2. e.ssid = old.ssid /\ e.bssid = old.bssid
      BY <3>1, SameFields
    <3> QED
      BY <1>7, <2>1, <3>2
  <2>3. \A i \in Wifi!Assess(e) : i[1] # "twin"
    BY AssessFacts
  <2>4. CASE old.ssid = "" \/ old.bssid = Wifi!NoMac
    <3>1. note = {}
      BY <2>1, <2>4
    <3>2. Wifi!Notes(e) = {}
      BY <2>2, <2>3, <3>1 DEF Wifi!Notes
    <3>3. ~SuspiciousIn(next, e)
      BY <2>2, <2>4 DEF SuspiciousIn
    <3>4. Wifi!Cardinality({}) = 0
      BY CardinalityIs, FS_EmptySet
    <3> QED
      BY <2>1, <2>2, <3>1, <3>2, <3>3, <3>4
  <2>5. CASE ~(old.ssid = "" \/ old.bssid = Wifi!NoMac)
    <3>1. PICK group : group = Wifi!Named(Wifi!Range(es), es[k].ssid)
      OBVIOUS
    <3>2. note = Wifi!TwinNote(group)
      BY <2>1, <2>5, <3>1
    <3>3. Alike(next, es) /\ Keyed(es)
      BY <1>3, <1>4, <1>7 DEF Alike, Keyed
    <3>4. es[k].ssid # "" /\ es[k].bssid # Wifi!NoMac
      BY <2>1, <2>5
    <3>5. /\ IsFiniteSet(group)
          /\ SuspiciousIn(next, next[k]) <=> TwinsDiffer(group)
      <4>1. PICK q : q = next
        OBVIOUS
      <4>2. Alike(q, es) /\ Keyed(es) /\ IsFiniteSet(DOMAIN es)
        BY <1>3, <3>3, <4>1
      <4>3. IsFiniteSet(group) /\ (SuspiciousIn(q, q[k]) <=> TwinsDiffer(group))
        BY <3>1, <3>4, <4>2, TwinsFacts
      <4> QED
        BY <4>1, <4>3
    <3>6. /\ \A i \in note : i[1] = "twin"
          /\ Wifi!Cardinality(note) = IF TwinsDiffer(group) THEN 1 ELSE 0
      BY <3>2, <3>5, TwinNoteFacts DEF TwinsDiffer
    <3>7. Wifi!Notes(e) = note /\ e.issues \ note = Wifi!Assess(e)
      BY <2>2, <2>3, <3>6 DEF Wifi!Notes
    <3> QED
      BY <2>1, <3>5, <3>6, <3>7
  <2> QED
    BY <2>4, <2>5
<1>11. HoldsNoted(new)
  BY <1>4, <1>6, <1>10 DEF HoldsNoted
<1>12. ASSUME NEW k \in DOMAIN es, NEW seen
       PROVE  /\ Merged(es[k], S, seen) => Merged(next[k], S, seen)
              /\ Collected(es[k], S, seen) => Collected(next[k], S, seen)
              /\ next[k].clients = es[k].clients /\ next[k].bssid = es[k].bssid
  <2>1. /\ next[k].bssid = es[k].bssid /\ next[k].ssid = es[k].ssid
        /\ next[k].signal = es[k].signal /\ next[k].clients = es[k].clients
        /\ \A f \in Property : next[k][f] = es[k][f]
    <3>1. SameButIssues(next[k], es[k])
      BY <1>7
    <3> QED
      BY <3>1, SameFields
  <2> QED
    BY <2>1 DEF Merged, Collected
<1>13. HoldsMerged(inv, S) => HoldsMerged(new, S)
  BY <1>1, <1>4, <1>6, <1>12 DEF HoldsMerged
<1>14. HoldsCollected(inv, S, P) => HoldsCollected(new, S, P)
  BY <1>1, <1>4, <1>6, <1>12 DEF HoldsCollected
<1> QED
  BY <1>9, <1>11, <1>13, <1>14

-----------------------------------------------------------------------------
(* Every step preserves the invariant.                                     *)
LEMMA EmptyHolds ==
    /\ Holds(Wifi!EmptyInventory, <<>>) /\ HoldsMerged(Wifi!EmptyInventory, <<>>)
    /\ HoldsAssessed(Wifi!EmptyInventory)
<1>1. PICK inv : inv = Wifi!EmptyInventory
  OBVIOUS
<1>2. inv = [access_points |-> <<>>, anon |-> 0, ble_devices |-> <<>>]
  BY <1>1 DEF Wifi!EmptyInventory
<1>3. /\ DOMAIN inv = {"access_points", "anon", "ble_devices"} /\ inv.anon = 0
      /\ DOMAIN inv.access_points = {}
  BY <1>2
<1>4. Unnamed(<<>>) = {} /\ KeysOf(<<>>) = {}
  BY DEF Unnamed, KeysOf
<1>5. AnonKeys(0) = {} /\ Cardinality({}) = 0 /\ IsFiniteSet({})
  BY AnonKeysFacts, FS_EmptySet
<1>6. Holds(inv, <<>>)
  BY <1>3, <1>4, <1>5 DEF Holds
<1>7. HoldsMerged(inv, <<>>) /\ HoldsAssessed(inv)
  BY <1>3 DEF HoldsMerged, HoldsAssessed
<1> QED
  BY <1>1, <1>6, <1>7

LEMMA EmptyHolding == Holding(<<>>, <<>>)
<1>1. IsTold(<<>>)
  BY DEF IsTold
<1>2. IsFiniteSet({})
  BY FS_EmptySet
<1> QED
  BY <1>1, <1>2 DEF Holding

LEMMA ConfigFacts ==
    ASSUME Wifi!WirelessAssumption, config \in Commands
    PROVE  /\ config.command \in {"wifi", "ble", "walk", "wardrive"} /\ config.monitor \in BOOLEAN
           /\ config.format \in Wifi!Format /\ config.withheld \in BOOLEAN
           /\ config.monitor => config.root
           /\ config.tools \subseteq Wifi!Tool
<1>1. config \in Wifi!ConfigType /\ (config.monitor => config.root)
  BY DEF Wifi!WirelessAssumption
<1> QED
  BY <1>1 DEF Wifi!ConfigType

LEMMA NotReported ==
    /\ pc # "done" \/ config.command = "ble" => ReportInv
    /\ pc' # "done" \/ config'.command = "ble" => ReportInv'
BY DEF ReportInv

LEMMA InitHolds ==
    ASSUME Wifi!WirelessAssumption, Wifi!Init
    PROVE  WirelessInv
<1>1. /\ config \in Commands /\ child = "none" /\ frames = <<>> /\ aps = <<>> /\ pairs = {}
      /\ inventory = Wifi!EmptyInventory /\ told = <<>>
      /\ source = IF config.command = "wardrive" THEN config.format ELSE "none"
      /\ pc = CASE config.command = "wardrive" -> "adding"
                [] config.command = "ble" -> "ble"
                [] OTHER -> IF config.monitor THEN "capture" ELSE "nmcli"
  BY DEF Wifi!Init, Wifi!Process!Init
<1>2. /\ config.command \in {"wifi", "ble", "walk", "wardrive"} /\ config.monitor \in BOOLEAN
      /\ config.format \in Wifi!Format
  BY <1>1, ConfigFacts
<1>3. \/ config.command = "wardrive" /\ pc = "adding" /\ source = config.format
      \/ config.command = "ble" /\ pc = "ble" /\ source = "none"
      \/ config.command \in {"wifi", "walk"} /\ config.monitor /\ pc = "capture" /\ source = "none"
      \/ config.command \in {"wifi", "walk"} /\ pc = "nmcli" /\ source = "none"
  BY <1>1, <1>2
<1>4. IsTold(told) /\ ~Live(told)
  BY <1>1 DEF IsTold, Live
<1>5. source # "none" => source \in Wifi!Format
  BY <1>2, <1>3
<1>6. config.format # "none"
  BY <1>2 DEF Wifi!Format
<1>7. StageInv
  BY <1>1, <1>2, <1>3, <1>4, <1>6 DEF StageInv, Wifi!Tool
<1>8. CollectorInv
  BY <1>1, EmptyHolding DEF CollectorInv
<1>9. InventoryInv
  BY <1>1, <1>4, EmptyHolds DEF InventoryInv
<1>10. HoldsAssessed(inventory)
  BY <1>1, EmptyHolds
<1>11. IssuesInv
  BY <1>3, <1>10 DEF IssuesInv, Wifi!Built
<1>12. ReportInv
  BY <1>3, NotReported
<1> QED
  BY <1>7, <1>8, <1>9, <1>11, <1>12 DEF WirelessInv

(* The capture.                                                            *)
LEMMA BeaconHolds ==
    ASSUME Wifi!WirelessAssumption, WirelessInv, Wifi!Beacon
    PROVE  WirelessInv'
<1>1. PICK r \in Radios, signal \in Signals :
         /\ Wifi!Collect(Wifi!ApFromFrame(r, signal))
         /\ frames' = Append(frames, Wifi!Sees("capture", r, "version", Wifi!ApFromFrame(r, signal)))
  BY DEF Wifi!Beacon
<1>2. /\ pc = "capture" /\ config' = config /\ pc' = pc /\ child' = child /\ source' = source
      /\ pairs' = pairs /\ inventory' = inventory /\ told' = told
  BY DEF Wifi!Beacon, Wifi!scan
<1>3. PICK ap : ap = Wifi!ApFromFrame(r, signal)
  OBVIOUS
<1>4. PICK s : s = Wifi!Sees("capture", r, "version", ap)
  OBVIOUS
<1>5. ap \in ParsedFrom("capture", r, "version")
  <2>1. PICK withheld \in BOOLEAN : withheld = FALSE
    OBVIOUS
  <2>2. PICK from, place, wording : from = "capture" /\ place = "none" /\ wording = "version"
    OBVIOUS
  <2>3. ParsedBy(from, r, wording, signal, place, withheld) = {Wifi!ApFromFrame(r, signal)}
    BY <2>2 DEF ParsedBy, Wifi!Format
  <2>4. ap \in ParsedBy(from, r, wording, signal, place, withheld)
    BY <1>3, <2>3
  <2>5. place \in {"none", "exact"}
    BY <2>2
  <2>6. ap \in ParsedFrom(from, r, wording)
    BY <2>4, <2>5 DEF ParsedFrom
  <2> QED
    BY <2>2, <2>6
<1>6. s \in Sighting /\ Truthful(s)
  <2>1. "capture" \in Source /\ "version" \in Wifi!WordingsOf("capture")
    BY DEF Source, Wifi!WordingsOf, Wifi!Format
  <2> QED
    BY <1>4, <1>5, <2>1, Truthfulness
<1>7. s.source = "capture" /\ s.ap = ap
  BY <1>4 DEF Wifi!Sees
<1>8. PICK entry : entry = EntryOf(aps, s.ap)
  OBVIOUS
<1>9. aps' = Put(aps, s.ap.bssid, entry)
  BY <1>1, <1>3, <1>7, <1>8 DEF Wifi!Collect, EntryOf, Put
<1>10. frames' = Append(frames, s)
  BY <1>1, <1>3, <1>4
<1>11. Holding(aps, frames)
  BY DEF WirelessInv, CollectorInv
<1>12. Holding(aps', frames')
  <2>1. PICK A, F, B, G : A = aps /\ F = frames /\ B = aps' /\ G = frames'
    OBVIOUS
  <2>2. /\ Holding(A, F) /\ G = Append(F, s)
        /\ B = Put(A, s.ap.bssid, entry)
    BY <1>9, <1>10, <1>11, <2>1
  <2>3. entry = EntryOf(A, s.ap)
    BY <1>8, <2>1
  <2>4. Holding(B, G)
    BY <1>6, <1>7, <2>2, <2>3, CollectStep
  <2> QED
    BY <2>1, <2>4
<1>13. StageInv'
  BY <1>2 DEF WirelessInv, StageInv
<1>14. InventoryInv' /\ IssuesInv'
  BY <1>2 DEF WirelessInv, InventoryInv, IssuesInv, Wifi!Built
<1>15. ReportInv'
  BY <1>2, NotReported
<1> QED
  BY <1>12, <1>13, <1>14, <1>15 DEF WirelessInv, CollectorInv

LEMMA DataFrameHolds ==
    ASSUME Wifi!WirelessAssumption, WirelessInv, Wifi!DataFrame
    PROVE  WirelessInv'
<1>1. /\ pc = "capture" /\ config' = config /\ pc' = pc /\ child' = child /\ source' = source
      /\ frames' = frames /\ aps' = aps /\ inventory' = inventory /\ told' = told
  BY DEF Wifi!DataFrame, Wifi!scan
<1>2. PICK a \in DOMAIN aps : \E b \in DOMAIN aps \cup Stations \cup {Broadcast} :
         pairs' \in {pairs \cup {<<a, b>>}, pairs \cup {<<b, a>>}}
  BY DEF Wifi!DataFrame
<1>3. PICK b \in DOMAIN aps \cup Stations \cup {Broadcast} :
         pairs' \in {pairs \cup {<<a, b>>}, pairs \cup {<<b, a>>}}
  BY <1>2
<1>4. DOMAIN aps \subseteq Wifi!Macs
  <2>1. IsTold(frames) /\ DOMAIN aps = {frames[i].radio.mac : i \in DOMAIN frames}
    BY DEF WirelessInv, CollectorInv, Holding
  <2>2. \A i \in DOMAIN frames : frames[i].radio \in Radios
    <3>1. \A i \in DOMAIN frames : frames[i] \in Sighting
      BY <2>1 DEF IsTold
    <3> QED
      BY <3>1 DEF Sighting
  <2> QED
    BY <2>1, <2>2 DEF Wifi!Macs
<1>5. pairs' \subseteq (Stations \cup {Broadcast} \cup Wifi!Macs)
                          \X (Stations \cup {Broadcast} \cup Wifi!Macs)
  <2>1. pairs \subseteq (Stations \cup {Broadcast} \cup Wifi!Macs)
                           \X (Stations \cup {Broadcast} \cup Wifi!Macs)
    BY DEF WirelessInv, StageInv
  <2> QED
    BY <1>2, <1>3, <1>4, <2>1
<1>6. StageInv'
  BY <1>1, <1>5 DEF WirelessInv, StageInv
<1>7. told = <<>>
  BY <1>1 DEF WirelessInv, StageInv
<1>8. ~Live(told)
  BY <1>7 DEF Live
<1>9. InventoryInv'
  BY <1>1, <1>8 DEF WirelessInv, InventoryInv
<1>10. CollectorInv' /\ IssuesInv'
  BY <1>1 DEF WirelessInv, CollectorInv, IssuesInv, Wifi!Built
<1>11. ReportInv'
  BY <1>1, NotReported
<1> QED
  BY <1>6, <1>9, <1>10, <1>11 DEF WirelessInv

LEMMA CaptureEndsHolds ==
    ASSUME Wifi!WirelessAssumption, WirelessInv, Wifi!CaptureEnds
    PROVE  WirelessInv'
<1>1. /\ pc = "capture" /\ config' = config /\ child' = child /\ source' = source
      /\ pairs' = pairs /\ frames' = <<>> /\ aps' = <<>>
      /\ inventory' = Wifi!Finalized /\ told' = frames
      /\ pc' = IF aps = <<>> THEN "nmcli" ELSE "detect"
  BY DEF Wifi!CaptureEnds
<1>2. StageInv /\ Holding(aps, frames)
  BY DEF WirelessInv, CollectorInv
<1>3. /\ IsTold(frames) /\ \A i \in DOMAIN frames : frames[i].source = "capture"
      /\ DOMAIN aps = {frames[i].radio.mac : i \in DOMAIN frames}
  BY <1>2 DEF Holding
<1>4. /\ config \in Commands /\ config.command # "ble" /\ child = "none" /\ config.monitor
      /\ pairs \subseteq (Stations \cup {Broadcast} \cup Wifi!Macs)
                            \X (Stations \cup {Broadcast} \cup Wifi!Macs)
      /\ source \in {"none"} \cup Wifi!Tool \cup Wifi!Format
  <2>1. /\ config \in Commands /\ config.monitor
        /\ config.command = "ble" => pc \in {"ble", "done"}
        /\ pairs \subseteq (Stations \cup {Broadcast} \cup Wifi!Macs)
                              \X (Stations \cup {Broadcast} \cup Wifi!Macs)
        /\ source \in {"none"} \cup Wifi!Tool \cup Wifi!Format
    BY <1>1, <1>2 DEF StageInv
  <2>2. "capture" \notin Wifi!Tool /\ config.tools \subseteq Wifi!Tool
    BY <2>1, ConfigFacts DEF Wifi!Tool
  <2>3. child = "none"
    BY <1>1, <1>2, <2>2 DEF StageInv
  <2> QED
    BY <1>1, <2>1, <2>3
<1>5. /\ Holds(inventory', frames) /\ HoldsCollected(inventory', frames, pairs)
      /\ HoldsAssessed(inventory')
  BY <1>1, <1>2, <1>4, FinalizedFacts
<1>6. frames # <<>> => Live(told')
  <2>1. frames # <<>> => DOMAIN frames # {}
    BY <1>3 DEF IsTold
  <2> QED
    BY <1>1, <1>3, <2>1 DEF Live
<1>7. aps = <<>> => frames = <<>>
  <2>1. aps = <<>> => DOMAIN frames = {}
    <3>1. aps = <<>> => DOMAIN aps = {}
      OBVIOUS
    <3>2. \A i \in DOMAIN frames : frames[i].radio.mac \in DOMAIN aps
      BY <1>3
    <3> QED
      BY <3>1, <3>2
  <2> QED
    BY <1>3, <2>1 DEF IsTold
<1>8. StageInv'
  BY <1>1, <1>3, <1>4, <1>7 DEF StageInv, Wifi!Tool
<1>9. CollectorInv'
  BY <1>1, EmptyHolding DEF CollectorInv
<1>10. InventoryInv'
  <2>1. Holds(inventory', told') /\ HoldsCollected(inventory', told', pairs')
    BY <1>1, <1>5
  <2>2. frames = <<>> => HoldsMerged(inventory', told')
    BY <1>1 DEF HoldsMerged, Seen
  <2> QED
    BY <1>6, <2>1, <2>2 DEF InventoryInv
<1>11. IssuesInv'
  BY <1>1, <1>5 DEF IssuesInv, Wifi!Built
<1>12. ReportInv'
  BY <1>1, NotReported
<1> QED
  BY <1>8, <1>9, <1>10, <1>11, <1>12 DEF WirelessInv

LEMMA CaptureFailsHolds ==
    ASSUME Wifi!WirelessAssumption, WirelessInv, Wifi!CaptureFails
    PROVE  WirelessInv'
<1>1. /\ pc = "capture" /\ pc' = "nmcli" /\ config' = config /\ child' = child /\ source' = source
      /\ pairs' = {} /\ frames' = <<>> /\ aps' = <<>> /\ inventory' = inventory /\ told' = told
  BY DEF Wifi!CaptureFails
<1>2. told = <<>>
  BY <1>1 DEF WirelessInv, StageInv
<1>3. child = "none" /\ config.command # "ble"
  <2>1. config \in Commands /\ (child # "none" => pc \in config.tools) /\ config.command # "ble"
    BY <1>1 DEF WirelessInv, StageInv
  <2>2. "capture" \notin Wifi!Tool /\ config.tools \subseteq Wifi!Tool
    BY <2>1, ConfigFacts DEF Wifi!Tool
  <2> QED
    BY <1>1, <2>1, <2>2
<1>4. StageInv'
  BY <1>1, <1>2, <1>3 DEF WirelessInv, StageInv, Wifi!Tool
<1>5. ~Live(told)
  BY <1>2 DEF Live
<1>6. InventoryInv'
  BY <1>1, <1>5 DEF WirelessInv, InventoryInv
<1>7. CollectorInv'
  BY <1>1, EmptyHolding DEF CollectorInv
<1>8. IssuesInv'
  BY <1>1 DEF WirelessInv, IssuesInv, Wifi!Built
<1>9. ReportInv'
  BY <1>1, NotReported
<1> QED
  BY <1>4, <1>6, <1>7, <1>8, <1>9 DEF WirelessInv

(* The tools: only the child process and the place in the list change.     *)
LEMMA ToolStepHolds ==
    ASSUME Wifi!WirelessAssumption, WirelessInv,
           Wifi!SkipTool \/ Wifi!StartTool \/ Wifi!ToolExits \/ Wifi!ToolAnswers \/ Wifi!ToolTimeout
    PROVE  WirelessInv'
<1>1. StageInv /\ config.tools \subseteq Wifi!Tool
  <2>1. StageInv /\ config \in Commands
    BY DEF WirelessInv, StageInv
  <2> QED
    BY <2>1, ConfigFacts
<1>2. /\ config' = config /\ frames' = frames /\ aps' = aps /\ pairs' = pairs
      /\ inventory' = inventory /\ told' = told
  BY DEF Wifi!SkipTool, Wifi!StartTool, Wifi!ToolExits, Wifi!ToolAnswers, Wifi!ToolTimeout,
         Wifi!collector
<1>3. pc \in Wifi!Tool
  <2>1. CASE Wifi!ToolExits
    <3>1. child # "none"
      BY <2>1 DEF Wifi!ToolExits, Wifi!Process!Exit
    <3> QED
      BY <1>1, <3>1 DEF StageInv
  <2>2. CASE ~Wifi!ToolExits
    BY <2>2 DEF Wifi!SkipTool, Wifi!StartTool, Wifi!ToolAnswers, Wifi!ToolTimeout
  <2> QED
    BY <2>1, <2>2
<1>4. \/ pc' = pc /\ source' = source
      \/ pc' \in {"detect"} \cup Wifi!Tool /\ child' = "none" /\ source' = source
      \/ pc' = "adding" /\ source' = pc /\ child' = "none"
  <2>1. Wifi!NextTool(pc) \in {"detect"} \cup Wifi!Tool
    BY DEF Wifi!NextTool, Wifi!Tool
  <2>2. CASE Wifi!SkipTool
    BY <2>1, <2>2 DEF Wifi!SkipTool
  <2>3. CASE Wifi!StartTool
    BY <2>3 DEF Wifi!StartTool
  <2>4. CASE Wifi!ToolExits
    BY <2>4 DEF Wifi!ToolExits
  <2>5. CASE Wifi!ToolAnswers
    BY <2>5 DEF Wifi!ToolAnswers, Wifi!Process!Collect
  <2>6. CASE Wifi!ToolTimeout
    BY <2>1, <2>6 DEF Wifi!ToolTimeout, Wifi!Process!Wait
  <2> QED
    BY <2>2, <2>3, <2>4, <2>5, <2>6
<1>5. /\ child' \in {"none", "running", "ok", "failed", "killed"}
      /\ child' # "none" /\ pc' = pc => pc \in config.tools /\ (pc = "iw" => config.root)
  <2>1. child # "none" => pc \in config.tools /\ (pc = "iw" => config.root)
    BY <1>1 DEF StageInv
  <2>2. CASE Wifi!SkipTool
    BY <2>2 DEF Wifi!SkipTool
  <2>3. CASE Wifi!StartTool
    BY <2>3 DEF Wifi!StartTool, Wifi!Usable, Wifi!Process!Start
  <2>4. CASE Wifi!ToolExits
    BY <2>1, <2>4 DEF Wifi!ToolExits, Wifi!Process!Exit
  <2>5. CASE Wifi!ToolAnswers
    BY <2>5 DEF Wifi!ToolAnswers, Wifi!Process!Collect
  <2>6. CASE Wifi!ToolTimeout
    BY <2>1, <2>6 DEF Wifi!ToolTimeout, Wifi!Process!Wait, Wifi!Process!Kill
  <2> QED
    BY <2>2, <2>3, <2>4, <2>5, <2>6
<1>6. told = <<>> /\ frames = <<>> /\ config.command # "ble" /\ pc # "adding"
  BY <1>1, <1>3 DEF StageInv, Wifi!Tool
<1>7. StageInv'
  <2>1. /\ source' \in {"none"} \cup Wifi!Tool \cup Wifi!Format
        /\ pc' = "adding" => source' # "none"
        /\ pc' \in {"adding", "detect"} \cup Wifi!Tool
    BY <1>1, <1>3, <1>4, <1>6 DEF StageInv, Wifi!Tool
  <2>2. child' # "none" => pc' \in config.tools /\ (pc' = "iw" => config.root)
    BY <1>4, <1>5
  <2>3. pc' # "capture"
    BY <2>1 DEF Wifi!Tool
  <2>4. DOMAIN told = {}
    BY <1>6
  <2> QED
    BY <1>1, <1>2, <1>5, <1>6, <2>1, <2>2, <2>3, <2>4 DEF StageInv
<1>8. CollectorInv' /\ InventoryInv'
  BY <1>2 DEF WirelessInv, CollectorInv, InventoryInv
<1>9. IssuesInv'
  <2>1. HoldsAssessed(inventory)
    BY <1>3 DEF WirelessInv, IssuesInv
  <2>2. pc' \in {"adding", "detect"} \cup Wifi!Tool
    BY <1>3, <1>4
  <2> QED
    BY <1>2, <2>1, <2>2 DEF IssuesInv, Wifi!Built, Wifi!Tool
<1>10. ReportInv'
  <2>1. pc' # "done"
    BY <1>3, <1>4 DEF Wifi!Tool
  <2> QED
    BY <2>1, NotReported
<1> QED
  BY <1>7, <1>8, <1>9, <1>10 DEF WirelessInv

(* What a tool or an export tells.                                         *)
LEMMA AddHolds ==
    ASSUME Wifi!WirelessAssumption, WirelessInv, Wifi!Add
    PROVE  WirelessInv'
<1>1. /\ pc = "adding" /\ config' = config /\ pc' = pc /\ child' = child /\ source' = source
      /\ frames' = frames /\ aps' = aps /\ pairs' = pairs
  BY DEF Wifi!Add, Wifi!scan, Wifi!collector
<1>2. PICK r \in Radios, signal \in Signals, place \in {"none", "exact"},
           wording \in Wifi!WordingsOf(source) :
         \E ap \in Wifi!Parsed(r, signal, place, wording) :
             /\ inventory' = Wifi!AddAp(inventory, Wifi!Assessed(ap))
             /\ told' = Append(told, Wifi!Sees(source, r, wording, ap))
  BY DEF Wifi!Add
<1>4. PICK ap \in Wifi!Parsed(r, signal, place, wording) :
         /\ inventory' = Wifi!AddAp(inventory, Wifi!Assessed(ap))
         /\ told' = Append(told, Wifi!Sees(source, r, wording, ap))
  BY <1>2
<1>5. /\ StageInv /\ config \in Commands /\ source \in Wifi!Tool \cup Wifi!Format
      /\ IsTold(told) /\ \A i \in DOMAIN told : told[i].source = source
  BY <1>1 DEF WirelessInv, StageInv
<1>6. PICK s : s = Wifi!Sees(source, r, wording, ap)
  OBVIOUS
<1>7. s.source = source /\ s.ap = ap
  BY <1>6 DEF Wifi!Sees
<1>8. s \in Sighting /\ Truthful(s)
  <2>1. config.withheld \in BOOLEAN
    BY <1>5, ConfigFacts
  <2>2. PICK withheld \in BOOLEAN : withheld = config.withheld
    BY <2>1
  <2>3. ap \in ParsedBy(source, r, wording, signal, place, withheld)
    BY <1>4, <1>5, <2>2 DEF Wifi!Parsed, ParsedBy, Wifi!Tool, Wifi!Format
  <2>4. ap \in ParsedFrom(source, r, wording)
    BY <2>3 DEF ParsedFrom
  <2>5. source \in Source
    BY <1>5 DEF Source
  <2> QED
    BY <1>6, <2>4, <2>5, Truthfulness
<1>9. source # "capture"
  BY <1>5 DEF Wifi!Tool, Wifi!Format
<1>10. ~Live(told)
  BY <1>5, <1>9 DEF Live
<1>11. Holds(inventory, told) /\ HoldsMerged(inventory, told) /\ HoldsAssessed(inventory)
  BY <1>1, <1>10 DEF WirelessInv, InventoryInv, IssuesInv
<1>12. PICK S, inv, T, new : S = told /\ inv = inventory /\ T = told' /\ new = inventory'
  OBVIOUS
<1>13. Holds(inv, S) /\ HoldsMerged(inv, S) /\ HoldsAssessed(inv) /\ IsTold(S) /\ T = Append(S, s)
  BY <1>4, <1>5, <1>6, <1>11, <1>12
<1>14. new = Wifi!AddAp(inv, Wifi!Assessed(s.ap))
  BY <1>4, <1>7, <1>12
<1>15. Holds(new, T) /\ HoldsMerged(new, T) /\ HoldsAssessed(new)
  BY <1>8, <1>13, <1>14, AddStep
<1>16. IsTold(T) /\ \A i \in DOMAIN T : T[i].source = source
  <2>1. PICK n : n = Len(S) + 1
    OBVIOUS
  <2>2. DOMAIN T = DOMAIN S \cup {n} /\ T[n] = s
    BY <1>8, <1>13, <2>1, AppendFacts
  <2>3. \A i \in DOMAIN S : T[i] = S[i]
    BY <1>8, <1>13, <2>1, AppendFacts
  <2>4. IsTold(T)
    BY <1>8, <1>13, AppendTold
  <2> QED
    BY <1>5, <1>7, <1>12, <2>2, <2>3, <2>4
<1>17. StageInv'
  BY <1>1, <1>5, <1>12, <1>16 DEF StageInv, Wifi!Tool
<1>18. ~Live(T)
  BY <1>9, <1>16 DEF Live
<1>19. InventoryInv'
  BY <1>12, <1>15, <1>18 DEF InventoryInv
<1>20. CollectorInv'
  BY <1>1 DEF WirelessInv, CollectorInv
<1>21. IssuesInv'
  BY <1>1, <1>12, <1>15 DEF IssuesInv, Wifi!Built
<1>22. ReportInv'
  BY <1>1, NotReported
<1> QED
  BY <1>17, <1>19, <1>20, <1>21, <1>22 DEF WirelessInv

LEMMA AddedHolds ==
    ASSUME Wifi!WirelessAssumption, WirelessInv, Wifi!Added
    PROVE  WirelessInv'
<1>1. /\ pc = "adding" /\ config' = config /\ child' = child /\ source' = "none"
      /\ frames' = frames /\ aps' = aps /\ pairs' = pairs /\ inventory' = inventory /\ told' = told
      /\ pc' = IF told = <<>> /\ source \in Wifi!Tool THEN Wifi!NextTool(source) ELSE "detect"
  BY DEF Wifi!Added, Wifi!collector
<1>2. Wifi!NextTool(source) \in {"detect"} \cup Wifi!Tool
  BY DEF Wifi!NextTool, Wifi!Tool
<1>3. pc' \in {"detect"} \cup Wifi!Tool /\ (pc' # "detect" => told = <<>>)
  BY <1>1, <1>2
<1>4. StageInv /\ config.tools \subseteq Wifi!Tool
  <2>1. StageInv /\ config \in Commands
    BY DEF WirelessInv, StageInv
  <2> QED
    BY <2>1, ConfigFacts
<1>5. child = "none"
  BY <1>1, <1>4 DEF StageInv, Wifi!Tool
<1>6. StageInv'
  <2>1. pc' \notin {"capture", "adding"}
    BY <1>3 DEF Wifi!Tool
  <2>2. pc' \in Wifi!Tool => told = <<>>
    BY <1>3 DEF Wifi!Tool
  <2> QED
    BY <1>1, <1>3, <1>4, <1>5, <2>1, <2>2 DEF StageInv
<1>7. CollectorInv' /\ InventoryInv'
  BY <1>1 DEF WirelessInv, CollectorInv, InventoryInv
<1>8. IssuesInv'
  <2>1. HoldsAssessed(inventory)
    BY <1>1 DEF WirelessInv, IssuesInv
  <2> QED
    BY <1>1, <1>3, <2>1 DEF IssuesInv, Wifi!Built, Wifi!Tool
<1>9. ReportInv'
  <2>1. pc' # "done"
    BY <1>3 DEF Wifi!Tool
  <2> QED
    BY <2>1, NotReported
<1> QED
  BY <1>6, <1>7, <1>8, <1>9 DEF WirelessInv

(* What is done with the inventory.                                        *)
LEMMA DetectHolds ==
    ASSUME Wifi!WirelessAssumption, WirelessInv, Wifi!Detect
    PROVE  WirelessInv'
<1>1. /\ pc = "detect" /\ config' = config /\ child' = child /\ source' = source
      /\ frames' = frames /\ aps' = aps /\ pairs' = pairs /\ told' = told
      /\ inventory' = Wifi!DetectTwins(inventory)
      /\ pc' \in {"ble", "report"}
  BY DEF Wifi!Detect, Wifi!collector
<1>2. /\ StageInv /\ config.tools \subseteq Wifi!Tool /\ config.command # "ble"
  <2>1. StageInv /\ config \in Commands /\ config.command # "ble"
    BY <1>1 DEF WirelessInv, StageInv
  <2> QED
    BY <2>1, ConfigFacts
<1>3. child = "none"
  BY <1>1, <1>2 DEF StageInv, Wifi!Tool
<1>4. Holds(inventory, told) /\ HoldsAssessed(inventory)
  BY <1>1 DEF WirelessInv, InventoryInv, IssuesInv
<1>5. PICK new : new = inventory'
  OBVIOUS
<1>6. /\ Holds(new, told) /\ HoldsNoted(new)
      /\ HoldsMerged(inventory, told) => HoldsMerged(new, told)
      /\ HoldsCollected(inventory, told, pairs) => HoldsCollected(new, told, pairs)
  BY <1>1, <1>4, <1>5, DetectFacts
<1>7. StageInv'
  BY <1>1, <1>2, <1>3 DEF StageInv, Wifi!Tool
<1>8. CollectorInv'
  BY <1>1 DEF WirelessInv, CollectorInv
<1>9. InventoryInv'
  BY <1>1, <1>5, <1>6 DEF WirelessInv, InventoryInv
<1>10. IssuesInv'
  BY <1>1, <1>2, <1>5, <1>6 DEF IssuesInv, Wifi!Tool
<1>11. ReportInv'
  BY <1>1, NotReported
<1> QED
  BY <1>7, <1>8, <1>9, <1>10, <1>11 DEF WirelessInv

(* The same access points, with or without devices.                        *)
LEMMA SameAccessPoints ==
    ASSUME NEW inv, NEW new, DOMAIN new = DOMAIN inv, new.anon = inv.anon,
           new.access_points = inv.access_points, NEW S, NEW P
    PROVE  /\ Holds(inv, S) => Holds(new, S)
           /\ HoldsMerged(inv, S) => HoldsMerged(new, S)
           /\ HoldsCollected(inv, S, P) => HoldsCollected(new, S, P)
           /\ HoldsNoted(inv) => HoldsNoted(new)
<1>1. Holds(inv, S) => Holds(new, S)
  BY DEF Holds
<1>2. HoldsMerged(inv, S) => HoldsMerged(new, S)
  BY DEF HoldsMerged
<1>3. HoldsCollected(inv, S, P) => HoldsCollected(new, S, P)
  BY DEF HoldsCollected
<1>4. HoldsNoted(inv) => HoldsNoted(new)
  BY DEF HoldsNoted
<1> QED
  BY <1>1, <1>2, <1>3, <1>4

LEMMA ScanBleHolds ==
    ASSUME Wifi!WirelessAssumption, WirelessInv, Wifi!ScanBle
    PROVE  WirelessInv'
<1>1. /\ pc = "ble" /\ config' = config /\ child' = child /\ source' = source
      /\ frames' = frames /\ aps' = aps /\ pairs' = pairs /\ told' = told
      /\ pc' = IF config.command = "ble" THEN "done" ELSE "report"
  BY DEF Wifi!ScanBle, Wifi!collector
<1>2. \E devices : inventory' = [inventory EXCEPT !.ble_devices = devices]
  BY DEF Wifi!ScanBle
<1>3. PICK devices : inventory' = [inventory EXCEPT !.ble_devices = devices]
  BY <1>2
<1>4. Holds(inventory, told)
  BY DEF WirelessInv, InventoryInv
<1>5. DOMAIN inventory = {"access_points", "anon", "ble_devices"}
  BY <1>4 DEF Holds
<1>6. PICK new : new = inventory'
  OBVIOUS
<1>7. /\ DOMAIN new = DOMAIN inventory /\ new.anon = inventory.anon
      /\ new.access_points = inventory.access_points
  BY <1>3, <1>5, <1>6
<1>8. /\ Holds(inventory, told) => Holds(new, told)
      /\ HoldsMerged(inventory, told) => HoldsMerged(new, told)
      /\ HoldsCollected(inventory, told, pairs) => HoldsCollected(new, told, pairs)
      /\ HoldsNoted(inventory) => HoldsNoted(new)
  BY <1>7, SameAccessPoints
<1>9. /\ StageInv /\ config.tools \subseteq Wifi!Tool
  <2>1. StageInv /\ config \in Commands
    BY <1>1 DEF WirelessInv, StageInv
  <2> QED
    BY <2>1, ConfigFacts
<1>10. child = "none"
  BY <1>1, <1>9 DEF StageInv, Wifi!Tool
<1>11. StageInv'
  BY <1>1, <1>9, <1>10 DEF StageInv, Wifi!Tool
<1>12. CollectorInv'
  BY <1>1 DEF WirelessInv, CollectorInv
<1>13. InventoryInv'
  BY <1>1, <1>4, <1>6, <1>8 DEF WirelessInv, InventoryInv
<1>14. IssuesInv'
  <2>1. config.command # "ble" => HoldsNoted(inventory)
    BY <1>1 DEF WirelessInv, IssuesInv, Wifi!Built
  <2> QED
    BY <1>1, <1>6, <1>8, <2>1 DEF IssuesInv, Wifi!Built, Wifi!Tool
<1>15. ReportInv'
  BY <1>1, NotReported
<1> QED
  BY <1>11, <1>12, <1>13, <1>14, <1>15 DEF WirelessInv

(* What a record and an address say once they are redacted.                *)
LEMMA RedactedFacts ==
    ASSUME NEW e, IsAp(e), NEW shown, shown = Wifi!RedactWireless(e)
    PROVE  /\ \A f \in Fields \ {"bssid", "clients", "place"} : shown[f] = e[f]
           /\ shown.bssid = Wifi!MaskMac(e.bssid)
           /\ \A c \in shown.clients : \E mac : c = Wifi!MaskMac(mac)
           /\ shown.place # "exact"
BY DEF IsAp, Fields, Wifi!RedactWireless

LEMMA MaskedFacts ==
    ASSUME NEW mac
    PROVE  /\ ~Wifi!Identifies(Wifi!MaskMac(mac))
           /\ Wifi!Vendor(Wifi!MaskMac(mac)) = Wifi!Vendor(mac)
<1>1. CASE mac = Wifi!NoMac
  BY <1>1 DEF Wifi!MaskMac, Wifi!Identifies, Wifi!Vendor
<1>2. CASE mac # Wifi!NoMac
  <2>1. Wifi!MaskMac(mac) = <<mac[1], "xx">>
    BY <1>2 DEF Wifi!MaskMac, Wifi!OUI
  <2>2. <<mac[1], "xx">> # Wifi!NoMac
    BY DEF Wifi!NoMac
  <2>3. PICK masked : masked = Wifi!MaskMac(mac)
    OBVIOUS
  <2>4. masked # Wifi!NoMac /\ masked[1] = mac[1] /\ masked[2] = "xx"
    BY <2>1, <2>2, <2>3
  <2>5. ~Wifi!Identifies(masked)
    BY <2>4 DEF Wifi!Identifies
  <2>6. Wifi!Vendor(masked) = mac[1]
    BY <2>4 DEF Wifi!Vendor, Wifi!OUI
  <2>7. Wifi!Vendor(mac) = mac[1]
    BY <1>2 DEF Wifi!Vendor, Wifi!OUI
  <2> QED
    BY <2>3, <2>5, <2>6, <2>7
<1> QED
  BY <1>1, <1>2

LEMMA ReportShows ==
    ASSUME Wifi!Report, Holds(inventory, told)
    PROVE  Wifi!ReportFaithful'
<1> DEFINE redacted == config.redact /\ config.command # "walk"
           es == inventory.access_points
           found == inventory.ble_devices
<1>1. /\ inventory' = inventory /\ config' = config
      /\ report' = [access_points |-> [k \in DOMAIN es |->
                                       IF redacted THEN Wifi!RedactWireless(es[k]) ELSE es[k]],
                    ble_devices |-> [a \in DOMAIN found |->
                                       IF redacted THEN Wifi!MaskMac(a) ELSE a]]
  BY DEF Wifi!Report
<1>2. \A k \in DOMAIN es : IsAp(es[k])
  BY DEF Holds
<1> HIDE DEF redacted
<1>3. PICK shown, devices : shown = report'.access_points /\ devices = report'.ble_devices
  OBVIOUS
<1>4. /\ DOMAIN shown = DOMAIN es
      /\ \A k \in DOMAIN es :
            shown[k] = IF redacted THEN Wifi!RedactWireless(es[k]) ELSE es[k]
  BY <1>1, <1>3
<1>5. redacted => \A mac \in Wifi!Range(devices) : ~Wifi!Identifies(mac)
  BY <1>1, <1>3, MaskedFacts DEF Wifi!Range
<1>6. ASSUME NEW k \in DOMAIN es
      PROVE  LET telling == IF redacted THEN {"bssid", "clients", "place"} ELSE {}
             IN  /\ \A f \in DOMAIN es[k] \ telling : shown[k][f] = es[k][f]
                 /\ Wifi!Vendor(shown[k].bssid) = Wifi!Vendor(es[k].bssid)
                 /\ redacted => /\ \A mac \in {shown[k].bssid} \cup shown[k].clients :
                                       ~Wifi!Identifies(mac)
                                /\ shown[k].place # "exact"
  <2>1. CASE ~redacted
    BY <1>4, <2>1
  <2>2. CASE redacted
    <3>1. PICK e, s : e = es[k] /\ s = shown[k]
      OBVIOUS
    <3>2. IsAp(e) /\ s = Wifi!RedactWireless(e)
      BY <1>2, <1>4, <2>2, <3>1
    <3>3. DOMAIN e = Fields
      BY <3>2 DEF IsAp
    <3>4. \A f \in DOMAIN e \ {"bssid", "clients", "place"} : s[f] = e[f]
      BY <3>2, <3>3, RedactedFacts
    <3>5. Wifi!Vendor(s.bssid) = Wifi!Vendor(e.bssid)
      BY <3>2, RedactedFacts, MaskedFacts
    <3>6. \A mac \in {s.bssid} \cup s.clients : ~Wifi!Identifies(mac)
      BY <3>2, RedactedFacts, MaskedFacts
    <3>7. s.place # "exact"
      BY <3>2, RedactedFacts
    <3> QED
      BY <2>2, <3>1, <3>4, <3>5, <3>6, <3>7
  <2> QED
    BY <2>1, <2>2
<1> QED
  BY <1>1, <1>3, <1>4, <1>5, <1>6 DEF Wifi!ReportFaithful, Wifi!Entries, redacted

LEMMA ReportHolds ==
    ASSUME Wifi!WirelessAssumption, WirelessInv, Wifi!Report
    PROVE  WirelessInv'
<1>1. /\ pc = "report" /\ pc' = "done" /\ config' = config /\ child' = child /\ source' = source
      /\ frames' = frames /\ aps' = aps /\ pairs' = pairs /\ told' = told /\ inventory' = inventory
  BY DEF Wifi!Report, Wifi!collector
<1>2. /\ StageInv /\ config.tools \subseteq Wifi!Tool
  <2>1. StageInv /\ config \in Commands
    BY <1>1 DEF WirelessInv, StageInv
  <2> QED
    BY <2>1, ConfigFacts
<1>3. child = "none"
  BY <1>1, <1>2 DEF StageInv, Wifi!Tool
<1>4. StageInv'
  BY <1>1, <1>2, <1>3 DEF StageInv, Wifi!Tool
<1>5. CollectorInv' /\ InventoryInv' /\ IssuesInv'
  BY <1>1 DEF WirelessInv, CollectorInv, InventoryInv, IssuesInv, Wifi!Built, Wifi!Tool
<1>6. ReportInv'
  BY <1>1, ReportShows DEF WirelessInv, InventoryInv, ReportInv
<1> QED
  BY <1>4, <1>5, <1>6 DEF WirelessInv

LEMMA StutterHolds ==
    ASSUME WirelessInv, UNCHANGED Wifi!vars
    PROVE  WirelessInv'
<1>1. /\ config' = config /\ pc' = pc /\ child' = child /\ source' = source
      /\ frames' = frames /\ aps' = aps /\ pairs' = pairs /\ told' = told /\ inventory' = inventory
      /\ report' = report
  BY DEF Wifi!vars, Wifi!scan, Wifi!collector
<1>2. StageInv'
  BY <1>1 DEF WirelessInv, StageInv
<1>3. CollectorInv' /\ InventoryInv' /\ IssuesInv'
  BY <1>1 DEF WirelessInv, CollectorInv, InventoryInv, IssuesInv, Wifi!Built
<1>4. ReportInv'
  BY <1>1 DEF WirelessInv, ReportInv, Wifi!ReportFaithful, Wifi!Entries
<1> QED
  BY <1>2, <1>3, <1>4 DEF WirelessInv

LEMMA StepHolds ==
    ASSUME Wifi!WirelessAssumption, WirelessInv, [Wifi!Next]_Wifi!vars
    PROVE  WirelessInv'
<1>1. CASE Wifi!Beacon
  BY <1>1, BeaconHolds
<1>2. CASE Wifi!DataFrame
  BY <1>2, DataFrameHolds
<1>3. CASE Wifi!CaptureEnds
  BY <1>3, CaptureEndsHolds
<1>4. CASE Wifi!CaptureFails
  BY <1>4, CaptureFailsHolds
<1>5. CASE Wifi!SkipTool \/ Wifi!StartTool \/ Wifi!ToolExits \/ Wifi!ToolAnswers \/ Wifi!ToolTimeout
  BY <1>5, ToolStepHolds
<1>6. CASE Wifi!Add
  BY <1>6, AddHolds
<1>7. CASE Wifi!Added
  BY <1>7, AddedHolds
<1>8. CASE Wifi!Detect
  BY <1>8, DetectHolds
<1>9. CASE Wifi!ScanBle
  BY <1>9, ScanBleHolds
<1>10. CASE Wifi!Report
  BY <1>10, ReportHolds
<1>11. CASE Wifi!Done \/ UNCHANGED Wifi!vars
  BY <1>11, StutterHolds DEF Wifi!Done
<1> QED
  BY <1>1, <1>2, <1>3, <1>4, <1>5, <1>6, <1>7, <1>8, <1>9, <1>10, <1>11 DEF Wifi!Next, Wifi!Step

LEMMA WirelessInvariant ==
    ASSUME Wifi!WirelessAssumption
    PROVE  Wifi!Spec => []WirelessInv
<1>1. Wifi!Init => WirelessInv
  BY InitHolds
<1>2. WirelessInv /\ [Wifi!Next]_Wifi!vars => WirelessInv'
  BY StepHolds
<1> QED
  BY <1>1, <1>2, PTL DEF Wifi!Spec

-----------------------------------------------------------------------------
(* What the invariant says.                                                *)
LEMMA WirelessTypes ==
    ASSUME Wifi!WirelessAssumption, WirelessInv
    PROVE  Wifi!TypeOK
<1>1. StageInv /\ Holding(aps, frames) /\ Holds(inventory, told)
  BY DEF WirelessInv, CollectorInv, InventoryInv
<1>2. IsTold(told) /\ told \in Seq(Sighting)
  BY <1>1 DEF StageInv, IsTold
<1>3. inventory.anon \in 0 .. Len(told)
  <2>1. inventory.anon \in Nat /\ Cardinality(Unnamed(told)) = inventory.anon
    BY <1>1 DEF Holds
  <2>2. Unnamed(told) \subseteq 1 .. Len(told) /\ Len(told) \in Nat
    BY <1>2 DEF Unnamed
  <2>3. IsFiniteSet(1 .. Len(told)) /\ Cardinality(1 .. Len(told)) = Len(told)
    <3>1. PICK n \in Nat : n = Len(told)
      BY <2>2
    <3>2. IsFiniteSet(1 .. n) /\ Cardinality(1 .. n) = IF 1 > n THEN 0 ELSE n - 1 + 1
      BY FS_Interval
    <3>3. IsFiniteSet(1 .. n) /\ Cardinality(1 .. n) = n
      BY <3>2
    <3> QED
      BY <3>1, <3>3
  <2>4. Cardinality(Unnamed(told)) <= Cardinality(1 .. Len(told))
    BY <2>2, <2>3, FS_Subset
  <2> QED
    BY <2>1, <2>2, <2>3, <2>4
<1>4. told \in Seq([source : {"capture"} \cup Wifi!Tool \cup Wifi!Format, radio : Radios,
                    wording : Wifi!Wording, ap : {told[i].ap : i \in DOMAIN told}])
  <2> DEFINE R == [source : {"capture"} \cup Wifi!Tool \cup Wifi!Format, radio : Radios,
                   wording : Wifi!Wording, ap : {told[i].ap : i \in DOMAIN told}]
  <2>1. \A i \in DOMAIN told : told[i] \in Sighting
    BY <1>2
  <2>2. \A i \in DOMAIN told : told[i] \in R
    BY <2>1 DEF Sighting, Source
  <2> HIDE DEF R
  <2>3. told \in Seq(R)
    BY <1>2, <2>2
  <2> QED
    BY <2>3 DEF R
<1>5. frames # <<>> => config.monitor
  BY <1>1 DEF StageInv
<1>6. DOMAIN aps = {frames[i].radio.mac : i \in DOMAIN frames}
  BY <1>1 DEF Holding
<1> QED
  BY <1>1, <1>3, <1>4, <1>5, <1>6 DEF StageInv, Wifi!TypeOK, Wifi!Process!TypeOK

LEMMA AnonKeysCount ==
    ASSUME NEW n \in Nat
    PROVE  Cardinality(AnonKeys(n)) = n
<1> DEFINE f == [j \in 0 .. n - 1 |-> <<"anon", j>>]
<1>1. f \in Surjection(0 .. n - 1, AnonKeys(n)) /\ f \in Injection(0 .. n - 1, AnonKeys(n))
  <2>1. f \in [0 .. n - 1 -> AnonKeys(n)] /\ \A i \in 0 .. n - 1 : f[i] = <<"anon", i>>
    BY DEF AnonKeys
  <2>2. \A t \in AnonKeys(n) : \E i \in 0 .. n - 1 : f[i] = t
    BY <2>1 DEF AnonKeys
  <2> HIDE DEF f
  <2>3. \A i, j \in 0 .. n - 1 : f[i] = f[j] => i = j
    BY <2>1
  <2>4. f \in [0 .. n - 1 -> AnonKeys(n)]
    BY <2>1
  <2>5. f \in Surjection(0 .. n - 1, AnonKeys(n))
    BY <2>2, <2>4 DEF Surjection
  <2>6. f \in Injection(0 .. n - 1, AnonKeys(n))
    BY <2>3, <2>4 DEF Injection, IsInjective
  <2> QED
    BY <2>5, <2>6
<1> HIDE DEF f
<1>2. IsFiniteSet(0 .. n - 1) /\ Cardinality(0 .. n - 1) = n
  BY FS_Interval
<1>3. Cardinality(AnonKeys(n)) = Cardinality(0 .. n - 1)
  BY <1>1, <1>2, FS_Surjection
<1> QED
  BY <1>2, <1>3

LEMMA NoneIsLost ==
    ASSUME Wifi!WirelessAssumption, WirelessInv
    PROVE  Wifi!NoneLost
<1> DEFINE anonymous == {i \in DOMAIN told : Wifi!Anonymous(told[i].ap)}
           all == {<<"anon", n>> : n \in 0 .. Len(told)}
           keys == DOMAIN Wifi!Entries \ all
<1>1. Holds(inventory, told) /\ Wifi!TypeOK
  BY WirelessTypes DEF WirelessInv, InventoryInv
<1>2. PICK n : n = inventory.anon
  OBVIOUS
<1>3. n \in Nat /\ n \in 0 .. Len(told)
  BY <1>1, <1>2 DEF Holds, Wifi!TypeOK
<1>4. DOMAIN Wifi!Entries = KeysOf(told) \cup AnonKeys(n) /\ Cardinality(Unnamed(told)) = n
  BY <1>1, <1>2 DEF Holds, Wifi!Entries
<1>5. anonymous = Unnamed(told)
  BY DEF Unnamed
<1>6. AnonKeys(n) \subseteq all
  BY <1>3 DEF AnonKeys
<1>7. KeysOf(told) \cap all = {}
  BY NoAnonKey
<1>8. keys = KeysOf(told) /\ DOMAIN Wifi!Entries \ keys = AnonKeys(n)
  BY <1>4, <1>6, <1>7
<1>9. keys = {Wifi!Key(told[i].ap) : i \in DOMAIN told \ anonymous}
  BY <1>5, <1>8 DEF KeysOf
<1>10. Wifi!Cardinality(DOMAIN Wifi!Entries \ keys) = Wifi!Cardinality(anonymous)
  <2> HIDE DEF keys, anonymous
  <2> QED
    BY <1>3, <1>4, <1>5, <1>8, AnonKeysCount, CardinalityIs
<1> QED
  BY <1>9, <1>10 DEF Wifi!NoneLost

LEMMA SightingsAre ==
    ASSUME NEW k
    PROVE  Wifi!Sightings(k) = Seen(told, k)
BY DEF Wifi!Sightings, Seen

LEMMA EntryIsMerged ==
    ASSUME Wifi!WirelessAssumption, WirelessInv, NEW k \in DOMAIN Wifi!Entries,
           Wifi!Sightings(k) # {}
    PROVE  Wifi!MergedOf(Wifi!Entries[k], Wifi!Sightings(k))
<1>1. PICK e, seen : e = Wifi!Entries[k] /\ seen = Seen(told, k)
  OBVIOUS
<1>2. IsTold(told) /\ \A i, j \in DOMAIN told : told[i].source = told[j].source
  BY DEF WirelessInv, StageInv
<1>3. seen \in SUBSET DOMAIN told /\ seen # {}
  BY <1>1, SightingsAre DEF Seen
<1>4. IsAp(e)
  BY <1>1 DEF WirelessInv, InventoryInv, Holds, Wifi!Entries
<1> DEFINE captured == \E i \in seen : told[i].source = "capture"
           strengths == {told[i].ap.signal : i \in seen} \ {0}
<1>5. captured <=> Live(told)
  BY <1>2, <1>3 DEF Live
<1>6. IF captured THEN Collected(e, told, seen) /\ e.clients = Linked(pairs, e.bssid)
      ELSE Merged(e, told, seen)
  BY <1>1, <1>3, <1>5 DEF WirelessInv, InventoryInv, HoldsCollected, HoldsMerged, Wifi!Entries
<1>7. /\ FirstOf(e.ssid, "ssid", told, seen, {""}) /\ Strongest(e.signal, told, seen)
  BY <1>6 DEF Collected, Merged
<1>8. e.ssid = Wifi!FirstKnown("ssid", seen, {""})
  BY <1>2, <1>3, <1>7, FirstIs
<1>9. e.signal = IF strengths = {} THEN 0 ELSE Wifi!Max(strengths)
  <2>1. e.signal \in Int
    BY <1>4 DEF IsAp
  <2> QED
    BY <1>2, <1>3, <1>7, <2>1, StrongestIs
<1>10. ASSUME NEW f \in Property
       PROVE  e[f] = Wifi!FirstKnown(f, seen, IF captured THEN {} ELSE {Wifi!Unknown[f]})
  <2>1. PICK empty : empty = IF captured THEN {} ELSE {Wifi!Unknown[f]}
    OBVIOUS
  <2>2. FirstOf(e[f], f, told, seen, empty)
    BY <1>6, <2>1 DEF Collected, Merged
  <2>3. e[f] = Wifi!FirstKnown(f, seen, empty)
    BY <1>2, <1>3, <2>2, FirstIs
  <2> QED
    BY <2>1, <2>3
<1>11. \A f \in DOMAIN Wifi!Unknown :
          e[f] = Wifi!FirstKnown(f, seen, IF captured THEN {} ELSE {Wifi!Unknown[f]})
  BY <1>10 DEF Property
<1>12. e.clients = {s \in (Stations \cup Wifi!Macs) \ {Broadcast} :
                       captured /\ \E p \in pairs : {p[1], p[2]} = {e.bssid, s}}
  <2>1. CASE captured
    BY <1>6, <2>1 DEF Linked
  <2>2. CASE ~captured
    BY <1>6, <2>2 DEF Merged
  <2> QED
    BY <2>1, <2>2
<1>13. Wifi!MergedOf(e, seen)
  BY <1>8, <1>9, <1>11, <1>12 DEF Wifi!MergedOf
<1> QED
  BY <1>1, <1>13, SightingsAre

LEMMA LeastExists ==
    ASSUME NEW seen \in SUBSET Nat, seen # {}
    PROVE  Wifi!Min(seen) \in seen /\ \A y \in seen : Wifi!Min(seen) <= y
<1> DEFINE less == OpToRel(<, Nat)
<1>1. PICK x \in seen : \A y \in seen : <<y, x>> \notin less
  <2> HIDE DEF less
  <2>1. IsWellFoundedOn(less, Nat)
    BY NatLessThanWellFounded, Zenon DEF less
  <2> QED
    BY <2>1, WFMin
<1>2. \A y \in seen : x <= y
  <2>1. \A y \in seen : ~(y < x)
    BY <1>1 DEF OpToRel
  <2> QED
    BY <2>1
<1> QED
  BY <1>2 DEF Wifi!Min

LEMMA IssuesAre ==
    ASSUME WirelessInv, Wifi!Built, NEW k \in DOMAIN Wifi!Entries
    PROVE  LET e == Wifi!Entries[k]
           IN  e.issues \ Wifi!Notes(e) = Wifi!Assess(e)
<1>1. PICK e : e = Wifi!Entries[k]
  OBVIOUS
<1>2. CASE pc = "detect"
  <2>1. e.issues = Wifi!Assess(e)
    BY <1>1, <1>2 DEF WirelessInv, IssuesInv, HoldsAssessed, Wifi!Entries
  <2>2. \A i \in Wifi!Assess(e) : i[1] # "twin"
    BY AssessFacts
  <2> QED
    BY <1>1, <2>1, <2>2 DEF Wifi!Notes
<1>3. CASE pc # "detect"
  BY <1>1, <1>3 DEF WirelessInv, IssuesInv, HoldsNoted, Wifi!Entries
<1> QED
  BY <1>2, <1>3

LEMMA InventoryIsFaithful ==
    ASSUME Wifi!WirelessAssumption, WirelessInv
    PROVE  Wifi!InventoryFaithful
<1> SUFFICES ASSUME Wifi!Built
             PROVE  /\ pc = "done" => Wifi!ReportFaithful
                    /\ Wifi!NoneLost
                    /\ \A k \in DOMAIN Wifi!Entries :
                          Wifi!Sightings(k) # {} =>
                             Wifi!MergedOf(Wifi!Entries[k], Wifi!Sightings(k))
                    /\ \A e \in Wifi!Range(Wifi!Entries) :
                          /\ e.issues \ Wifi!Notes(e) = Wifi!Assess(e)
                          /\ pc # "detect" => Wifi!Cardinality(Wifi!Notes(e)) =
                                                 IF Wifi!Suspicious(e) THEN 1 ELSE 0
  BY DEF Wifi!InventoryFaithful
<1>1. Wifi!NoneLost
  BY NoneIsLost
<1>2. \A k \in DOMAIN Wifi!Entries :
         Wifi!Sightings(k) # {} => Wifi!MergedOf(Wifi!Entries[k], Wifi!Sightings(k))
  BY EntryIsMerged
<1>3. ASSUME NEW e \in Wifi!Range(Wifi!Entries)
      PROVE  /\ e.issues \ Wifi!Notes(e) = Wifi!Assess(e)
             /\ pc # "detect" => Wifi!Cardinality(Wifi!Notes(e)) =
                                    IF Wifi!Suspicious(e) THEN 1 ELSE 0
  <2>1. PICK k \in DOMAIN Wifi!Entries : e = Wifi!Entries[k]
    BY DEF Wifi!Range
  <2>2. e.issues \ Wifi!Notes(e) = Wifi!Assess(e)
    BY <2>1, IssuesAre
  <2>3. Wifi!Suspicious(e) <=> SuspiciousIn(Wifi!Entries, e)
    BY DEF Wifi!Suspicious, Wifi!TwinsOf, SuspiciousIn, TwinsIn, Differ
  <2>4. pc # "detect" => Wifi!Cardinality(Wifi!Notes(e)) =
                            IF SuspiciousIn(Wifi!Entries, e) THEN 1 ELSE 0
    BY <2>1 DEF WirelessInv, IssuesInv, HoldsNoted, Wifi!Entries
  <2> QED
    BY <2>2, <2>3, <2>4
<1>4. pc = "done" => Wifi!ReportFaithful
  BY DEF Wifi!Built, WirelessInv, ReportInv
<1> QED
  BY <1>1, <1>2, <1>3, <1>4

(* Only an open network is shown as open, and as nothing else.             *)
LEMMA OpenFacts ==
    ASSUME NEW s, s.radio.mode \in Wifi!Mode
    PROVE  /\ "open" \in Wifi!ShownAs(s) => s.radio.mode = "open"
           /\ s.radio.mode = "open" => Wifi!ShownAs(s) = {"open"}
BY DEF Wifi!ShownAs, Wifi!Configured, Wifi!Mode

LEMMA VerdictsAgree ==
    ASSUME Wifi!WirelessAssumption, WirelessInv
    PROVE  Wifi!VerdictAgrees
<1> SUFFICES ASSUME Wifi!Built, NEW k \in DOMAIN Wifi!Entries,
                    NEW r \in {told[i].radio : i \in Wifi!Sightings(k)},
                    {told[i].radio : i \in Wifi!Sightings(k)} = {r},
                    ~(told[Wifi!Min(Wifi!Sightings(k))].source = "profiler" /\ r.mode = "owe")
             PROVE  LET e == Wifi!Entries[k]
                        by == told[Wifi!Min(Wifi!Sightings(k))].source
                    IN  /\ e.encryption \in Wifi!ShownAs(told[Wifi!Min(Wifi!Sightings(k))])
                        /\ by \in {"nmcli", "iw"} \cup Wifi!Format =>
                              (<<"tkip">> \in e.issues <=> r.mode \in {"wpa", "wpa+wpa2"})
                        /\ by \in Wifi!Tool => e.band = Wifi!TrueBand(r)
  BY DEF Wifi!VerdictAgrees
<1>1. PICK e, seen : e = Wifi!Entries[k] /\ seen = Wifi!Sightings(k)
  OBVIOUS
<1>2. seen = Seen(told, k) /\ seen # {}
  BY <1>1, SightingsAre
<1>3. IsTold(told) /\ \A i, j \in DOMAIN told : told[i].source = told[j].source
  BY DEF WirelessInv, StageInv
<1>4. seen \in SUBSET DOMAIN told /\ seen \in SUBSET Nat
  BY <1>2, <1>3, SeenDomain
<1>5. PICK by : by = told[Wifi!Min(seen)].source
  OBVIOUS
<1>6. \A i \in seen : told[i].source = by
  <2>1. Wifi!Min(seen) \in seen
    BY <1>2, <1>4, LeastExists
  <2> QED
    BY <1>3, <1>4, <1>5, <2>1
<1>7. \A i \in seen : told[i].radio = r
  BY <1>1
<1>8. r \in Radios
  <2>1. PICK i \in seen : TRUE
    BY <1>2
  <2>2. told[i] \in Sighting
    BY <1>3, <1>4, <2>1 DEF IsTold
  <2> QED
    BY <1>7, <2>1, <2>2 DEF Sighting
<1>9. ~(by = "profiler" /\ r.mode = "owe")
  BY <1>1, <1>5
<1>10. ASSUME NEW i \in seen
       PROVE  /\ told[i].ap.encryption \in Wifi!ShownAs(told[i])
              /\ by \in {"nmcli", "iw"} \cup Wifi!Format => told[i].ap.cipher = Wifi!Ciphers(r)
              /\ by \in Wifi!Tool => told[i].ap.band = Wifi!TrueBand(r)
  <2>1. PICK s : s = told[i]
    OBVIOUS
  <2>2. Truthful(s) /\ s.source = by /\ s.radio = r
    BY <1>3, <1>4, <1>6, <1>7, <2>1 DEF IsTold
  <2> QED
    BY <1>9, <2>1, <2>2 DEF Truthful
<1>11. IF Live(told) THEN Collected(e, told, seen) ELSE Merged(e, told, seen)
  BY <1>1, <1>2 DEF WirelessInv, InventoryInv, HoldsCollected, HoldsMerged, Wifi!Entries
<1>12. e.encryption \in Wifi!ShownAs(told[Wifi!Min(seen)])
  <2>1. PICK empty :
           /\ empty \subseteq {"open"}
           /\ FirstOf(e.encryption, "encryption", told, seen, empty)
    <3>1. "encryption" \in Property /\ Wifi!Unknown["encryption"] = "open"
      BY UnknownFacts
    <3>2. FirstOf(e.encryption, "encryption", told, seen, IF Live(told) THEN {} ELSE {"open"})
      BY <1>11, <3>1 DEF Collected, Merged
    <3> QED
      BY <3>2
  <2>2. PICK m \in seen :
           /\ e.encryption = told[m].ap.encryption
           /\ \/ \A j \in seen : j < m => told[j].ap.encryption \in empty
              \/ \A j \in seen : m <= j
    BY <2>1 DEF FirstOf
  <2>3. PICK n : n = Wifi!Min(seen)
    OBVIOUS
  <2>4. n \in seen /\ n <= m /\ n \in Nat /\ m \in Nat
    BY <1>2, <1>4, <2>3, LeastExists
  <2>5. CASE n = m
    BY <1>10, <2>2, <2>3, <2>4, <2>5
  <2>6. CASE n < m
    <3>1. told[n].ap.encryption = "open"
      <4>1. ~(m <= n)
        BY <2>4, <2>6
      <4>2. told[n].ap.encryption \in empty
        BY <2>2, <2>4, <2>6, <4>1
      <4> QED
        BY <2>1, <4>2
    <3>2. told[m].radio = r /\ told[n].radio = r /\ r.mode \in Wifi!Mode
      BY <1>7, <1>8, <2>4 DEF Wifi!WirelessAssumption
    <3>3. r.mode = "open"
      BY <1>10, <2>4, <3>1, <3>2, OpenFacts
    <3>4. Wifi!ShownAs(told[m]) = Wifi!ShownAs(told[n])
      BY <3>2, <3>3, OpenFacts
    <3> QED
      BY <1>10, <2>2, <2>3, <3>4
  <2> QED
    BY <2>4, <2>5, <2>6
<1>13. by # "capture" => Merged(e, told, seen)
  <2>1. by # "capture" => ~Live(told)
    BY <1>2, <1>3, <1>4, <1>6 DEF Live
  <2> QED
    BY <1>11, <2>1
<1>14. by \in {"nmcli", "iw"} \cup Wifi!Format =>
          (<<"tkip">> \in e.issues <=> r.mode \in {"wpa", "wpa+wpa2"})
  <2> SUFFICES ASSUME by \in {"nmcli", "iw"} \cup Wifi!Format
               PROVE  <<"tkip">> \in e.issues <=> r.mode \in {"wpa", "wpa+wpa2"}
    OBVIOUS
  <2>1. Merged(e, told, seen)
    BY <1>13 DEF Wifi!Format
  <2>2. FirstOf(e.cipher, "cipher", told, seen, {{}})
    BY <2>1, UnknownFacts DEF Merged, Wifi!Unknown
  <2>3. PICK m \in seen : e.cipher = told[m].ap["cipher"]
    BY <2>2 DEF FirstOf
  <2>4. e.cipher = Wifi!Ciphers(r)
    BY <1>10, <2>3
  <2>5. r.mode \in Wifi!Mode
    BY <1>8 DEF Wifi!WirelessAssumption
  <2>6. "TKIP" \in Wifi!Ciphers(r) <=> r.mode \in {"wpa", "wpa+wpa2"}
    BY <2>5, CipherFacts
  <2>7. <<"tkip">> \in Wifi!Assess(e) <=> "TKIP" \in e.cipher
    BY AssessFacts
  <2>8. e.issues \ Wifi!Notes(e) = Wifi!Assess(e)
    BY <1>1, IssuesAre
  <2>9. <<"tkip">> \notin Wifi!Notes(e)
    BY DEF Wifi!Notes
  <2> QED
    BY <2>4, <2>6, <2>7, <2>8, <2>9
<1>15. by \in Wifi!Tool => e.band = Wifi!TrueBand(r)
  <2> SUFFICES ASSUME by \in Wifi!Tool
               PROVE  e.band = Wifi!TrueBand(r)
    OBVIOUS
  <2>1. Merged(e, told, seen)
    BY <1>13 DEF Wifi!Tool
  <2>2. FirstOf(e.band, "band", told, seen, {""})
    BY <2>1, UnknownFacts DEF Merged, Wifi!Unknown
  <2>3. PICK m \in seen : e.band = told[m].ap["band"]
    BY <2>2 DEF FirstOf
  <2> QED
    BY <1>10, <2>3
<1> QED
  BY <1>1, <1>5, <1>12, <1>14, <1>15

-----------------------------------------------------------------------------
(* Whatever is around, however the capture and the tools fail: every       *)
(* variable of the wireless commands keeps its type.                       *)
THEOREM WirelessTypeCorrectness ==
    ASSUME Wifi!WirelessAssumption
    PROVE  Wifi!Spec => []Wifi!TypeOK
<1>1. WirelessInv => Wifi!TypeOK
  BY WirelessTypes
<1> QED
  BY <1>1, WirelessInvariant, PTL

(* wireless/base.py, wifi.py: for any access points, sightings and order   *)
(* of sightings no network is lost or made up; every entry says what its   *)
(* sightings said (of a capture the first beacon, of rows the first that   *)
(* knows); its issues and notes are those that are due; and the report     *)
(* says the same and, where it is redacted, names no device or place.      *)
THEOREM InventoriesAreFaithful ==
    ASSUME Wifi!WirelessAssumption
    PROVE  Wifi!Spec => []Wifi!InventoryFaithful
<1>1. WirelessInv => Wifi!InventoryFaithful
  BY InventoryIsFaithful
<1> QED
  BY <1>1, WirelessInvariant, PTL

(* wifi.py, wigle.py: an access point seen with one setting gets the       *)
(* verdict of that setting from each of the seven sources, with two        *)
(* exceptions that the property states: macOS does not tell Enhanced Open, *)
(* and WPA3 alone is reported as wpa2/wpa3 if the export it was first seen *)
(* in names the RSN element.                                               *)
THEOREM EverySourceAgrees ==
    ASSUME Wifi!WirelessAssumption
    PROVE  Wifi!Spec => []Wifi!VerdictAgrees
<1>1. WirelessInv => Wifi!VerdictAgrees
  BY VerdictsAgree
<1> QED
  BY <1>1, WirelessInvariant, PTL

=============================================================================
