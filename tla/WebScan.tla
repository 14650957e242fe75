------------------------------ MODULE WebScan ------------------------------
(***************************************************************************)
(* The web interface audit: _scan_web_targets of cli.py, which scans       *)
(* several targets at a time, and WebScanner of web/scanner.py: scan with  *)
(* its TLS connections, _safe_request with its redirect loop, and the      *)
(* directory enumeration of a deep scan.                                   *)
(*                                                                         *)
(* Every URL is validated against the scope (module Scope) when a scan     *)
(* starts and before each hop of a request.  The resolver is asked each    *)
(* time and may answer differently each time; the connection goes to an    *)
(* address of the answer that was validated (the "pin").                   *)
(*                                                                         *)
(* A stretch of a coroutine between two awaits is one action, or two where *)
(* it asks the resolver in the middle.  What servers answer is chosen      *)
(* freely; of a response only its kind matters.                            *)
(***************************************************************************)
EXTENDS Integers, Sequences, FiniteSets, Scope

CONSTANTS
    Target,       \* the targets of the audit, each of them once
    Urls,         \* the URLs tried for a target: https then http for a bare
                  \* host, the one given otherwise
    Answers,      \* the sets of addresses the resolver may answer for a name
    Locations,    \* the URLs a Location header may redirect to
    Path,         \* COMMON_DIRECTORIES
    Configs,      \* the scopes, and whether --deep is given
    Concurrency,  \* --concurrency
    MaxRedirects  \* max_redirects

Url == [scheme : {"http", "https"}, host : Name \cup Addr, port : Port]

ConfigType == [scope : ScopeType, deep : BOOLEAN]

ASSUME WebScanAssumption ==
    /\ Urls \in [Target -> Seq(Url) \ {<<>>}]
    /\ Answers \in [Name -> SUBSET SUBSET Addr]
    /\ Locations \subseteq Url
    /\ Name \cap Addr = {}
    /\ Addr \subseteq Nat /\ Addr # {}
    /\ {"get", "options"} \cap Path = {}
    /\ Configs \subseteq ConfigType
    /\ Concurrency \in Nat \ {0}
    /\ MaxRedirects \in Nat

(* The requests of one scan. *)
Request == {"get", "options"} \cup Path

VARIABLES
    cfg,      \* the configuration, fixed
    phase,    \* where the coroutine of each target is
    attempt,  \* which of its URLs is being scanned
    pin,      \* the address validated when the scan of that URL started
    cert,     \* ssl_certificate of that scan is set
    request,  \* the requests of that scan
    result,   \* what _scan_web_targets reports of the target
    reached   \* a server gave a certificate or the final response, to a scan
              \* that did not raise (history)

scanVars == <<attempt, pin, cert>>
vars == <<cfg, phase, scanVars, request, result, reached>>

Phase == {"waiting", "start", "cert", "trust", "posture", "get", "options",
          "dirs", "done"}

(* A request under way has a URL, has followed some redirects and, once    *)
(* connected, has a peer; when _safe_request returns these are gone.       *)
Waiting == [stage : {"hop"}, url : Url, hops : 0 .. MaxRedirects]
Connected == [stage : {"open"}, url : Url, hops : 0 .. MaxRedirects, peer : Addr]
Idle == [stage |-> "idle"]
Answered == [stage |-> "answered"]
Failed == [stage |-> "failed"]

TypeOK ==
    /\ cfg \in Configs
    /\ phase \in [Target -> Phase]
    /\ attempt \in [Target -> Nat \ {0}]
    /\ \A t \in Target : attempt[t] <= Len(Urls[t])
    /\ pin \in [Target -> Addr]
    /\ cert \in [Target -> BOOLEAN]
    /\ request \in
          [Target -> [Request -> Waiting \cup Connected \cup {Idle, Answered, Failed}]]
    /\ result \in [Target -> {"none", "unreachable", "reachable"}]
    /\ reached \in [Target -> BOOLEAN]

NoAddr == CHOOSE ip \in Addr : TRUE

Init ==
    /\ cfg \in Configs
    /\ phase = [t \in Target |-> "waiting"]
    /\ attempt = [t \in Target |-> 1]
    /\ pin = [t \in Target |-> NoAddr]
    /\ cert = [t \in Target |-> FALSE]
    /\ request = [t \in Target |-> [r \in Request |-> Idle]]
    /\ result = [t \in Target |-> "none"]
    /\ reached = [t \in Target |-> FALSE]

-----------------------------------------------------------------------------
(* What the resolver may answer for a host: an address stands for itself.  *)
Resolved(host) == IF host \in Name THEN Answers[host] ELSE {{host}}

(* _validate_url accepts u when its host resolves to ips. *)
Valid(u, ips) ==
    /\ ResolveInScope(cfg.scope, u.host, ips)
    /\ ValidatePort(cfg.scope, u.port)

(* ips[0]: addresses are sorted.  A literal address needs no pin and is    *)
(* itself the first.                                                       *)
IsFirst(ip, ips) == ip \in ips /\ \A other \in ips : ip <= other

(* The URL a target's scan was started with. *)
Base(t) == Urls[t][attempt[t]]

(* A coroutine of t calls _safe_request. *)
Call(t, r) ==
    request' = [request EXCEPT ![t][r] = [stage |-> "hop", url |-> Base(t), hops |-> 0]]

(* The call returns. *)
Return(t, r, outcome) == request' = [request EXCEPT ![t][r] = outcome]

(* Mutant: http is tried whether https was reachable or not. *)
EndScanTryingAll(t, outcome) ==
    /\ result' = [result EXCEPT ![t] = outcome]
    /\ IF attempt[t] < Len(Urls[t])
          THEN /\ attempt' = [attempt EXCEPT ![t] = @ + 1]
               /\ phase' = [phase EXCEPT ![t] = "start"]
          ELSE /\ phase' = [phase EXCEPT ![t] = "done"]
               /\ UNCHANGED attempt

(* Mutant: there is always one more URL. *)
EndScanBeyond(t, outcome) ==
    /\ result' = [result EXCEPT ![t] = outcome]
    /\ IF outcome # "reachable" /\ attempt[t] <= Len(Urls[t])
          THEN /\ attempt' = [attempt EXCEPT ![t] = @ + 1]
               /\ phase' = [phase EXCEPT ![t] = "start"]
          ELSE /\ phase' = [phase EXCEPT ![t] = "done"]
               /\ UNCHANGED attempt

(* scan returned or raised: the next URL is tried unless this one was      *)
(* reachable.                                                              *)
EndScan(t, outcome) ==
    /\ result' = [result EXCEPT ![t] = outcome]
    /\ IF outcome # "reachable" /\ attempt[t] < Len(Urls[t])
          THEN /\ attempt' = [attempt EXCEPT ![t] = @ + 1]
               /\ phase' = [phase EXCEPT ![t] = "start"]
          ELSE /\ phase' = [phase EXCEPT ![t] = "done"]
               /\ UNCHANGED attempt

-----------------------------------------------------------------------------
(* A slot of the semaphore is free for t (its order of service, which does *)
(* not matter here, is module Semaphore).                                  *)
Begin(t) ==
    /\ phase[t] = "waiting"
    /\ Cardinality({u \in Target : phase[u] \notin {"waiting", "done"}}) < Concurrency
    /\ phase' = [phase EXCEPT ![t] = "start"]
    /\ UNCHANGED <<cfg, scanVars, request, result, reached>>

(* scan raises ScopeError: an earlier result, if any, stays. *)
RefuseUrl(t) ==
    /\ phase[t] = "start"
    /\ \E ips \in Resolved(Base(t).host) : ~Valid(Base(t), ips)
    /\ EndScan(t, result[t])
    /\ UNCHANGED <<cfg, pin, cert, request, reached>>

(* The URL is accepted; over https the certificate is fetched first.       *)
StartScan(t) ==
    /\ phase[t] = "start"
    /\ \E ips \in Resolved(Base(t).host), ip \in Addr :
          /\ Valid(Base(t), ips)
          /\ IsFirst(ip, ips)
          /\ IF Base(t).scheme = "https"
                THEN /\ pin' = [pin EXCEPT ![t] = ip]
                     /\ phase' = [phase EXCEPT ![t] = "cert"]
                     /\ UNCHANGED request
                ELSE /\ phase' = [phase EXCEPT ![t] = "get"]
                     /\ Call(t, "get")
                     /\ UNCHANGED pin
    /\ cert' = [cert EXCEPT ![t] = FALSE]
    /\ UNCHANGED <<cfg, attempt, result, reached>>

(* _fetch_cert_der; trust is checked only of a certificate. *)
FetchCert(t) ==
    /\ phase[t] = "cert"
    /\ \/ /\ cert' = [cert EXCEPT ![t] = TRUE]
          /\ reached' = [reached EXCEPT ![t] = TRUE]
          /\ phase' = [phase EXCEPT ![t] = "trust"]
       \/ /\ phase' = [phase EXCEPT ![t] = "posture"]
          /\ UNCHANGED <<cert, reached>>
    /\ UNCHANGED <<cfg, attempt, pin, request, result>>

VerifyTrust(t) ==
    /\ phase[t] = "trust"
    /\ phase' = [phase EXCEPT ![t] = "posture"]
    /\ UNCHANGED <<cfg, scanVars, request, result, reached>>

(* scan_tls, whose handshakes follow one another: the last use of the pin. *)
(* Then the GET.                                                           *)
CheckPosture(t) ==
    /\ phase[t] = "posture"
    /\ phase' = [phase EXCEPT ![t] = "get"]
    /\ pin' = [pin EXCEPT ![t] = NoAddr]
    /\ Call(t, "get")
    /\ UNCHANGED <<cfg, attempt, cert, result, reached>>

-----------------------------------------------------------------------------
(* Inside _safe_request: the next hop is out of scope. *)
RefuseHop(t, r) ==
    /\ request[t][r].stage = "hop"
    /\ \E ips \in Resolved(request[t][r].url.host) : ~Valid(request[t][r].url, ips)
    /\ Return(t, r, Failed)
    /\ UNCHANGED <<cfg, phase, scanVars, result, reached>>

Connect(t, r, ip) ==
    request' = [request EXCEPT ![t][r] =
                   [stage |-> "open", url |-> @.url, hops |-> @.hops, peer |-> ip]]

(* Mutant: the name is handed to the client, which resolves it once more.  *)
DialName(t, r) ==
    /\ request[t][r].stage = "hop"
    /\ \E ips \in Resolved(request[t][r].url.host) : Valid(request[t][r].url, ips)
    /\ \E ips \in Resolved(request[t][r].url.host), ip \in Addr :
          IsFirst(ip, ips) /\ Connect(t, r, ip)
    /\ UNCHANGED <<cfg, phase, scanVars, result, reached>>

(* The hop is validated, pinned and connected to. *)
Dial(t, r) ==
    /\ request[t][r].stage = "hop"
    /\ \E ips \in Resolved(request[t][r].url.host), ip \in Addr :
          /\ Valid(request[t][r].url, ips)
          /\ IsFirst(ip, ips)
          /\ Connect(t, r, ip)
    /\ UNCHANGED <<cfg, phase, scanVars, result, reached>>

(* Mutant: the redirects are not counted. *)
RedirectUncounted(t, r) ==
    /\ request[t][r].stage = "open"
    /\ r # "options"
    /\ \E u \in Locations :
          request' = [request EXCEPT ![t][r] =
                         [stage |-> "hop", url |-> u, hops |-> @.hops]]
    /\ UNCHANGED <<cfg, phase, scanVars, result, reached>>

(* A redirect: the loop goes on with the new URL.  The check for OPTIONS   *)
(* does not follow redirects, it takes them for the answer.                *)
Redirect(t, r) ==
    /\ request[t][r].stage = "open"
    /\ r # "options"
    /\ request[t][r].hops < MaxRedirects
    /\ \E u \in Locations :
          request' = [request EXCEPT ![t][r] =
                         [stage |-> "hop", url |-> u, hops |-> @.hops + 1]]
    /\ UNCHANGED <<cfg, phase, scanVars, result, reached>>

(* One redirect too many: TooManyRedirects. *)
TooManyRedirects(t, r) ==
    /\ request[t][r].stage = "open"
    /\ r # "options"
    /\ request[t][r].hops = MaxRedirects
    /\ Return(t, r, Failed)
    /\ UNCHANGED <<cfg, phase, scanVars, result, reached>>

(* A Location that urljoin or urlparse cannot parse: the ValueError leaves *)
(* _safe_request.  It ends the whole scan, as if the URL had been refused; *)
(* of a path, gather keeps it as the outcome.                              *)
MalformedRedirect(t, r) ==
    /\ request[t][r].stage = "open"
    /\ r # "options"
    /\ request[t][r].hops < MaxRedirects
    /\ Return(t, r, Failed)
    /\ IF r = "get"
          THEN /\ EndScan(t, result[t])
               /\ reached' = [reached EXCEPT ![t] = FALSE]
          ELSE UNCHANGED <<phase, attempt, result, reached>>
    /\ UNCHANGED <<cfg, pin, cert>>

(* The final response has been read, at most max_response_bytes of it.     *)
Respond(t, r) ==
    /\ request[t][r].stage = "open"
    /\ reached' = [reached EXCEPT ![t] = TRUE]
    /\ Return(t, r, Answered)
    /\ UNCHANGED <<cfg, phase, scanVars, result>>

(* No connection, a timeout, a protocol error: _safe_request returns None. *)
Fail(t, r) ==
    /\ request[t][r].stage = "open"
    /\ Return(t, r, Failed)
    /\ UNCHANGED <<cfg, phase, scanVars, result, reached>>

RequestStep(t, r) ==
    \/ RefuseHop(t, r)
    \/ Dial(t, r)
    \/ Redirect(t, r)
    \/ TooManyRedirects(t, r)
    \/ MalformedRedirect(t, r)
    \/ Respond(t, r)
    \/ Fail(t, r)

-----------------------------------------------------------------------------
(* The GET returned None: the server counts as reachable only if it gave a *)
(* certificate.                                                            *)
GetFailed(t) ==
    /\ phase[t] = "get"
    /\ request[t]["get"] = Failed
    /\ EndScan(t, IF cert[t] THEN "reachable" ELSE "unreachable")
    /\ UNCHANGED <<cfg, pin, cert, request, reached>>

(* The GET was answered: _check_http_methods sends OPTIONS. *)
GetAnswered(t) ==
    /\ phase[t] = "get"
    /\ request[t]["get"] = Answered
    /\ phase' = [phase EXCEPT ![t] = "options"]
    /\ Call(t, "options")
    /\ UNCHANGED <<cfg, scanVars, result, reached>>

OptionsReturned(t) == phase[t] = "options" /\ request[t]["options"] \in {Answered, Failed}

(* A quick scan is over. *)
EndQuick(t) ==
    /\ OptionsReturned(t)
    /\ ~cfg.deep
    /\ EndScan(t, "reachable")
    /\ UNCHANGED <<cfg, pin, cert, request, reached>>

(* _enumerate_directories of a deep scan. *)
StartDirs(t) ==
    /\ OptionsReturned(t)
    /\ cfg.deep
    /\ phase' = [phase EXCEPT ![t] = "dirs"]
    /\ UNCHANGED <<cfg, scanVars, request, result, reached>>

(* A path gets a slot of the scan's own semaphore. *)
StartDir(t, p) ==
    /\ phase[t] = "dirs"
    /\ request[t][p] = Idle
    /\ Cardinality({q \in Path : request[t][q].stage \in {"hop", "open"}}) < Concurrency
    /\ Call(t, p)
    /\ UNCHANGED <<cfg, phase, scanVars, result, reached>>

(* Mutant: the enumeration is over when a path is. *)
SomeDirOver(t) == \E p \in Path : request[t][p] \in {Answered, Failed}

DirsOver(t) == \A p \in Path : request[t][p] \in {Answered, Failed}

(* gather has collected every path; the crawl makes no request. *)
EndDeep(t) ==
    /\ phase[t] = "dirs"
    /\ DirsOver(t)
    /\ EndScan(t, "reachable")
    /\ UNCHANGED <<cfg, pin, cert, request, reached>>

ScanStep(t) ==
    \/ Begin(t)
    \/ RefuseUrl(t)
    \/ StartScan(t)
    \/ FetchCert(t)
    \/ VerifyTrust(t)
    \/ CheckPosture(t)
    \/ GetFailed(t)
    \/ GetAnswered(t)
    \/ EndQuick(t)
    \/ StartDirs(t)
    \/ EndDeep(t)

AllDone == \A t \in Target : phase[t] = "done"

(* gather returns the results. *)
Finished ==
    /\ AllDone
    /\ UNCHANGED vars

Step(t) ==
    \/ ScanStep(t)
    \/ \E p \in Path : StartDir(t, p)
    \/ \E r \in Request : RequestStep(t, r)

Next == (\E t \in Target : Step(t)) \/ Finished

Spec == Init /\ [][Next]_vars

(* The loop runs every ready coroutine; connects, handshakes and reads     *)
(* have timeouts, so each request in flight answers or fails.              *)
Fairness == \A t \in Target : WF_vars(Step(t))

FairSpec == Spec /\ Fairness

-----------------------------------------------------------------------------
(* The connections of t at the moment: host asked for, address, port.      *)
Connections(t) ==
    {[host |-> c.url.host, ip |-> c.peer, port |-> c.url.port] :
        c \in {request[t][r] : r \in {q \in Request : request[t][q].stage = "open"}}}
    \cup IF phase[t] \in {"cert", "trust", "posture"}
         THEN {[host |-> Base(t).host, ip |-> pin[t], port |-> Base(t).port]}
         ELSE {}

(* scope.py:85-88, scanner.py:296 and :755: whatever the resolver answers  *)
(* later, and wherever redirects lead, each connection, over TLS or HTTP,  *)
(* goes to an address and port the scope authorises for the host asked for.*)
OnlyAuthorised ==
    \A t \in Target : \A c \in Connections(t) :
        MayContact(cfg.scope, c.host, c.ip, c.port)

(* scanner.py:266 and cli.py:1573-1580: a target is reported as reachable  *)
(* exactly if one of its URLs gave a certificate or a final response, to a *)
(* scan that did not raise: no later attempt hides it.                     *)
ReachedIsReported ==
    \A t \in Target :
        phase[t] = "done" => (result[t] = "reachable" <=> reached[t])

(* cli.py:1572-1582: when a scan is over, none of its requests is still    *)
(* under way: a slot that is given back is really free, and nothing is     *)
(* sent after the results have been returned.                              *)
NothingLeftOpen ==
    \A t \in Target, r \in Request :
        phase[t] \in {"waiting", "start", "done"} => request[t][r].stage \notin {"hop", "open"}

(* However servers, redirects and the resolver behave, the audit ends.     *)
WebAuditEnds == <>AllDone

=============================================================================
