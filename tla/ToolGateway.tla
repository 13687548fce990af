----------------------------- MODULE ToolGateway -----------------------------
(***************************************************************************)
(* packages/proxyabl/src/tool-gateway.ts: toolGatewayImpl(), which serves  *)
(* MCP and REST calls of tools on one path each, and the authenticated     *)
(* proxy beside it.  An action is what the process does between two        *)
(* awaits; requests share nothing but the process, which goes down when a  *)
(* promise that nobody handles is rejected.                                *)
(*                                                                         *)
(* External: jose's verdict on a token, the clients, the tool functions    *)
(* and the proxied server.  The log webhook and the well-known documents   *)
(* are handed over to modules of their own.                                *)
(***************************************************************************)
EXTENDS Integers, Sequences, SequencesExt

CONSTANTS
  Nil,         \* no token, no tool, no JSON-RPC body, no request in the slot
  Sockets,     \* request slots: how many may be served at once
  Asked,       \* the requests that may come
  Tools,       \* the keys of TOOL_SCOPES, none inherited from Object.prototype
  Needs,       \* TOOL_SCOPES: the scopes each tool needs
  LegalNames,  \* the names with nothing but letters, digits, - and _
  Subjects,    \* the subjects tokens are about
  Nobody,      \* a token that verifies and has no subject
  Forged,      \* a token of three parts that does not verify
  Dotted,      \* a token with dots in it, but not of three parts
  Opaque,      \* a token without a dot
  Suspect,     \* the path segments with .. or :// in them
  OpenPaths,   \* PROXY_ALLOWED_PATHS, each a sequence of segments
  Granted,     \* the scopes and permissions in the tokens that verify
  MaxDeaths    \* bound on how often the process goes down

Tokens == Subjects \cup {Nobody, Forged, Dotted, Opaque, Nil}

Paths == {"root", "mcp", "webhook", "well-known", "tool", "proxy"}

RpcMethods ==
  {"initialize", "notifications/initialized", "tools/list", "tools/call",
   "unknown"}

RequestSteps ==
  {"dispatch", "handed-over", "verify", "headers", "body", "answered"}

(* The calls of tools that may be signed, and the requests in the slots.   *)
Calls == [uid : Subjects, tool : Tools]

Requests ==
  [asked : Asked, step : RequestSteps, status : 200..599 \cup {Nil},
   timer : BOOLEAN, signed : Calls \cup {Nil}]

ASSUME GatewayAssumption ==
  /\ \A q \in Asked :
       /\ q.token \in Tokens /\ q.path \in Paths
       /\ q.rpc \in RpcMethods \cup {Nil}
  /\ Nil \notin 200..599 \cup Calls
  /\ Nil \notin Requests
  /\ MaxDeaths \in Nat

VARIABLES
  sockets,  \* sockets[s]: the request served in slot s, or Nil
  deaths    \* how often the process has gone down

gatewayVars == <<sockets, deaths>>

-----------------------------------------------------------------------------
(* A request as asked, with what has become of it: its step, its status,   *)
(* the proxy's timer, and the call signed and made for it (history).       *)
Incoming(q) ==
  [asked |-> q, step |-> "dispatch", status |-> Nil, timer |-> FALSE,
   signed |-> Nil]

On(s, step) == sockets[s] # Nil /\ sockets[s].step = step

Turn(s, r) ==
  /\ sockets' = [sockets EXCEPT ![s] = r]
  /\ UNCHANGED deaths

Send(r, status) == [r EXCEPT !.step = "answered", !.status = status]

Verifying(r) == [r EXCEPT !.step = "verify"]

Reading == {"GET", "HEAD"}

(* Which part of toolGatewayImpl() a request comes to, or the proxy route. *)
(* looksLikeJsonRpc() holds of the bodies with an rpc.                     *)
Kind(q) ==
  IF q.path = "proxy" THEN "proxy"
  ELSE IF q.method = "OPTIONS" THEN "preflight"
  ELSE IF q.method = "POST" /\ q.path = "webhook" THEN "elsewhere"
  ELSE IF q.method = "POST" /\ (q.rpc # Nil \/ q.path = "mcp") THEN "mcp"
  ELSE IF \/ q.method \in Reading /\ q.path = "root"
          \/ q.method = "HEAD" /\ q.path = "well-known" THEN "health"
  ELSE IF q.method = "GET" /\ q.path = "well-known" THEN "elsewhere"
  ELSE IF q.method # "POST" THEN "other-method"
  ELSE "rest"

(* handleMcp() up to its first await.                                      *)
HandleMcp(r) ==
  LET q == r.asked
      shapeless == q.token \in {Nil, Opaque}
  IN  CASE q.rpc = Nil                         -> Send(r, 400)
        [] q.rpc = "initialize"                -> Send(r, 200)
        [] q.rpc = "notifications/initialized" -> Send(r, 202)
        [] q.rpc = "tools/list" ->
             IF shapeless THEN Send(r, 401) ELSE Verifying(r)
        [] q.rpc = "tools/call" ->
             IF q.tool \notin Tools THEN Send(r, 404)
             ELSE IF shapeless THEN Send(r, 401)
             ELSE IF q.tool \notin LegalNames THEN Send(r, 400)
             ELSE Verifying(r)
        [] q.rpc = "unknown"                -> Send(r, 400)

(* The REST handler and the proxy, up to theirs: a token of three parts.   *)
HandleBearer(r) ==
  IF r.asked.token \in {Nil, Opaque, Dotted} THEN Send(r, 401) ELSE Verifying(r)

(* verifyBearer() of a token that does not verify; the REST handler's own  *)
(* catch clause knows no better status for jose's error.                   *)
VerifyFailed(r) ==
  Send(r, IF Kind(r.asked) = "rest" THEN 500 ELSE 401)

(* requireScopes().  Slips: one of the scopes is enough; a failing REST    *)
(* call is thrown on; the proxy's timer does not fire (further down).      *)
RequireScopesAny(tool, token) ==
  Needs[tool] = {} \/ Needs[tool] \cap Granted[token] # {}

RequireScopes(tool, token) == Needs[tool] \subseteq Granted[token]

(* signGatewayUid() and the fetch of the tool function.                    *)
CallTool(r) ==
  [r EXCEPT !.step = "headers",
            !.signed = [uid |-> r.asked.token, tool |-> r.asked.tool]]

(* What the REST handler says of a name before it asks for scopes.         *)
NameStatus(tool) ==
  IF tool = Nil \/ tool \notin LegalNames THEN 400
  ELSE IF tool \notin Tools THEN 404
  ELSE 200

(* The two checks of a proxied path, after its prefix.  They read its text *)
(* as it came; what new URL() makes of it afterwards (a percent-encoded    *)
(* dot is still a dot to it) is not part of the state.                     *)
SanitizeProxyPath(tail) == ToSet(tail) \cap Suspect = {}

EnforceProxyPathAllowlist(tail) == \E p \in OpenPaths : IsPrefix(p, tail)

Verified(r) ==
  LET q == r.asked
      kind == Kind(q)
  IN  IF kind = "mcp" /\ q.rpc = "tools/list" THEN Send(r, 200)
      ELSE IF q.token = Nobody THEN Send(r, 401)
      ELSE IF kind = "proxy"
      THEN IF ~SanitizeProxyPath(q.tail) THEN Send(r, 400)
           ELSE IF ~EnforceProxyPathAllowlist(q.tail) THEN Send(r, 403)
           ELSE [r EXCEPT !.step = "headers", !.timer = TRUE]
      ELSE IF kind = "rest" /\ NameStatus(q.tool) # 200
      THEN Send(r, NameStatus(q.tool))
      ELSE IF RequireScopes(q.tool, q.token) THEN CallTool(r)
      ELSE Send(r, 403)

-----------------------------------------------------------------------------
GatewayInit ==
  /\ sockets = [s \in Sockets |-> Nil]
  /\ deaths = 0

(* The limiters in front of every route may answer first.                  *)
Ask(s) ==
  /\ sockets[s] = Nil
  /\ \E q \in Asked : Turn(s, Incoming(q)) \/ Turn(s, Send(Incoming(q), 429))

(* toolGatewayImpl()                                                       *)
Dispatch(s) ==
  /\ On(s, "dispatch")
  /\ LET r == sockets[s]
         kind == Kind(r.asked)
     IN Turn(s,
          CASE kind = "preflight"         -> Send(r, 204)
            [] kind = "elsewhere"         -> [r EXCEPT !.step = "handed-over"]
            [] kind = "mcp"               -> HandleMcp(r)
            [] kind = "health"            -> Send(r, 200)
            [] kind = "other-method"      -> Send(r, 405)
            [] kind \in {"rest", "proxy"} -> HandleBearer(r))

(* jwtVerify() settles; without the keys it fails for any token.           *)
Verify(s) ==
  /\ On(s, "verify")
  /\ LET r == sockets[s] IN
     \/ r.asked.token \in Subjects \cup {Nobody} /\ Turn(s, Verified(r))
     \/ Turn(s, VerifyFailed(r))

(* fetch() resolves; the proxy clears its timer and takes over the status. *)
ToolHeaders(s) ==
  /\ On(s, "headers")
  /\ \E status \in {200, 503} :
       LET r == [sockets[s] EXCEPT !.step = "body", !.timer = FALSE]
       IN  Turn(s, IF Kind(r.asked) = "proxy" THEN [r EXCEPT !.status = status]
                   ELSE r)

(* The body is there; a tool's failure is a 200 with isError in MCP.       *)
ToolBody(s) ==
  /\ On(s, "body")
  /\ LET r == sockets[s] IN
     \/ Kind(r.asked) = "mcp" /\ Turn(s, Send(r, 200))
     \/ /\ Kind(r.asked) = "rest"
        /\ \E status \in {200, 503} : Turn(s, Send(r, status))
     \/ Kind(r.asked) = "proxy" /\ Turn(s, Send(r, r.status))

(* The process ends, every request with it, and is started again.          *)
ProcessDies ==
  /\ deaths < MaxDeaths
  /\ deaths' = deaths + 1
  /\ sockets' = [s \in Sockets |-> Nil]

RestFailsFatally(s) == ProcessDies

(* The REST handler's catch clause.                                        *)
RestFails(s) == Turn(s, Send(sockets[s], 500))

(* The fetch is rejected, or the body breaks off or is not the JSON it was *)
(* announced as.  handleMcp() has no try around either.                    *)
ToolFails(s) ==
  /\ On(s, "headers") \/ On(s, "body")
  /\ LET r == sockets[s] IN
     \/ Kind(r.asked) = "mcp" /\ ProcessDies
     \/ Kind(r.asked) = "rest" /\ RestFails(s)
     \/ Kind(r.asked) = "proxy" /\ Turn(s, Send(r, 502))

Disarmed(s) == FALSE

Armed(s) == sockets[s] # Nil /\ sockets[s].timer

(* The proxy's timer; a fetch that failed has left it armed.               *)
ProxyTimeout(s) ==
  /\ Armed(s)
  /\ LET r == [sockets[s] EXCEPT !.timer = FALSE]
     IN  Turn(s, IF r.step = "headers" THEN Send(r, 502) ELSE r)

Disconnect(s) ==
  /\ On(s, "answered") \/ On(s, "handed-over")
  /\ ~Armed(s)
  /\ Turn(s, Nil)

GatewayNext ==
  \E s \in Sockets :
    \/ Ask(s) \/ Dispatch(s) \/ Verify(s) \/ ToolHeaders(s) \/ ToolBody(s)
    \/ ToolFails(s) \/ ProxyTimeout(s) \/ Disconnect(s)

(* jose gives up on the keys after a while and timers fire; nothing is     *)
(* assumed of tool functions, proxied servers and clients.                 *)
GatewayFairness ==
  \A s \in Sockets :
    /\ WF_gatewayVars(Dispatch(s))
    /\ WF_gatewayVars(Verify(s))
    /\ WF_gatewayVars(ProxyTimeout(s))

GatewaySpec == GatewayInit /\ [][GatewayNext]_gatewayVars /\ GatewayFairness

-----------------------------------------------------------------------------
(* The shape of the state; only a proxied request has a timer, and one     *)
(* that is answered has a status.                                          *)
GatewayTypeOK ==
  /\ deaths \in 0..MaxDeaths
  /\ sockets \in [Sockets -> Requests \cup {Nil}]
  /\ \A s \in Sockets : sockets[s] # Nil =>
       /\ sockets[s].timer => Kind(sockets[s].asked) = "proxy"
       /\ On(s, "answered") => sockets[s].status # Nil

(* A tool function is called with the gateway's signature only for the     *)
(* subject of the token the same request brought, who holds every scope    *)
(* of the very tool that was asked for, whether the name came in an MCP    *)
(* message or in the path; and what a tool answers goes to nobody else     *)
(* (verifyBearerAndScopes(), the REST handler).                            *)
SignedForEntitled ==
  \A s \in Sockets : sockets[s] # Nil =>
    LET r == sockets[s]
        call == r.signed
    IN  /\ call # Nil =>
             /\ call.uid = r.asked.token /\ call.uid \in Subjects
             /\ call.tool = r.asked.tool /\ call.tool \in Tools \cap LegalNames
             /\ \A scope \in Needs[call.tool] : scope \in Granted[call.uid]
        /\ On(s, "body") \/ (On(s, "answered") /\ r.status \in {200, 503}) =>
             \/ call # Nil
             \/ Kind(r.asked) = "health"
             \/ Kind(r.asked) = "proxy" /\ r.asked.token \in Subjects
             \/ r.asked.rpc = "initialize"
             \/ r.asked.rpc = "tools/list" /\ r.asked.token \in Subjects \cup {Nobody}

(* Requests are lost only when a tool called by MCP fails, and then all    *)
(* are; REST and proxy failures are answered to the one they concern.      *)
OnlyMcpIsFatal ==
  [][\A s \in Sockets :
       (sockets[s] # Nil /\ sockets'[s] = Nil /\ sockets[s].status = Nil
          /\ ~On(s, "handed-over"))
         => /\ \E c \in Sockets :
                 /\ On(c, "headers") \/ On(c, "body")
                 /\ Kind(sockets[c].asked) = "mcp"
            /\ \A other \in Sockets : sockets'[other] = Nil]_gatewayVars

(* Every request is answered, handed over or lost in a death, or waits for *)
(* a tool, which no timer limits, or for a proxied body, which none does.  *)
GatewayAnswers ==
  \A s \in Sockets :
    On(s, "dispatch") ~>
      \/ sockets[s] = Nil \/ On(s, "answered") \/ On(s, "handed-over")
      \/ On(s, "body")
      \/ On(s, "headers") /\ Kind(sockets[s].asked) # "proxy"
===============================================================================
