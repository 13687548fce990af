---------------------------- MODULE GatewayServer ----------------------------
(***************************************************************************)
(* apps/gateway-server: requests on their way through request-context,     *)
(* explicabl's audit logging, identifiabl and the handlers, those of       *)
(* proxyabl's router among them.  An action is what one process does       *)
(* between two awaits or callbacks; requests interleave at each of them,   *)
(* clients hang up at any time, and upstream servers may never answer.     *)
(*                                                                         *)
(* External: express-rate-limit, jose's verdict on a token, the clients    *)
(* and the upstream servers.                                               *)
(***************************************************************************)
EXTENDS Integers

CONSTANTS
  Requests,   \* request slots: how many may be served at once
  Users,      \* the subjects that tokens are about
  Entitled,   \* those whose scopes cover the tool that is asked for
  Forged,     \* a token that does not verify
  None,       \* no token, no identity, no request in the slot
  MaxCrashes  \* bound on how often the process goes down

Upstream == {"tools/call", "rest", "proxy"}

(* "protected": the routes under /protected; "mcp": what the MCP handler   *)
(* answers by itself (initialize, tools/list, malformed requests).         *)
Routes == Upstream \cup {"protected", "mcp"}

ASSUME ServerAssumption ==
  /\ Entitled \subseteq Users
  /\ None \notin Users /\ Forged \notin Users
  /\ MaxCrashes \in Nat

VARIABLES
  requests,  \* requests[r]: the request served in slot r, or None
  crashes    \* how often the process has gone down

vars == <<requests, crashes>>

-----------------------------------------------------------------------------
(* A request for which runWithGatewayContext() has made a context and      *)
(* explicablLoggingMiddleware() has hooked `finish` and `close`.           *)
Request(route, token) ==
  [route      |-> route,
   token      |-> token,
   step       |-> "verify",
   identity   |-> None,      \* context.identity
   onBehalf   |-> None,      \* whom the upstream call is made for
   timer      |-> FALSE,     \* the proxy's abort timer is armed
   statusCode |-> 200,       \* res.statusCode
   open       |-> TRUE,      \* the client has not gone
   finished   |-> FALSE,     \* the client has got the whole answer
   emitted    |-> FALSE,
   events     |-> 0,         \* history: audit events logged
   logged     |-> None]      \* history: the last of them

At(r, step) == requests[r] # None /\ requests[r].step = step

Become(r, req) ==
  /\ requests' = [requests EXCEPT ![r] = req]
  /\ UNCHANGED crashes

(* res.status(status) and the end of the handler.                          *)
Respond(req, status) ==
  [req EXCEPT !.step = "done", !.statusCode = status]

(* Slips: one context for the module; no guard in emit; the abort timer is *)
(* left out, or set for tools too; a failing REST tool is thrown on; no    *)
(* check of the scopes.                                                    *)
ContextShared(r) == CHOOSE x \in Requests : requests[x] # None

EmitAlways(r, req, identity) ==
  [req EXCEPT !.emitted = TRUE, !.events = @ + 1,
              !.logged = [statusCode |-> req.statusCode, identity |-> identity]]

CallUpstreamUntimed(req, identity) ==
  [req EXCEPT !.step = "headers", !.onBehalf = identity]

CallUpstreamTimesAll(req, identity) ==
  [req EXCEPT !.step = "headers", !.onBehalf = identity, !.timer = TRUE]

MayCallAnyone(route, identity) == TRUE

(* getGatewayContext(): the store of the request's own chain.              *)
ContextOf(r) == r

(* emit(): at most one event, with the live context's identity.            *)
Emit(r, req, identity) ==
  IF req.emitted THEN req
  ELSE [req EXCEPT !.emitted = TRUE, !.events = @ + 1,
                   !.logged = [statusCode |-> req.statusCode,
                               identity   |-> identity]]

Identity(r) == requests[ContextOf(r)].identity

(* ensureToolScopesForRequest(); the reverse proxy asks for no scopes.     *)
MayCall(route, identity) == route = "proxy" \/ identity \in Entitled

CallUpstream(req, identity) ==
  [req EXCEPT !.step     = "headers",
              !.onBehalf = identity,
              !.timer    = (req.route = "proxy")]

(* What a handler answers without further ado: limitabl's and              *)
(* requireScope()'s refusals, bad or unknown names and paths, missing      *)
(* configuration.  Statuses that nothing tells apart stand for each other: *)
(* 400 also for 405, 200 also for 202 and 204.                             *)
Refusals(route) ==
  CASE route = "protected"            -> {403, 429}
    [] route = "mcp"                  -> {400, 500}
    [] route \in {"tools/call", "rest"} -> {400, 404, 500}
    [] route = "proxy"                -> {400, 403, 501}

-----------------------------------------------------------------------------
Init ==
  /\ requests = [r \in Requests |-> None]
  /\ crashes = 0

(* Context, audit hooks, limiter; identifiabl up to its await.             *)
Arrive(r, route, token) ==
  /\ requests[r] = None
  /\ LET req == Request(route, token)
     IN  \/ Become(r, Respond(req, 429))
         \/ token = None /\ Become(r, Respond(req, 401))
         \/ token # None /\ Become(r, req)

(* The token does not verify, or its key could not be fetched.             *)
Reject(r) ==
  /\ At(r, "verify")
  /\ Become(r, Respond(requests[r], 401))

(* The token verifies: updateGatewayContext(), and the handler up to its   *)
(* answer or its fetch.                                                    *)
Identify(r) ==
  LET c         == ContextOf(r)
      updated   == [requests EXCEPT ![c].identity = requests[r].token]
      req       == updated[r]
      subject   == updated[c].identity
      Handle(h) == requests' = [updated EXCEPT ![r] = h]
  IN  /\ At(r, "verify")
      /\ req.token \in Users
      /\ \/ \E status \in Refusals(req.route) : Handle(Respond(req, status))
         \/ req.route \notin Upstream /\ Handle(Respond(req, 200))
         \/ /\ req.route \in Upstream /\ ~MayCall(req.route, subject)
            /\ Handle(Respond(req, 403))
         \/ /\ req.route \in Upstream /\ MayCall(req.route, subject)
            /\ Handle(CallUpstream(req, subject))
      /\ UNCHANGED crashes

(* fetch() resolves.  The proxy clears its timer and takes over the status *)
(* before it has the body.                                                 *)
Headers(r) ==
  /\ At(r, "headers")
  /\ \E status \in {200, 503} :
       LET req == [requests[r] EXCEPT !.step = "body"]
       IN  Become(r, IF req.route = "proxy"
                     THEN [req EXCEPT !.timer = FALSE, !.statusCode = status]
                     ELSE [req EXCEPT !.statusCode = 200])

(* The body is there.  A tool's failure is a 200 with isError in MCP.      *)
Body(r) ==
  /\ At(r, "body")
  /\ LET req == requests[r]
     IN  \/ req.route = "tools/call" /\ Become(r, Respond(req, 200))
         \/ /\ req.route = "rest"
            /\ \E status \in {200, 503} : Become(r, Respond(req, status))
         \/ req.route = "proxy" /\ Become(r, Respond(req, req.statusCode))

(* A promise that nobody handles is rejected: the process goes down with   *)
(* every request in it, and is started again.                              *)
Die ==
  /\ crashes < MaxCrashes
  /\ crashes' = crashes + 1
  /\ requests' = [r \in Requests |-> None]

RestToolThrows(r) == Die

RestToolFails(r) == Become(r, Respond(requests[r], 500))

(* The upstream server cannot be reached, breaks off, or sends what is not *)
(* the JSON it announced.  tools/call has no try around its fetch.         *)
UpstreamFails(r) ==
  /\ At(r, "headers") \/ At(r, "body")
  /\ \/ requests[r].route = "tools/call" /\ Die
     \/ requests[r].route = "rest" /\ RestToolFails(r)
     \/ requests[r].route = "proxy" /\ Become(r, Respond(requests[r], 502))

(* The proxy's timer aborts the fetch; it may fire late, when a failed     *)
(* fetch has left it armed.                                                *)
TimerFires(r) ==
  /\ requests[r] # None /\ requests[r].timer
  /\ LET req == [requests[r] EXCEPT !.timer = FALSE]
     IN  Become(r, IF req.step = "headers" THEN Respond(req, 502) ELSE req)

(* `finish`: the answer is out.                                            *)
Finish(r) ==
  /\ At(r, "done")
  /\ requests[r].open /\ ~requests[r].finished
  /\ Become(r, Emit(r, [requests[r] EXCEPT !.finished = TRUE], Identity(r)))

(* `close`: after `finish`, or instead of it when the client hangs up.     *)
Close(r) ==
  /\ requests[r] # None /\ requests[r].open
  /\ Become(r, Emit(r, [requests[r] EXCEPT !.open = FALSE], Identity(r)))

(* The slot is free for another request.                                   *)
Leave(r) ==
  /\ At(r, "done") /\ ~requests[r].open /\ ~requests[r].timer
  /\ Become(r, None)

Step(r) ==
  \/ Reject(r) \/ Identify(r)
  \/ Headers(r) \/ Body(r) \/ UpstreamFails(r) \/ TimerFires(r)
  \/ Finish(r) \/ Close(r) \/ Leave(r)

Next ==
  \E r \in Requests :
    \/ \E route \in Routes, token \in Users \cup {Forged, None} :
         Arrive(r, route, token)
    \/ Step(r)

(* jose gives up on the keys after a while, timers fire, and a client      *)
(* takes its answer or goes.  Nothing is assumed of upstream servers.      *)
Fairness ==
  \A r \in Requests :
    /\ WF_vars(Reject(r) \/ Identify(r))
    /\ WF_vars(TimerFires(r))
    /\ WF_vars(At(r, "done") /\ (Finish(r) \/ Close(r)))

Spec == Init /\ [][Next]_vars /\ Fairness

-----------------------------------------------------------------------------
StatusCodes == {200, 400, 401, 403, 404, 429, 500, 501, 502, 503}

Identities == Users \cup {None}

RequestType ==
  [route : Routes, token : Users \cup {Forged, None},
   step : {"verify", "headers", "body", "done"},
   identity : Identities, onBehalf : Identities,
   timer : BOOLEAN, statusCode : StatusCodes,
   open : BOOLEAN, finished : BOOLEAN, emitted : BOOLEAN, events : Nat,
   logged : [statusCode : StatusCodes, identity : Identities] \cup {None}]

ASSUME SlotAssumption == None \notin RequestType

(* The types of the state; a timer runs for the proxy alone.               *)
TypeOK ==
  /\ requests \in [Requests -> RequestType \cup {None}]
  /\ crashes \in 0 .. MaxCrashes
  /\ \A r \in Requests :
       requests[r] # None /\ requests[r].timer => requests[r].route = "proxy"

(* Exactly one audit event for every request whose connection is closed,   *)
(* in whatever order `finish` and `close` come, and never a second.        *)
AuditedOnce ==
  \A r \in Requests : requests[r] # None =>
    /\ requests[r].events <= 1
    /\ ~requests[r].open => requests[r].events = 1

(* The event of a request that got its answer tells the status the client  *)
(* got and, once the token had verified, whose request it was, although    *)
(* other requests were identified in between.                              *)
AuditIsTrue ==
  \A r \in Requests : requests[r] # None =>
    LET req == requests[r]
    IN  req.finished =>
          /\ req.logged.statusCode = req.statusCode
          /\ req.logged.identity = IF req.statusCode \in {401, 429}
                                   THEN req.identity ELSE req.token

(* Every upstream call is made for the user whose token came with the      *)
(* request, and a tool is called only for a user entitled to it.           *)
NoStrangerUpstream ==
  \A r \in Requests : At(r, "headers") \/ At(r, "body") =>
    /\ requests[r].onBehalf = requests[r].token
    /\ requests[r].route # "proxy" => requests[r].token \in Entitled

(* A request leaves without an audit event only in a crash, and a crash    *)
(* takes a tools/call that waits for its tool.                             *)
OnlyCallsTakeDown ==
  [][\A r \in Requests :
       (requests[r] # None /\ requests'[r] = None /\ ~requests[r].emitted)
         => \E q \in Requests :
              /\ At(q, "headers") \/ At(q, "body")
              /\ requests[q].route = "tools/call"]_vars

(* Waits that no timer of the gateway ends.                                *)
AwaitsUpstream(r) ==
  At(r, "body") \/ (At(r, "headers") /\ requests[r].route # "proxy")

(* Every request is accounted for in the end, by an audit event or by a    *)
(* crash, unless it waits for an upstream server with no timer running.    *)
Accountable ==
  \A r \in Requests :
    requests[r] # None
      ~> (requests[r] = None \/ requests[r].emitted \/ AwaitsUpstream(r))

(* What docs/architecture.md says of proxyabl's failures, "try alternative *)
(* providers, then return error", asks at least that a failing upstream    *)
(* server does not take the process down.                                  *)
ErrorsAreReturned == crashes = 0
==============================================================================
