------------------------- MODULE GatewayServerProofs -------------------------
(* Proofs about GatewayServer, for any slots, users and number of crashes. *)
EXTENDS GatewayServer, TLAPS

(* What is true of a request in every state.                               *)
Sound(req) ==
  /\ req.events = IF req.emitted THEN 1 ELSE 0
  /\ ~req.open => req.emitted
  /\ req.emitted => req.finished \/ ~req.open
  /\ req.finished =>
       /\ req.step = "done" /\ req.emitted
       /\ req.logged.statusCode = req.statusCode
       /\ req.logged.identity = req.identity
  /\ req.step \in {"headers", "body"} =>
       /\ req.identity = req.token /\ req.onBehalf = req.token
       /\ req.route # "proxy" => req.token \in Entitled
  /\ req.step = "done" =>
       req.identity = req.token \/ req.statusCode \in {401, 429}
  /\ req.timer => req.route = "proxy"

IInv ==
  /\ requests \in [Requests -> RequestType \cup {None}]
  /\ crashes \in 0 .. MaxCrashes
  /\ \A r \in Requests : requests[r] # None => Sound(requests[r])

(* A request leaves without an event; a tools/call awaits its tool.        *)
Vanishes(r) == requests[r] # None /\ requests'[r] = None /\ ~requests[r].emitted

Fatal ==
  \E q \in Requests :
    (At(q, "headers") \/ At(q, "body")) /\ requests[q].route = "tools/call"

(* What every step has to show.                                            *)
StepOK ==
  /\ IInv'
  /\ \A r \in Requests : Vanishes(r) => Fatal

(* A request that ends keeps what is true of it.                           *)
LEMMA RespondSound ==
  ASSUME NEW req \in RequestType, NEW status \in StatusCodes,
         Sound(req), ~req.finished,
         req.identity = req.token \/ status \in {401, 429}
  PROVE  Respond(req, status) \in RequestType /\ Sound(Respond(req, status))
<1>1. PICK x : x = Respond(req, status)
  OBVIOUS
<1>2. x = [req EXCEPT !.step = "done", !.statusCode = status]
  BY <1>1 DEF Respond
<1>3. x \in RequestType
  BY <1>2 DEF RequestType
<1>4. Sound(x)
  BY <1>2 DEF RequestType, Sound
<1>. QED
  BY <1>1, <1>3, <1>4

(* So does one whose upstream call is made for the subject of its token.   *)
LEMMA CallSound ==
  ASSUME NEW req \in RequestType, Sound(req), ~req.finished,
         req.identity = req.token,
         req.route # "proxy" => req.token \in Entitled
  PROVE  /\ CallUpstream(req, req.identity) \in RequestType
         /\ Sound(CallUpstream(req, req.identity))
<1>1. PICK x : x = CallUpstream(req, req.identity)
  OBVIOUS
<1>2. x = [req EXCEPT !.step = "headers", !.onBehalf = req.identity,
                      !.timer = (req.route = "proxy")]
  BY <1>1 DEF CallUpstream
<1>3. x \in RequestType
  BY <1>2 DEF RequestType
<1>4. Sound(x)
  BY <1>2 DEF RequestType, Sound
<1>. QED
  BY <1>1, <1>3, <1>4

(* And the state, when one slot gets such a request or becomes free.       *)
LEMMA BecomeOK ==
  ASSUME IInv, NEW r \in Requests, NEW req \in RequestType \cup {None},
         req # None => Sound(req), req = None => requests[r].emitted,
         Become(r, req)
  PROVE  StepOK
<1>1. /\ requests' = [requests EXCEPT ![r] = req]
      /\ crashes' = crashes
  BY DEF Become
<1>2. IInv'
  BY <1>1 DEF IInv
<1>3. \A q \in Requests : ~Vanishes(q)
  BY <1>1 DEF IInv, Vanishes
<1>. QED
  BY <1>2, <1>3 DEF StepOK

LEMMA BecomeRequestOK ==
  ASSUME IInv, NEW r \in Requests, NEW req \in RequestType,
         Sound(req), Become(r, req)
  PROVE  StepOK
BY BecomeOK, SlotAssumption

(* Arriving, with or without an answer already.                            *)
LEMMA ArriveOK ==
  ASSUME IInv, NEW r \in Requests, NEW route \in Routes,
         NEW token \in Users \cup {Forged, None}, Arrive(r, route, token)
  PROVE  StepOK
<1>1. PICK req : req = Request(route, token)
  OBVIOUS
<1>2. /\ req \in RequestType /\ Sound(req) /\ ~req.finished
      /\ token = None => req.identity = req.token
  BY <1>1 DEF Request, RequestType, Sound, Identities, StatusCodes
<1>3. CASE Become(r, Respond(req, 429))
  <2>1. Respond(req, 429) \in RequestType /\ Sound(Respond(req, 429))
    BY <1>2, RespondSound DEF StatusCodes
  <2>. QED
    BY <1>3, <2>1, BecomeRequestOK
<1>4. CASE Become(r, Respond(req, 401))
  <2>1. Respond(req, 401) \in RequestType /\ Sound(Respond(req, 401))
    BY <1>2, RespondSound DEF StatusCodes
  <2>. QED
    BY <1>4, <2>1, BecomeRequestOK
<1>5. CASE Become(r, req)
  BY <1>2, <1>5, BecomeRequestOK
<1>. QED
  BY <1>1, <1>3, <1>4, <1>5 DEF Arrive

(* The verdict on the token, and what the handler does with it.            *)
LEMMA IdentifyOK ==
  ASSUME IInv, NEW r \in Requests, Identify(r)
  PROVE  StepOK
<1>1. PICK req : req = [requests[r] EXCEPT !.identity = requests[r].token]
  OBVIOUS
<1>2. /\ requests[r] \in RequestType /\ Sound(requests[r])
      /\ requests[r].step = "verify" /\ requests[r].token \in Users
  BY DEF Identify, At, IInv
<1>3. /\ req \in RequestType /\ Sound(req) /\ ~req.finished
      /\ req.identity = req.token
  BY <1>1, <1>2 DEF RequestType, Identities, Sound
<1>4. PICK updated : updated = [requests EXCEPT ![r].identity = requests[r].token]
  OBVIOUS
<1>5. /\ updated = [requests EXCEPT ![r] = req]
      /\ updated[r] = req
  BY <1>1, <1>4 DEF IInv
<1>. DEFINE known == [requests EXCEPT ![r].identity = requests[r].token]
            Handle(h) == requests' = [known EXCEPT ![r] = h]
<1>0. \/ \E status \in Refusals(known[r].route) : Handle(Respond(known[r], status))
      \/ Handle(Respond(known[r], 200))
      \/ Handle(Respond(known[r], 403))
      \/ /\ MayCall(known[r].route, known[r].identity)
         /\ Handle(CallUpstream(known[r], known[r].identity))
  BY Zenon DEF Identify, ContextOf
<1>6. \/ \E status \in Refusals(req.route) :
            requests' = [updated EXCEPT ![r] = Respond(req, status)]
      \/ requests' = [updated EXCEPT ![r] = Respond(req, 200)]
      \/ requests' = [updated EXCEPT ![r] = Respond(req, 403)]
      \/ /\ MayCall(req.route, req.identity)
         /\ requests' = [updated EXCEPT ![r] = CallUpstream(req, req.identity)]
  <2>1. known = updated /\ known[r] = req
    BY <1>4, <1>5
  <2>. QED
    BY <1>0, <2>1
<1>7. \A x : [updated EXCEPT ![r] = x] = [requests EXCEPT ![r] = x]
  BY <1>5 DEF IInv
<1>8. crashes' = crashes
  BY DEF Identify
<1>9. ASSUME NEW status \in StatusCodes,
             requests' = [updated EXCEPT ![r] = Respond(req, status)]
      PROVE  StepOK
  <2>1. Respond(req, status) \in RequestType /\ Sound(Respond(req, status))
    BY <1>3, RespondSound
  <2>. QED
    BY <1>7, <1>8, <1>9, <2>1, BecomeRequestOK DEF Become
<1>10. ASSUME MayCall(req.route, req.identity),
              requests' = [updated EXCEPT ![r] = CallUpstream(req, req.identity)]
       PROVE  StepOK
  <2>1. /\ CallUpstream(req, req.identity) \in RequestType
        /\ Sound(CallUpstream(req, req.identity))
    BY <1>3, <1>10, CallSound DEF MayCall
  <2>. QED
    BY <1>7, <1>8, <1>10, <2>1, BecomeRequestOK DEF Become
<1>11. Refusals(req.route) \subseteq StatusCodes
  BY <1>3 DEF Refusals, RequestType, Routes, Upstream, StatusCodes
<1>12. 200 \in StatusCodes /\ 403 \in StatusCodes
  BY DEF StatusCodes
<1>. QED
  BY <1>6, <1>9, <1>10, <1>11, <1>12

(* The upstream server's answer, its failure and the timer.                *)
LEMMA UpstreamOK ==
  ASSUME IInv, NEW r \in Requests,
         Headers(r) \/ Body(r) \/ UpstreamFails(r) \/ TimerFires(r)
  PROVE  StepOK
<1>1. PICK req : req = requests[r]
  OBVIOUS
<1>2. requests[r] # None => req \in RequestType /\ Sound(req)
  BY <1>1 DEF IInv
<1>3. ASSUME requests[r] # None, req.step \in {"headers", "body"},
             NEW status \in StatusCodes
      PROVE  Respond(req, status) \in RequestType /\ Sound(Respond(req, status))
  <2>1. ~req.finished /\ req.identity = req.token
    BY <1>2, <1>3 DEF Sound
  <2>. QED
    BY <1>2, <1>3, <2>1, RespondSound
<1>4. ASSUME requests[r] # None, req.step \in {"headers", "body"},
             NEW status \in StatusCodes, Become(r, Respond(req, status))
      PROVE  StepOK
  BY <1>3, <1>4, BecomeRequestOK
<1>5. CASE Headers(r)
  <2>1. requests[r] # None /\ req.step = "headers"
    BY <1>1, <1>5 DEF Headers, At
  <2>. DEFINE reading == [requests[r] EXCEPT !.step = "body"]
  <2>2. \E status \in {200, 503} :
          Become(r, IF reading.route = "proxy"
                    THEN [reading EXCEPT !.timer = FALSE, !.statusCode = status]
                    ELSE [reading EXCEPT !.statusCode = 200])
    BY <1>5, Zenon DEF Headers
  <2>3. PICK b : b = reading
    OBVIOUS
  <2>4. /\ b \in RequestType /\ b.step = "body" /\ b.identity = req.identity
        /\ ~req.finished
    BY <1>1, <1>2, <2>1, <2>3 DEF RequestType, Sound
  <2>5. Sound(b)
    BY <1>1, <1>2, <2>1, <2>3, <2>4 DEF RequestType, Sound
  <2>6. PICK status \in {200, 503} :
          Become(r, IF b.route = "proxy"
                    THEN [b EXCEPT !.timer = FALSE, !.statusCode = status]
                    ELSE [b EXCEPT !.statusCode = 200])
    BY <2>2, <2>3
  <2>7. PICK x : x = [b EXCEPT !.timer = FALSE, !.statusCode = status]
    OBVIOUS
  <2>8. PICK y : y = [b EXCEPT !.statusCode = 200]
    OBVIOUS
  <2>9. x \in RequestType
    <3>1. status \in StatusCodes
      BY <2>6 DEF StatusCodes
    <3>. QED
      BY <2>4, <2>7, <3>1 DEF RequestType
  <2>10. Sound(x)
    BY <2>4, <2>5, <2>7 DEF RequestType, Sound
  <2>11. y \in RequestType
    BY <2>4, <2>8 DEF RequestType, StatusCodes
  <2>12. Sound(y)
    BY <2>4, <2>5, <2>8 DEF RequestType, Sound
  <2>13. Become(r, x) \/ Become(r, y)
    BY <2>6, <2>7, <2>8
  <2>. QED
    BY <2>9, <2>10, <2>11, <2>12, <2>13, BecomeRequestOK
<1>6. CASE Body(r)
  <2>1. requests[r] # None /\ req.step = "body"
    BY <1>1, <1>6 DEF Body, At
  <2>2. \E status \in {200, 503, req.statusCode} : Become(r, Respond(req, status))
    BY <1>1, <1>6 DEF Body
  <2>3. {200, 503, req.statusCode} \subseteq StatusCodes
    BY <1>2, <2>1 DEF RequestType, StatusCodes
  <2>. QED
    BY <1>4, <2>1, <2>2, <2>3
<1>7. CASE UpstreamFails(r)
  <2>1. requests[r] # None /\ req.step \in {"headers", "body"}
    BY <1>1, <1>7 DEF UpstreamFails, At
  <2>2. CASE requests[r].route = "tools/call" /\ Die
    <3>1. IInv'
      BY <2>2, ServerAssumption DEF Die, IInv
    <3>2. Fatal
      BY <1>7, <2>2 DEF UpstreamFails, Fatal
    <3>. QED
      BY <3>1, <3>2 DEF StepOK
  <2>3. CASE \E status \in {500, 502} : Become(r, Respond(req, status))
    BY <1>4, <2>1, <2>3 DEF StatusCodes
  <2>. QED
    BY <1>1, <1>7, <2>2, <2>3 DEF UpstreamFails, RestToolFails
<1>8. CASE TimerFires(r)
  <2>1. PICK x : x = [req EXCEPT !.timer = FALSE]
    OBVIOUS
  <2>2. requests[r] # None
    BY <1>8 DEF TimerFires
  <2>3. x \in RequestType
    BY <1>2, <1>1, <2>1, <2>2 DEF RequestType
  <2>6. Sound(x)
    BY <1>2, <1>1, <2>1, <2>2 DEF RequestType, Sound
  <2>4. CASE Become(r, x)
    BY <2>3, <2>4, <2>6, BecomeRequestOK
  <2>5. CASE x.step = "headers" /\ Become(r, Respond(x, 502))
    <3>1. ~x.finished /\ x.identity = x.token /\ 502 \in StatusCodes
      BY <2>6, <2>5 DEF Sound, StatusCodes
    <3>2. Respond(x, 502) \in RequestType /\ Sound(Respond(x, 502))
      BY <2>3, <2>6, <3>1, RespondSound
    <3>. QED
      BY <2>5, <3>2, BecomeRequestOK
  <2>. QED
    BY <1>1, <1>8, <2>1, <2>4, <2>5 DEF TimerFires
<1>. QED
  BY <1>5, <1>6, <1>7, <1>8

(* emit(), off `finish` and off `close`.                                   *)
LEMMA EmitOK ==
  ASSUME IInv, NEW r \in Requests, Finish(r) \/ Close(r)
  PROVE  StepOK
<1>1. PICK req : req = requests[r]
  OBVIOUS
<1>2. req # None /\ req.open
  BY <1>1 DEF Finish, Close, At
<1>3. req \in RequestType /\ Sound(req)
  BY <1>1, <1>2 DEF IInv
<1>4. CASE Finish(r)
  <2>1. req.step = "done" /\ ~req.finished /\ ~req.emitted
    BY <1>1, <1>3, <1>4 DEF Finish, At, Sound, RequestType
  <2>2. PICK x : x = [req EXCEPT !.finished = TRUE]
    OBVIOUS
  <2>3. PICK y : y = [x EXCEPT !.emitted = TRUE, !.events = @ + 1,
                        !.logged = [statusCode |-> x.statusCode,
                                    identity   |-> req.identity]]
    OBVIOUS
  <2>4. x \in RequestType /\ ~x.emitted
    BY <1>3, <2>1, <2>2 DEF RequestType
  <2>5. Become(r, y)
    BY <1>1, <1>4, <2>2, <2>3, <2>4 DEF Finish, Emit, Identity, ContextOf
  <2>6. y \in RequestType
    <3>1. req.identity \in Identities /\ x.statusCode \in StatusCodes
      BY <1>3, <2>4 DEF RequestType
    <3>2. [statusCode |-> x.statusCode, identity |-> req.identity]
            \in [statusCode : StatusCodes, identity : Identities]
      BY <3>1
    <3>3. PICK e, l : e = x.events + 1 /\ l = [statusCode |-> x.statusCode,
                                          identity   |-> req.identity]
      OBVIOUS
    <3>4. e \in Nat /\ l \in [statusCode : StatusCodes, identity : Identities]
      BY <2>3, <2>4, <3>2, <3>3 DEF RequestType
    <3>5. y = [x EXCEPT !.emitted = TRUE, !.events = e, !.logged = l]
      BY <2>3, <2>4, <3>3
    <3>. QED
      BY <2>3, <2>4, <3>4, <3>5 DEF RequestType
  <2>7. /\ y.events = 1 /\ y.emitted /\ y.finished /\ y.step = "done"
        /\ y.open = req.open /\ y.timer = req.timer /\ y.route = req.route
        /\ y.token = req.token /\ y.identity = req.identity
        /\ y.statusCode = req.statusCode
        /\ y.logged.statusCode = y.statusCode
        /\ y.logged.identity = y.identity
    BY <1>3, <2>1, <2>2, <2>3 DEF RequestType, Sound
  <2>8. Sound(y)
    BY <1>2, <1>3, <2>1, <2>7 DEF Sound
  <2>. QED
    BY <2>5, <2>6, <2>8, BecomeRequestOK
<1>5. CASE Close(r)
  <2>1. PICK x : x = [req EXCEPT !.open = FALSE]
    OBVIOUS
  <2>2. PICK y : y = [x EXCEPT !.emitted = TRUE, !.events = @ + 1,
                        !.logged = [statusCode |-> x.statusCode,
                                    identity   |-> req.identity]]
    OBVIOUS
  <2>3. x \in RequestType /\ x.emitted = req.emitted
    BY <1>3, <2>1 DEF RequestType
  <2>4. CASE req.emitted
    <3>1. Become(r, x)
      BY <1>1, <1>5, <2>1, <2>3, <2>4 DEF Close, Emit, Identity, ContextOf
    <3>2. Sound(x)
      BY <1>3, <2>1, <2>4 DEF RequestType, Sound
    <3>. QED
      BY <2>3, <3>1, <3>2, BecomeRequestOK
  <2>5. CASE ~req.emitted
    <3>1. Become(r, y)
      BY <1>1, <1>5, <2>1, <2>2, <2>3, <2>5 DEF Close, Emit, Identity, ContextOf
    <3>2. y \in RequestType
      <4>1. req.identity \in Identities /\ x.statusCode \in StatusCodes
        BY <1>3, <2>3 DEF RequestType
      <4>2. [statusCode |-> x.statusCode, identity |-> req.identity]
              \in [statusCode : StatusCodes, identity : Identities]
        BY <4>1
      <4>3. PICK e, l : e = x.events + 1 /\ l = [statusCode |-> x.statusCode,
                                            identity   |-> req.identity]
        OBVIOUS
      <4>4. e \in Nat /\ l \in [statusCode : StatusCodes, identity : Identities]
        BY <2>2, <2>3, <4>2, <4>3 DEF RequestType
      <4>5. y = [x EXCEPT !.emitted = TRUE, !.events = e, !.logged = l]
        BY <2>2, <2>3, <4>3
      <4>. QED
        BY <2>2, <2>3, <4>4, <4>5 DEF RequestType
    <3>3. /\ y.events = 1 /\ y.emitted /\ ~y.finished /\ ~y.open
          /\ y.step = req.step /\ y.timer = req.timer /\ y.route = req.route
          /\ y.token = req.token /\ y.identity = req.identity
          /\ y.onBehalf = req.onBehalf /\ y.statusCode = req.statusCode
      BY <1>3, <2>1, <2>2, <2>5 DEF RequestType, Sound
    <3>4. Sound(y)
      BY <1>3, <3>3 DEF Sound
    <3>. QED
      BY <3>1, <3>2, <3>4, BecomeRequestOK
  <2>. QED
    BY <2>4, <2>5
<1>. QED
  BY <1>4, <1>5

-----------------------------------------------------------------------------
LEMMA InitIInv == Init => IInv
BY ServerAssumption DEF Init, IInv

(* One case per action.                                                    *)
LEMMA NextOK == IInv /\ Next => StepOK
<1>. SUFFICES ASSUME IInv, Next
              PROVE  StepOK
  OBVIOUS
<1>1. ASSUME NEW r \in Requests, NEW route \in Routes,
             NEW token \in Users \cup {Forged, None}, Arrive(r, route, token)
      PROVE  StepOK
  BY <1>1, ArriveOK
<1>2. ASSUME NEW r \in Requests, Reject(r)
      PROVE  StepOK
  <2>1. PICK req : req = requests[r]
    OBVIOUS
  <2>2. req \in RequestType /\ Sound(req) /\ ~req.finished
    BY <1>2, <2>1 DEF Reject, At, IInv, Sound
  <2>3. Respond(req, 401) \in RequestType /\ Sound(Respond(req, 401))
    BY <2>2, RespondSound DEF StatusCodes
  <2>. QED
    BY <1>2, <2>1, <2>3, BecomeRequestOK DEF Reject
<1>3. ASSUME NEW r \in Requests, Identify(r)
      PROVE  StepOK
  BY <1>3, IdentifyOK
<1>4. ASSUME NEW r \in Requests,
             Headers(r) \/ Body(r) \/ UpstreamFails(r) \/ TimerFires(r)
      PROVE  StepOK
  BY <1>4, UpstreamOK
<1>5. ASSUME NEW r \in Requests, Finish(r) \/ Close(r)
      PROVE  StepOK
  BY <1>5, EmitOK
<1>6. ASSUME NEW r \in Requests, Leave(r)
      PROVE  StepOK
  <2>1. requests[r].emitted
    BY <1>6 DEF Leave, At, IInv, Sound
  <2>. QED
    BY <1>6, <2>1, BecomeOK DEF Leave
<1>. QED
  BY <1>1, <1>2, <1>3, <1>4, <1>5, <1>6 DEF Next, Step

LEMMA Invariance == Spec => []IInv
<1>1. IInv /\ UNCHANGED vars => IInv'
  BY DEF vars, IInv
<1>2. IInv /\ [Next]_vars => IInv'
  BY <1>1, NextOK DEF StepOK
<1>. QED
  BY <1>2, InitIInv, PTL DEF Spec

(* The state keeps its types, and timers run for the proxy alone.          *)
THEOREM TypeCorrect == Spec => []TypeOK
<1>1. IInv => TypeOK
  BY DEF IInv, TypeOK, Sound
<1>. QED
  BY <1>1, Invariance, PTL

(* emit() logs one event for a request, whether `finish` and `close` both  *)
(* come or only the one.                                                   *)
THEOREM OneEventEach == Spec => []AuditedOnce
<1>1. IInv => AuditedOnce
  BY DEF IInv, AuditedOnce, Sound
<1>. QED
  BY <1>1, Invariance, PTL

(* The event of an answered request tells its status and its user.         *)
THEOREM EventsAreTrue == Spec => []AuditIsTrue
<1>1. IInv => AuditIsTrue
  BY DEF IInv, AuditIsTrue, Sound
<1>. QED
  BY <1>1, Invariance, PTL

(* Upstream calls are made for the user of the request, who is entitled.   *)
THEOREM OnlyTheirOwnCalls == Spec => []NoStrangerUpstream
<1>1. IInv => NoStrangerUpstream
  BY DEF IInv, NoStrangerUpstream, At, Sound
<1>. QED
  BY <1>1, Invariance, PTL

(* Only a failing tools/call makes a request vanish without an event.      *)
THEOREM OnlyCallsAreFatal == Spec => OnlyCallsTakeDown
<1>1. ASSUME IInv, Next
      PROVE  \A r \in Requests :
               (requests[r] # None /\ requests'[r] = None /\ ~requests[r].emitted)
                 => \E q \in Requests :
                      /\ At(q, "headers") \/ At(q, "body")
                      /\ requests[q].route = "tools/call"
  BY <1>1, NextOK DEF StepOK, Vanishes, Fatal
<1>. QED
  BY <1>1, Invariance, PTL DEF Spec, OnlyCallsTakeDown

-----------------------------------------------------------------------------
(* Progress.  What is ahead of a request: its awaits, its timer, and the   *)
(* `finish` and `close` of its response.                                   *)
One(b) == IF b THEN 1 ELSE 0

Awaits == [verify |-> 3, headers |-> 2, body |-> 1, done |-> 0]

Ahead(req) ==
  2 * Awaits[req.step] + One(req.timer) + One(req.open) + One(~req.finished)

(* The request of the slot has left, or has less ahead.                    *)
Nears(r) == requests'[r] = None \/ Ahead(requests'[r]) < Ahead(requests[r])

(* The others are where they were, or went down with the process.          *)
Advances(r) ==
  /\ Nears(r)
  /\ \A q \in Requests \ {r} : requests'[q] \in {requests[q], None}

LEMMA BecomeAdvances ==
  ASSUME IInv, NEW r \in Requests, NEW req, Become(r, req),
         Ahead(req) < Ahead(requests[r])
  PROVE  Advances(r)
BY DEF IInv, Become, Advances, Nears

(* A request that gets further, or less open, has less ahead.              *)
LEMMA FurtherIsLess ==
  ASSUME NEW req \in RequestType, NEW next,
         \/ /\ <<req.step, next.step>> \in
                 {<<"verify", "headers">>, <<"verify", "done">>,
                  <<"headers", "body">>, <<"headers", "done">>, <<"body", "done">>}
            /\ next.timer \in BOOLEAN /\ (next.timer => req.timer \/ req.step = "verify")
            /\ next.open = req.open /\ next.finished = req.finished
         \/ /\ next.step = req.step /\ req.timer /\ ~next.timer
            /\ next.open = req.open /\ next.finished = req.finished
         \/ /\ next.step = req.step /\ next.timer = req.timer
            /\ req.open /\ ~next.open /\ next.finished = req.finished
         \/ /\ next.step = req.step /\ next.timer = req.timer
            /\ next.open = req.open /\ ~req.finished /\ next.finished
  PROVE  Ahead(next) < Ahead(req)
BY DEF RequestType, Ahead, Awaits, One

(* Answering a request that was not answered.                              *)
LEMMA RespondAdvances ==
  ASSUME IInv, NEW r \in Requests, requests[r] # None, 
         NEW req \in RequestType, req.step # "done",
         req.step = requests[r].step, req.open = requests[r].open,
         req.timer => requests[r].timer, req.finished = requests[r].finished,
         NEW status, Become(r, Respond(req, status))
  PROVE  Advances(r)
<1>1. PICK x : x = Respond(req, status)
  OBVIOUS
<1>2. /\ x.step = "done" /\ x.timer = req.timer /\ x.open = req.open
      /\ x.finished = req.finished
  BY <1>1 DEF Respond, RequestType
<1>3. requests[r] \in RequestType /\ req.timer \in BOOLEAN
  BY DEF IInv, RequestType
<1>4. Ahead(x) < Ahead(requests[r])
  <2>1. req.step \in {"verify", "headers", "body"}
    BY DEF RequestType
  <2>. QED
    BY <1>2, <1>3, <2>1, FurtherIsLess
<1>. QED
  BY <1>1, <1>4, BecomeAdvances

LEMMA IdentifyAdvances ==
  ASSUME IInv, NEW r \in Requests, Identify(r)
  PROVE  Advances(r)
<1>1. PICK req : req = [requests[r] EXCEPT !.identity = requests[r].token]
  OBVIOUS
<1>2. requests[r] \in RequestType /\ requests[r].step = "verify" /\ requests[r] # None
      /\ requests[r].token \in Users
  BY DEF Identify, At, IInv
<1>3. /\ req \in RequestType /\ req.step = "verify"
      /\ req.timer = requests[r].timer /\ req.open = requests[r].open
      /\ req.finished = requests[r].finished
  BY <1>1, <1>2 DEF RequestType, Identities
<1>4. PICK updated : updated = [requests EXCEPT ![r].identity = requests[r].token]
  OBVIOUS
<1>5. /\ updated = [requests EXCEPT ![r] = req]
      /\ updated[r] = req
  BY <1>1, <1>4 DEF IInv
<1>. DEFINE known == [requests EXCEPT ![r].identity = requests[r].token]
            Handle(h) == requests' = [known EXCEPT ![r] = h]
<1>6. \/ \E status \in Refusals(known[r].route) : Handle(Respond(known[r], status))
      \/ Handle(Respond(known[r], 200))
      \/ Handle(Respond(known[r], 403))
      \/ Handle(CallUpstream(known[r], known[r].identity))
  BY Zenon DEF Identify, ContextOf
<1>7. \/ \E status : requests' = [updated EXCEPT ![r] = Respond(req, status)]
      \/ requests' = [updated EXCEPT ![r] = CallUpstream(req, req.identity)]
  <2>1. known = updated /\ known[r] = req
    BY <1>4, <1>5
  <2>. QED
    BY <1>6, <2>1
<1>8. \A x : [updated EXCEPT ![r] = x] = [requests EXCEPT ![r] = x]
  BY <1>5 DEF IInv
<1>9. crashes' = crashes
  BY DEF Identify
<1>10. ASSUME NEW status, requests' = [updated EXCEPT ![r] = Respond(req, status)]
       PROVE  Advances(r)
  <2>1. Become(r, Respond(req, status))
    BY <1>8, <1>9, <1>10 DEF Become
  <2>. QED
    BY <1>2, <1>3, <2>1, RespondAdvances
<1>11. ASSUME requests' = [updated EXCEPT ![r] = CallUpstream(req, req.identity)]
       PROVE  Advances(r)
  <2>1. PICK x : x = CallUpstream(req, req.identity)
    OBVIOUS
  <2>2. Become(r, x)
    BY <1>8, <1>9, <1>11, <2>1 DEF Become
  <2>3. /\ x.step = "headers" /\ x.timer \in BOOLEAN /\ x.open = req.open
        /\ x.finished = req.finished
    BY <1>3, <2>1 DEF CallUpstream, RequestType
  <2>4. Ahead(x) < Ahead(requests[r])
    BY <1>2, <1>3, <2>3, FurtherIsLess
  <2>. QED
    BY <2>2, <2>4, BecomeAdvances
<1>. QED
  BY <1>7, <1>10, <1>11

LEMMA UpstreamAdvances ==
  ASSUME IInv, NEW r \in Requests,
         Headers(r) \/ Body(r) \/ UpstreamFails(r) \/ TimerFires(r)
  PROVE  Advances(r)
<1>1. PICK req : req = requests[r]
  OBVIOUS
<1>2. requests[r] # None => req \in RequestType
  BY <1>1 DEF IInv
<1>3. CASE Headers(r)
  <2>1. requests[r] # None /\ req.step = "headers"
    BY <1>1, <1>3 DEF Headers, At
  <2>. DEFINE reading == [requests[r] EXCEPT !.step = "body"]
  <2>2. \E status \in {200, 503} :
          Become(r, IF reading.route = "proxy"
                    THEN [reading EXCEPT !.timer = FALSE, !.statusCode = status]
                    ELSE [reading EXCEPT !.statusCode = 200])
    BY <1>3, Zenon DEF Headers
  <2>3. PICK b : b = reading
    OBVIOUS
  <2>4. /\ b \in RequestType /\ b.step = "body" /\ b.timer = req.timer
        /\ b.open = req.open /\ b.finished = req.finished
    BY <1>1, <1>2, <2>1, <2>3 DEF RequestType
  <2>5. PICK status \in {200, 503} :
          Become(r, IF b.route = "proxy"
                    THEN [b EXCEPT !.timer = FALSE, !.statusCode = status]
                    ELSE [b EXCEPT !.statusCode = 200])
    BY <2>2, <2>3
  <2>6. PICK y : y = [b EXCEPT !.timer = FALSE, !.statusCode = status]
    OBVIOUS
  <2>7. PICK z : z = [b EXCEPT !.statusCode = 200]
    OBVIOUS
  <2>8. PICK x \in {y, z} : Become(r, x)
    BY <2>5, <2>6, <2>7
  <2>9. /\ x.step = "body" /\ x.timer \in BOOLEAN /\ (x.timer => req.timer)
        /\ x.open = req.open /\ x.finished = req.finished
    <3>1. /\ y.step = "body" /\ y.timer = FALSE /\ y.open = req.open
          /\ y.finished = req.finished
      BY <2>4, <2>6 DEF RequestType
    <3>2. /\ z.step = "body" /\ z.timer = req.timer /\ z.open = req.open
          /\ z.finished = req.finished /\ z.timer \in BOOLEAN
      BY <2>4, <2>7 DEF RequestType
    <3>. QED
      BY <3>1, <3>2, <2>8
  <2>10. Ahead(x) < Ahead(req)
    BY <1>2, <2>1, <2>9, FurtherIsLess
  <2>. QED
    BY <1>1, <2>8, <2>10, BecomeAdvances
<1>4. CASE Body(r)
  <2>1. requests[r] # None /\ req.step = "body"
    BY <1>1, <1>4 DEF Body, At
  <2>2. PICK status : Become(r, Respond(req, status))
    BY <1>1, <1>4 DEF Body
  <2>. QED
    BY <1>1, <1>2, <2>1, <2>2, RespondAdvances
<1>5. CASE UpstreamFails(r)
  <2>1. requests[r] # None /\ req.step \in {"headers", "body"}
    BY <1>1, <1>5 DEF UpstreamFails, At
  <2>2. CASE Die
    BY <2>2 DEF Die, Advances, Nears
  <2>3. CASE \E status : Become(r, Respond(req, status))
    <3>1. PICK status : Become(r, Respond(req, status))
      BY <2>3
    <3>. QED
      BY <1>1, <1>2, <2>1, <3>1, RespondAdvances
  <2>. QED
    BY <1>1, <1>5, <2>2, <2>3 DEF UpstreamFails, RestToolFails
<1>6. CASE TimerFires(r)
  <2>1. PICK x : x = [req EXCEPT !.timer = FALSE]
    OBVIOUS
  <2>2. requests[r] # None /\ req.timer
    BY <1>1, <1>6 DEF TimerFires
  <2>3. /\ x \in RequestType /\ x.step = req.step /\ ~x.timer
        /\ x.open = req.open /\ x.finished = req.finished
    BY <1>2, <1>1, <2>1, <2>2 DEF RequestType
  <2>4. CASE Become(r, x)
    <3>1. Ahead(x) < Ahead(req)
      BY <1>1, <1>2, <2>2, <2>3, FurtherIsLess
    <3>. QED
      BY <1>1, <2>4, <3>1, BecomeAdvances
  <2>5. CASE x.step = "headers" /\ Become(r, Respond(x, 502))
    BY <1>1, <2>2, <2>3, <2>5, RespondAdvances
  <2>. QED
    BY <1>1, <1>6, <2>1, <2>4, <2>5 DEF TimerFires
<1>. QED
  BY <1>3, <1>4, <1>5, <1>6

LEMMA EmitLeaves ==
  ASSUME NEW r, NEW req \in RequestType, NEW identity,
         NEW x, x = Emit(r, req, identity)
  PROVE  /\ x.step = req.step /\ x.timer = req.timer
         /\ x.open = req.open /\ x.finished = req.finished
BY DEF Emit, RequestType

LEMMA EmitAdvances ==
  ASSUME IInv, NEW r \in Requests, Finish(r) \/ Close(r)
  PROVE  Advances(r)
<1>1. PICK req : req = requests[r]
  OBVIOUS
<1>2. req # None /\ req.open
  BY <1>1 DEF Finish, Close, At
<1>3. req \in RequestType
  BY <1>1, <1>2 DEF IInv
<1>4. CASE Finish(r)
  <2>1. PICK x : x = [req EXCEPT !.finished = TRUE]
    OBVIOUS
  <2>2. PICK y : y = Emit(r, x, Identity(r))
    OBVIOUS
  <2>3. ~req.finished /\ Become(r, y)
    BY <1>1, <1>4, <2>1, <2>2 DEF Finish
  <2>4. /\ x \in RequestType /\ x.step = req.step /\ x.timer = req.timer
        /\ x.open = req.open /\ x.finished
    BY <1>3, <2>1 DEF RequestType
  <2>5. /\ y.step = req.step /\ y.timer = req.timer
        /\ y.open = req.open /\ y.finished
    BY <2>2, <2>4, EmitLeaves
  <2>6. Ahead(y) < Ahead(req)
    BY <1>3, <2>3, <2>5, FurtherIsLess
  <2>. QED
    BY <1>1, <2>3, <2>6, BecomeAdvances
<1>5. CASE Close(r)
  <2>1. PICK x : x = [req EXCEPT !.open = FALSE]
    OBVIOUS
  <2>2. PICK y : y = Emit(r, x, Identity(r))
    OBVIOUS
  <2>3. Become(r, y)
    BY <1>1, <1>5, <2>1, <2>2 DEF Close
  <2>4. /\ x \in RequestType /\ x.step = req.step /\ x.timer = req.timer
        /\ ~x.open /\ x.finished = req.finished
    BY <1>3, <2>1 DEF RequestType
  <2>5. /\ y.step = req.step /\ y.timer = req.timer
        /\ ~y.open /\ y.finished = req.finished
    BY <2>2, <2>4, EmitLeaves
  <2>6. Ahead(y) < Ahead(req)
    BY <1>2, <1>3, <2>5, FurtherIsLess
  <2>. QED
    BY <1>1, <2>3, <2>6, BecomeAdvances
<1>. QED
  BY <1>4, <1>5

LEMMA StepAdvances ==
  ASSUME IInv, NEW r \in Requests, Step(r)
  PROVE  Advances(r)
<1>1. CASE Reject(r)
  <2>1. /\ requests[r] # None /\ requests[r].step = "verify"
        /\ Become(r, Respond(requests[r], 401))
    BY <1>1 DEF Reject, At
  <2>2. requests[r] \in RequestType
    BY <2>1 DEF IInv
  <2>. QED
    BY <2>1, <2>2, RespondAdvances
<1>2. CASE Leave(r)
  BY <1>2 DEF Leave, Become, IInv, Advances, Nears
<1>. QED
  BY <1>1, <1>2, IdentifyAdvances, UpstreamAdvances, EmitAdvances DEF Step

LEMMA NextAdvances ==
  ASSUME IInv, [Next]_vars, NEW r \in Requests, requests[r] # None
  PROVE  (requests'[r] = requests[r] /\ ~Step(r)) \/ Nears(r)
<1>1. CASE Step(r)
  BY <1>1, StepAdvances DEF Advances
<1>. SUFFICES ASSUME ~Step(r), requests'[r] # None
              PROVE  requests'[r] = requests[r]
  BY <1>1 DEF Nears
<1>2. ASSUME NEW q \in Requests, NEW route \in Routes,
             NEW token \in Users \cup {Forged, None}, Arrive(q, route, token)
      PROVE  requests'[r] = requests[r]
  BY <1>2 DEF Arrive, Become, IInv
<1>3. ASSUME NEW q \in Requests, Step(q)
      PROVE  requests'[r] = requests[r]
  BY <1>3, StepAdvances DEF Advances
<1>4. CASE UNCHANGED vars
  BY <1>4 DEF vars
<1>. QED
  BY <1>2, <1>3, <1>4 DEF Next

(* However requests interleave and upstream servers answer, fail or stay   *)
(* silent, a request takes at most nine steps until its slot is free: each *)
(* of its steps leaves less ahead, nobody else's adds to it, and no answer *)
(* or event sends it back (app.ts, explicablLoggingMiddleware,             *)
(* proxyabl/src/router.ts).                                                *)
THEOREM EachStepNearsTheEnd ==
  /\ Spec => [](\A r \in Requests : requests[r] # None => Ahead(requests[r]) \in 0..9)
  /\ Spec => [][\A r \in Requests : requests[r] # None =>
                  (requests'[r] = requests[r] /\ ~Step(r)) \/ Nears(r)]_vars
  /\ \A route, token : Ahead(Request(route, token)) = 8
<1>1. IInv /\ [Next]_vars =>
        [\A r \in Requests : requests[r] # None =>
           (requests'[r] = requests[r] /\ ~Step(r)) \/ Nears(r)]_vars
  BY NextAdvances
<1>2. Spec => [][\A r \in Requests : requests[r] # None =>
                   (requests'[r] = requests[r] /\ ~Step(r)) \/ Nears(r)]_vars
  BY <1>1, Invariance, PTL DEF Spec
<1>3. \A route, token : Ahead(Request(route, token)) = 8
  BY DEF Ahead, Awaits, One, Request
<1>4. IInv => \A r \in Requests : requests[r] # None => Ahead(requests[r]) \in 0..9
  <2>. SUFFICES ASSUME IInv, NEW r \in Requests, requests[r] # None
                PROVE  Ahead(requests[r]) \in 0..9
    OBVIOUS
  <2>1. PICK req \in RequestType : req = requests[r]
    BY DEF IInv
  <2>2. Awaits[req.step] \in 0..3
    BY DEF RequestType, Awaits
  <2>3. One(req.timer) \in 0..1 /\ One(req.open) \in 0..1 /\ One(~req.finished) \in 0..1
    BY DEF One
  <2>. QED
    BY <2>1, <2>2, <2>3 DEF Ahead
<1>5. Spec => [](\A r \in Requests : requests[r] # None => Ahead(requests[r]) \in 0..9)
  BY <1>4, Invariance, PTL
<1>. QED
  BY <1>2, <1>3, <1>5
==============================================================================
