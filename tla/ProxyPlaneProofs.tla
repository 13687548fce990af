--------------------------- MODULE ProxyPlaneProofs ---------------------------
(***************************************************************************)
(* What is proved of the parts of the proxy plane: the governed call, the  *)
(* tool gateway, discovery, and the older log webhooks, for any            *)
(* texts, policies, providers, requests, tools, apps and number of slots.  *)
(***************************************************************************)
EXTENDS ProxyPlane, FoldFacts
-----------------------------------------------------------------------------
(***************************************************************************)
(* A governed call is made only with what decision() allowed of the body   *)
(* that is forwarded, and to a private address only after a rebinding.     *)
(***************************************************************************)
(* What an allowed request satisfies: the body of ForwardedIsEntitled.     *)
Entitled(request, options) ==
  LET policy == options.policies
      schema == options.inputSchema
      first(i, j) ==
        LET p == Priority(policy.rules[i])
            q == Priority(policy.rules[j])
        IN  \/ p < q
            \/ p = q /\ i < j
      rules(effect) == {i \in Matching(policy, request) :
                          policy.rules[i].effect = effect}
  IN  /\ \/ options.requiredPermissions # {}
         \/ policy # Absent /\ policy.rules # <<>>
         \/ schema # Absent
      /\ options.requiredPermissions \subseteq Grants(request.claims)
      /\ policy # Absent =>
           /\ IsValid(policy)
           /\ \/ \E i \in rules("allow") : \A j \in rules("deny") : first(i, j)
              \/ /\ rules("allow") \cup rules("deny") = {}
                 /\ policy.defaultEffect = "allow"
      /\ schema # Absent => CheckSchema(request.input, schema)

Allowed(body) == Decision(RequestFor(body), job.options) = "allow"

Public(ip) == IsIp(ip) /\ ~IpIsPrivate(ip)

-----------------------------------------------------------------------------
(* The inductive invariant, in parts: the shape of the call,               *)
Fields ==
  call = [step |-> call.step, transformabl |-> call.transformabl,
          body |-> call.body, headers |-> call.headers,
          outcome |-> call.outcome]

(* what it is known to carry and to have been allowed,                     *)
Carries ==
  /\ Mounts(job.options)
  /\ job.options.policies # Absent => IsPolicySet(job.options.policies)
  /\ call.step = "validate" => call.body = BodyAfter(call.transformabl)
  /\ Called \/ call.step \in {"resolve", "lookup"} =>
       call.body = BodyAfter(call.transformabl) /\ Allowed(call.body)
  /\ connected # None => call.step \in {"body", "done"}

(* and where it may go.                                                    *)
Goes ==
  /\ job.addresses \subseteq Addresses
  /\ dns \in job.addresses
  /\ rebound \in BOOLEAN
  /\ call.step \in {"lookup", "fetch"} /\ ~ResolveProvider.isName =>
       Public(ResolveProvider.host)
  /\ call.step = "fetch" /\ ResolveProvider.isName /\ ~rebound =>
       \A ip \in dns : Public(ip)
  /\ connected # None /\ ~rebound => Public(connected)
  /\ connected # None => IsIp(connected)

(* A call that has come so far has its credential in its headers.          *)
Prepared == call.step \in {"lookup", "fetch", "body"} \/ connected # None

Sends ==
  /\ \E j \in Jobs : job.tokens = j.tokens
  /\ Prepared =>
       /\ ResolveProvider # None
       /\ ResolveAuth(ResolveProvider.auth) # None
       /\ call.headers = Headers(ResolveProvider, ResolveAuth(ResolveProvider.auth))

(* A call that is done has an outcome.                                     *)
Stands ==
  /\ call.step \in Steps
  /\ call.outcome # None => call.step = "done"

CallInv == Fields /\ Carries /\ Goes

-----------------------------------------------------------------------------
(* decision() allows what satisfies every check.                           *)
LEMMA AllowEntitles ==
  ASSUME NEW request, NEW options, Decision(request, options) = "allow",
         Mounts(options)
  PROVE  Entitled(request, options)
<1> DEFINE policy == options.policies
           schema == options.inputSchema
           rules(effect) == {i \in Matching(policy, request) :
                               policy.rules[i].effect = effect}
           first(i, j) == Ahead(policy.rules, i, j)
<1>1. CheckPermissions(request.claims, options.requiredPermissions)
  BY DEF Decision
<1>2. policy # Absent => IsValid(policy) /\ ApplyPolicies(policy, request)
  BY DEF Decision
<1>3. schema # Absent => CheckSchema(request.input, schema)
  BY DEF Decision
<1>4. ASSUME policy # Absent
      PROVE  \/ \E i \in rules("allow") : \A j \in rules("deny") : first(i, j)
             \/ /\ rules("allow") \cup rules("deny") = {}
                /\ policy.defaultEffect = "allow"
  <2>1. CASE Matching(policy, request) = {}
    <3>1. policy.defaultEffect = "allow"
      BY <1>2, <1>4, <2>1 DEF ApplyPolicies
    <3> QED BY <2>1, <3>1
  <2>2. CASE Matching(policy, request) # {}
    <3>1. PICK i \in Deciding(policy, request) : policy.rules[i].effect = "allow"
      BY <1>2, <1>4, <2>2 DEF ApplyPolicies
    <3>2. /\ i \in Matching(policy, request)
          /\ \A j \in Matching(policy, request) \ {i} : Ahead(policy.rules, i, j)
      BY <3>1 DEF Deciding
    <3>3. i \in rules("allow")
      BY <3>1, <3>2
    <3>4. ASSUME NEW j \in rules("deny") PROVE first(i, j)
      BY <3>1, <3>2, <3>4
    <3> QED BY <3>3, <3>4
  <2> QED BY <2>1, <2>2
<1> QED BY Zenon, <1>1, <1>2, <1>3, <1>4
        DEF Entitled, CheckPermissions, Mounts, Ahead

(* Bytes outside the ranges isPrivateIpv4() knows are outside the blocks.  *)
LEMMA BytesOutside ==
  ASSUME NEW a \in 0..255, NEW b \in 0..255,
         a \notin {0, 10, 127}, ~(a = 169 /\ b = 254),
         ~(a = 172 /\ b \in 16..31), ~(a = 192 /\ b = 168)
  PROVE  a * 256 + b \notin PrivateBlock
BY DEF PrivateBlock

LEMMA Ipv4Outside ==
  ASSUME NEW ip, ip[1] \in 0..255, ip[2] \in 0..255, ~IsPrivateIpv4(ip)
  PROVE  High(ip) \notin PrivateBlock
<1>1. PICK a \in 0..255 : a = ip[1]
  OBVIOUS
<1>2. PICK b \in 0..255 : b = ip[2]
  OBVIOUS
<1>3. /\ a \notin {0, 10, 127} /\ ~(a = 169 /\ b = 254)
      /\ ~(a = 172 /\ b \in 16..31) /\ ~(a = 192 /\ b = 168)
  BY Zenon, <1>1, <1>2 DEF IsPrivateIpv4
<1>4. a * 256 + b \notin PrivateBlock
  BY <1>3, BytesOutside
<1> QED BY Zenon, <1>1, <1>2, <1>4 DEF High

(* What is said of a public IPv6 address.                                  *)
Outside6(ip) ==
  /\ ip # <<0, 0, 0, 0, 0, 0, 0, 1>>
  /\ ip[1] \notin 64512..65023 \cup 65152..65215
  /\ IsMapped(ip) => High(Mapped(ip)) \notin PrivateBlock

IsIpv6(ip) ==
  ip \in Seq(Nat) /\ Len(ip) = 8 /\ \A i \in 1..8 : ip[i] < 65536

LEMMA MappedBytes ==
  ASSUME NEW ip, IsIpv6(ip)
  PROVE  Mapped(ip)[1] \in 0..255 /\ Mapped(ip)[2] \in 0..255
<1>1. PICK n : n = ip[7]
  OBVIOUS
<1>2. ip \in Seq(Nat) /\ Len(ip) = 8 /\ ip[7] < 65536
  BY SMT DEF IsIpv6
<1>3. n \in Nat /\ n < 65536
  <2>1. ip \in Seq(Nat) /\ 7 \in 1..Len(ip)
    BY SMT, <1>2
  <2>2. ip[7] \in Nat
    BY Zenon, <2>1, ElementOfSeq
  <2> QED BY SMT, <1>1, <1>2, <2>2
<1>4. n \div 256 \in 0..255 /\ n % 256 \in 0..255
  BY SMT, <1>3
<1>5. Mapped(ip)[1] = n \div 256 /\ Mapped(ip)[2] = n % 256
  BY SMT, <1>1 DEF Mapped
<1> QED BY SMT, <1>4, <1>5

LEMMA Ipv6Outside ==
  ASSUME NEW ip, IsIpv6(ip), ~IsPrivateIpv6(ip),
         IsMapped(ip) => ~IsPrivateIpv4(Mapped(ip))
  PROVE  Outside6(ip)
<1>1. ip # <<0, 0, 0, 0, 0, 0, 0, 1>>
  BY SMT DEF IsPrivateIpv6
<1>2. ip[1] \notin 64512..65023 \cup 65152..65215
  BY SMT DEF IsPrivateIpv6
<1>3. IsMapped(ip) => High(Mapped(ip)) \notin PrivateBlock
  BY Zenon, MappedBytes, Ipv4Outside
<1> QED BY SMT, <1>1, <1>2, <1>3 DEF Outside6

(* A public address is in none of the private blocks.                      *)
LEMMA PublicIsOutside ==
  ASSUME NEW ip, Public(ip)
  PROVE  \/ Len(ip) = 4 /\ High(ip) \notin PrivateBlock
         \/ Len(ip) = 8 /\ Outside6(ip)
<1>1. IsIp(ip) /\ ~IpIsPrivate(ip)
  BY Zenon DEF Public
<1>2. CASE Len(ip) = 4
  <2>1. ip \in Seq(Nat) /\ \A i \in 1..4 : ip[i] < 256
    BY SMT, <1>1, <1>2 DEF IsIp
  <2>2. ip[1] \in Nat /\ ip[2] \in Nat /\ ip[1] < 256 /\ ip[2] < 256
    <3>1. 1 \in 1..Len(ip) /\ 2 \in 1..Len(ip)
      BY SMT, <1>2
    <3>2. ip[1] \in Nat /\ ip[2] \in Nat
      BY SMT, <2>1, <3>1, ElementOfSeq
    <3> QED BY SMT, <2>1, <3>2
  <2>3. ip[1] \in 0..255 /\ ip[2] \in 0..255
    BY SMT, <2>2
  <2>4. ~IsPrivateIpv4(ip)
    BY SMT, <1>1, <1>2 DEF IpIsPrivate
  <2>5. High(ip) \notin PrivateBlock
    BY Zenon, <2>3, <2>4, Ipv4Outside
  <2> QED BY <1>2, <2>5
<1>3. CASE Len(ip) # 4
  <2>1. IsIpv6(ip) /\ Len(ip) = 8
    BY SMT, <1>1, <1>3 DEF IsIp, IsIpv6
  <2>2. /\ ~IsPrivateIpv6(ip)
        /\ IsMapped(ip) => ~IsPrivateIpv4(Mapped(ip))
    BY SMT, <1>1, <1>3 DEF IpIsPrivate
  <2> QED BY SMT, <2>1, <2>2, Ipv6Outside
<1> QED BY <1>2, <1>3

-----------------------------------------------------------------------------
(* A step that only moves a call on, or ends it, keeps its fields.         *)
LEMMA GotoIs ==
  ASSUME Fields, NEW step
  PROVE  Goto(step) = [step |-> step, transformabl |-> call.transformabl,
                       body |-> call.body, headers |-> call.headers,
                       outcome |-> call.outcome]
BY DEF Fields, Goto

LEMMA EndedIs ==
  ASSUME Fields, NEW outcome
  PROVE  Ended(outcome) = [step |-> "done", transformabl |-> call.transformabl,
                           body |-> call.body, headers |-> call.headers,
                           outcome |-> outcome]
<1>1. PICK c : c = [call EXCEPT !.step = "done"]
  OBVIOUS
<1>2. c = [step |-> "done", transformabl |-> call.transformabl,
           body |-> call.body, headers |-> call.headers,
           outcome |-> call.outcome]
  BY <1>1 DEF Fields
<1>3. [c EXCEPT !.outcome = outcome]
        = [step |-> "done", transformabl |-> c.transformabl, body |-> c.body,
           headers |-> c.headers, outcome |-> outcome]
  BY <1>2
<1>4. Ended(outcome) = [c EXCEPT !.outcome = outcome]
  BY <1>1 DEF Ended
<1> QED BY <1>2, <1>3, <1>4

LEMMA CallInitInv == GovernedInit => CallInv
<1> SUFFICES ASSUME GovernedInit PROVE CallInv
  OBVIOUS
<1>1. PICK j \in Jobs, text \in Texts : \E hits \in PossibleHits(text) :
        /\ Mounts(j.options)
        /\ job = Over([text |-> text, hits |-> hits], j)
  BY Zenon DEF GovernedInit
<1>2. job.options = j.options /\ job.addresses = j.addresses
  BY <1>1, GovernedAssumption DEF Over
<1>3. call = Received /\ dns \in job.addresses /\ rebound = FALSE /\ connected = None
  BY Zenon DEF GovernedInit
<1>4. call.step = "transform"
  BY <1>3 DEF Received
<1>5. Fields
  BY <1>3 DEF Fields, Received
<1>6. Carries
  BY <1>1, <1>2, <1>3, <1>4, GovernedAssumption DEF Carries, Called
<1>7. Goes
  BY <1>2, <1>3, <1>4, GovernedAssumption DEF Goes
<1> QED BY <1>5, <1>6, <1>7 DEF CallInv

(* A call that was not made may end anywhere.                              *)
LEMMA Unconnected ==
  ASSUME CallInv, Fields', call'.step = "done", connected = None,
         UNCHANGED <<job, dns, rebound, connected>>
  PROVE  CallInv'
<1>1. Carries'
  BY DEF CallInv, Carries, Called
<1>2. Goes'
  BY DEF CallInv, Goes
<1> QED BY <1>1, <1>2 DEF CallInv

(* The body after redaction depends on the job and the result only.        *)
LEMMA BodyStays ==
  ASSUME UNCHANGED job
  PROVE  /\ BodyAfter(call.transformabl)' = BodyAfter(call'.transformabl)
         /\ Allowed(call.body)' = Allowed(call'.body)
BY Zenon DEF BodyAfter, Original, RedactedBody, Touches, Allowed, RequestFor

-----------------------------------------------------------------------------
(* One step per action.                                                    *)
LEMMA TransformKeeps ==
  ASSUME CallInv, Transform
  PROVE  CallInv'
<1> USE DEF CallInv
<1>1. call.step = "transform" /\ UNCHANGED <<job, dns, rebound, connected>>
  BY DEF Transform, Waiting
<1>2. PICK result :
        call' = IF job.blockThreshold # None /\ result.riskScore >= job.blockThreshold
                THEN [Ended(403) EXCEPT !.transformabl = result]
                ELSE [call EXCEPT !.step = "validate", !.transformabl = result,
                                  !.body = BodyAfter(result)]
  BY Zenon DEF Transform
<1>3. connected = None
  BY <1>1 DEF Carries
<1>4. CASE call' = [Ended(403) EXCEPT !.transformabl = result]
  <2>1. call' = [step |-> "done", transformabl |-> result, body |-> call.body,
                 headers |-> call.headers, outcome |-> 403]
    BY <1>4, EndedIs
  <2>2. Fields' /\ call'.step = "done"
    BY <2>1 DEF Fields
  <2> QED BY <1>1, <1>3, <2>2, Unconnected
<1>5. CASE call' = [call EXCEPT !.step = "validate", !.transformabl = result,
                                !.body = BodyAfter(result)]
  <2>1. PICK body : body = BodyAfter(result)
    OBVIOUS
  <2>2. call' = [step |-> "validate", transformabl |-> result, body |-> body,
                 headers |-> call.headers, outcome |-> call.outcome]
    BY <1>5, <2>1 DEF Fields
  <2>3. Fields' /\ call'.step = "validate"
    BY <2>2 DEF Fields
  <2>4. call'.body = BodyAfter(call'.transformabl)
    BY <2>1, <2>2
  <2>5. BodyAfter(call.transformabl)' = BodyAfter(call'.transformabl)
    BY <1>1, BodyStays
  <2>6. Carries'
    BY <1>1, <1>3, <2>3, <2>4, <2>5 DEF Carries, Called
  <2>7. Goes'
    BY <1>1, <1>3, <2>3 DEF Goes
  <2> QED BY <2>3, <2>6, <2>7
<1> QED BY <1>2, <1>4, <1>5

LEMMA ValidateKeeps ==
  ASSUME CallInv, Validate
  PROVE  CallInv'
<1> USE DEF CallInv
<1>1. call.step = "validate" /\ UNCHANGED <<job, dns, rebound, connected>>
  BY DEF Validate, Waiting
<1>2. PICK decision : decision = Decision(PolicyRequest, job.options)
  OBVIOUS
<1>3. call' = CASE decision = "throw" -> Ended(500)
                [] decision = "deny"  -> Ended(403)
                [] decision = "allow" -> Goto("resolve")
  BY <1>2 DEF Validate
<1>4. decision \in {"throw", "deny", "allow"}
  BY <1>2 DEF Decision
<1>5. connected = None
  BY <1>1 DEF Carries
<1>6. CASE decision \in {"throw", "deny"}
  <2>1. PICK outcome : call' = Ended(outcome)
    BY <1>3, <1>6
  <2>2. Fields' /\ call'.step = "done"
    BY <2>1, EndedIs DEF Fields
  <2> QED BY <1>1, <1>5, <2>2, Unconnected
<1>7. CASE decision = "allow"
  <2>1. call' = Goto("resolve")
    BY <1>3, <1>7
  <2>2. /\ Fields' /\ call'.step = "resolve"
        /\ call'.transformabl = call.transformabl /\ call'.body = call.body
    BY <2>1, GotoIs DEF Fields
  <2>3. Allowed(call.body)
    BY <1>2, <1>7 DEF Allowed, PolicyRequest
  <2>4. call.body = BodyAfter(call.transformabl)
    BY <1>1 DEF Carries
  <2>5. Carries'
    BY <1>1, <1>5, <2>2, <2>3, <2>4, BodyStays DEF Carries, Called
  <2>6. Goes'
    BY <1>1, <1>5, <2>2 DEF Goes
  <2> QED BY <2>2, <2>5, <2>6
<1> QED BY <1>4, <1>6, <1>7

(* From then on a call carries what it was allowed.                        *)
LEMMA CarriedOn ==
  ASSUME CallInv, call.step \in {"resolve", "lookup", "fetch", "body"},
         call'.body = call.body, call'.transformabl = call.transformabl,
         call'.step # "validate", UNCHANGED job,
         connected' # None => call'.step \in {"body", "done"}
  PROVE  Carries'
<1>1. /\ call.body = BodyAfter(call.transformabl) /\ Allowed(call.body)
      /\ Mounts(job.options)
      /\ job.options.policies # Absent => IsPolicySet(job.options.policies)
  BY DEF CallInv, Carries, Called
<1> QED BY <1>1, BodyStays DEF Carries, Called

LEMMA ProviderStays ==
  ASSUME UNCHANGED job
  PROVE  ResolveProvider' = ResolveProvider
BY Zenon DEF ResolveProvider

LEMMA ResolveKeeps ==
  ASSUME CallInv, Resolve
  PROVE  CallInv'
<1> USE DEF CallInv
<1>1. call.step = "resolve" /\ UNCHANGED <<job, dns, rebound, connected>>
  BY DEF Resolve, Waiting
<1>2. connected = None
  BY <1>1 DEF Carries
<1>3. ASSUME NEW outcome, call' = Ended(outcome) PROVE CallInv'
  <2>1. Fields' /\ call'.step = "done"
    BY <1>3, EndedIs DEF Fields
  <2> QED BY <1>1, <1>2, <2>1, Unconnected
<1>4. ASSUME ResolveProvider # None, UrlAllowed(ResolveProvider),
             NEW step \in {"lookup", "fetch"},
             step = "fetch" => ~ResolveProvider.isName, NEW headers,
             call' = [call EXCEPT !.step = step, !.headers = headers]
      PROVE  CallInv'
  <2>1. call' = [step |-> step, transformabl |-> call.transformabl,
                 body |-> call.body, headers |-> headers,
                 outcome |-> call.outcome]
    BY <1>4 DEF Fields
  <2>2. /\ Fields' /\ call'.step = step
        /\ call'.transformabl = call.transformabl /\ call'.body = call.body
    BY <2>1 DEF Fields
  <2>3. Carries'
    BY <1>1, <1>2, <2>2, CarriedOn
  <2>4. ~ResolveProvider.isName => Public(ResolveProvider.host)
    <3>1. PICK key \in DOMAIN Providers : ResolveProvider = Providers[key]
      BY <1>4 DEF ResolveProvider
    <3>2. ~ResolveProvider.isName => IsIp(ResolveProvider.host)
      BY <3>1, GovernedAssumption
    <3> QED BY <1>4, <3>2 DEF UrlAllowed, Public
  <2>5. Goes'
    BY <1>1, <1>2, <1>4, <2>2, <2>4, ProviderStays DEF Goes
  <2> QED BY <2>2, <2>3, <2>5
<1> DEFINE to == IF ResolveProvider.isName THEN "lookup" ELSE "fetch"
           sent == Headers(ResolveProvider, ResolveAuth(ResolveProvider.auth))
<1>5. \/ \E outcome \in {"no-provider", "no-credential", "bad-path", "unsafe-url"} :
           call' = Ended(outcome)
      \/ /\ ResolveProvider # None /\ UrlAllowed(ResolveProvider)
         /\ call' = [call EXCEPT !.step = to, !.headers = sent]
  BY Zenon DEF Resolve
<1>6. to \in {"lookup", "fetch"} /\ (to = "fetch" => ~ResolveProvider.isName)
  OBVIOUS
<1> HIDE DEF to, sent
<1> QED BY <1>3, <1>4, <1>5, <1>6

LEMMA LookupKeeps ==
  ASSUME CallInv, Lookup
  PROVE  CallInv'
<1> USE DEF CallInv
<1>1. call.step = "lookup" /\ UNCHANGED <<job, dns, rebound, connected>>
  BY DEF Lookup, Waiting
<1>2. connected = None
  BY <1>1 DEF Carries
<1>3. \/ call' = Goto("fetch") /\ ResolvedSafe(dns)
      \/ \E outcome \in {"unsafe-url", "lookup-failed"} : call' = Ended(outcome)
  BY DEF Lookup
<1>4. CASE \E outcome \in {"unsafe-url", "lookup-failed"} : call' = Ended(outcome)
  <2>1. PICK outcome : call' = Ended(outcome)
    BY <1>4
  <2>2. Fields' /\ call'.step = "done"
    BY <2>1, EndedIs DEF Fields
  <2> QED BY <1>1, <1>2, <2>2, Unconnected
<1>5. CASE call' = Goto("fetch") /\ ResolvedSafe(dns)
  <2>1. /\ Fields' /\ call'.step = "fetch"
        /\ call'.transformabl = call.transformabl /\ call'.body = call.body
    BY <1>5, GotoIs DEF Fields
  <2>2. Carries'
    BY <1>1, <1>2, <2>1, CarriedOn
  <2>3. \A ip \in dns : IsIp(ip)
    BY GovernedAssumption DEF Goes
  <2>4. \A ip \in dns : Public(ip)
    BY <1>5, <2>3 DEF ResolvedSafe, Public
  <2>5. Goes'
    BY <1>1, <1>2, <2>1, <2>4, ProviderStays DEF Goes
  <2> QED BY <2>1, <2>2, <2>5
<1> QED BY <1>3, <1>4, <1>5

LEMMA HeadedKeeps ==
  ASSUME CallInv, Headed
  PROVE  CallInv'
<1> USE DEF CallInv
<1>1. call.step = "fetch" /\ UNCHANGED <<job, dns, rebound>>
  BY DEF Headed, Waiting
<1>2. /\ Fields' /\ call'.step \in {"body", "done"}
      /\ call'.transformabl = call.transformabl /\ call'.body = call.body
  BY EndedIs, GotoIs DEF Fields, Headed
<1>3. Carries'
  BY <1>1, <1>2, CarriedOn
<1>4. connected' \in IF ResolveProvider.isName THEN dns ELSE {ResolveProvider.host}
  BY DEF Headed
<1>5. IsIp(connected') /\ (~rebound => Public(connected'))
  <2>1. CASE ResolveProvider.isName
    BY <1>1, <1>4, <2>1, GovernedAssumption DEF Goes
  <2>2. CASE ~ResolveProvider.isName
    BY <1>1, <1>4, <2>2 DEF Goes, Public
  <2> QED BY <2>1, <2>2
<1>6. Goes'
  BY <1>1, <1>2, <1>5 DEF Goes
<1> QED BY <1>2, <1>3, <1>6

(* A call that may have been made ends.                                    *)
LEMMA EndKeeps ==
  ASSUME CallInv, NEW outcome, call' = Ended(outcome),
         call.step \in {"fetch", "body"},
         UNCHANGED <<job, dns, rebound, connected>>
  PROVE  CallInv'
<1>1. /\ Fields' /\ call'.step = "done"
      /\ call'.transformabl = call.transformabl /\ call'.body = call.body
  BY EndedIs DEF CallInv, Fields
<1>2. Carries'
  BY <1>1, CarriedOn
<1>3. Goes'
  BY <1>1 DEF CallInv, Goes
<1> QED BY <1>1, <1>2, <1>3 DEF CallInv

LEMMA RebindKeeps ==
  ASSUME CallInv, Rebind
  PROVE  CallInv'
<1>1. /\ call.step = "fetch" /\ rebound' = TRUE
      /\ dns' \in job.addresses /\ UNCHANGED <<job, call, connected>>
  BY DEF Rebind, Waiting
<1>2. Fields' /\ call'.step = call.step
  BY <1>1 DEF CallInv, Fields
<1>3. Carries'
  BY <1>1, CarriedOn DEF CallInv, Carries
<1>4. Goes'
  BY <1>1, ProviderStays DEF CallInv, Goes
<1> QED BY <1>2, <1>3, <1>4 DEF CallInv

LEMMA CallNextInv == CallInv /\ [GovernedNext]_governedVars => CallInv'
<1> SUFFICES ASSUME CallInv, [GovernedNext]_governedVars PROVE CallInv'
  OBVIOUS
<1>1. CASE Unreachable \/ TimeOut
  <2>1. PICK outcome : call' = Ended(outcome)
    BY <1>1 DEF Unreachable, TimeOut
  <2> QED BY <1>1, <2>1, EndKeeps DEF Unreachable, TimeOut, TimerIsSet, Waiting
<1>2. CASE Bodied
  <2>1. PICK outcome : call' = Ended(outcome)
    BY <1>2 DEF Bodied
  <2> QED BY <1>2, <2>1, EndKeeps DEF Bodied, Waiting
<1>3. CASE UNCHANGED governedVars
  <2>1. UNCHANGED <<job, call, dns, rebound, connected>>
    BY <1>3 DEF governedVars
  <2> QED BY <2>1, BodyStays, ProviderStays
          DEF CallInv, Fields, Carries, Goes, Called
<1> QED BY <1>1, <1>2, <1>3, TransformKeeps, ValidateKeeps, ResolveKeeps,
           LookupKeeps, HeadedKeeps, RebindKeeps DEF GovernedNext

LEMMA CallInvHolds == GovernedSpec => []CallInv
<1>1. GovernedInit => CallInv
  BY CallInitInv
<1>2. CallInv /\ [GovernedNext]_governedVars => CallInv'
  BY CallNextInv
<1> QED BY <1>1, <1>2, PTL DEF GovernedSpec

-----------------------------------------------------------------------------
(* A call is made only if its forwarded body satisfies every configured    *)
(* check: the permissions, a policy that allows it ahead of every rule     *)
(* that denies it, and the schema (transformabl() before validatabl(),     *)
(* decision(), applyPolicies()).                                           *)
THEOREM Entitlement == GovernedSpec => []ForwardedIsEntitled
<1>1. CallInv => ForwardedIsEntitled
  <2>1. ASSUME CallInv, Called
        PROVE  /\ call.body = BodyAfter(call.transformabl)
               /\ Entitled(RequestFor(call.body), job.options)
    BY <2>1, AllowEntitles DEF CallInv, Carries, Allowed
  <2>2. RequestFor(call.body).claims = job.claims
    BY DEF RequestFor
  <2> QED BY Zenon, <2>1, <2>2 DEF ForwardedIsEntitled, Entitled
<1> QED BY <1>1, CallInvHolds, PTL

(* No private address is called, whatever the provider's name resolves to, *)
(* as long as it still resolves to what was checked (assertUrlSafe(), with *)
(* isPrivateIpv4() and isPrivateIpv6() as they are).                       *)
THEOREM PublicCalls == GovernedSpec => []PrivateOnlyIfRebound
<1>1. CallInv => PrivateOnlyIfRebound
  <2>1. ASSUME CallInv, connected # None, ~rebound
        PROVE  \/ Len(connected) = 4 /\ High(connected) \notin PrivateBlock
               \/ Len(connected) = 8 /\ Outside6(connected)
    BY <2>1, PublicIsOutside DEF CallInv, Goes
  <2> QED BY SMT, <2>1 DEF PrivateOnlyIfRebound, Outside6
<1> QED BY <1>1, CallInvHolds, PTL

-----------------------------------------------------------------------------
(* In a reordering a rule is ahead of another one where it was, and no two *)
(* places have one rule.                                                   *)
LEMMA ReorderingKeeps ==
  ASSUME NEW policy, IsPolicySet(policy),
         NEW p \in [DOMAIN policy.rules -> DOMAIN policy.rules],
         KeepsTies(policy, p),
         NEW i \in DOMAIN policy.rules, NEW j \in DOMAIN policy.rules, i # j
  PROVE  /\ p[i] # p[j]
         /\ Ahead(Reordered(policy, p).rules, i, j)
              <=> Ahead(policy.rules, p[i], p[j])
<1> DEFINE rank(k) == Priority(policy.rules[k])
           rules == Reordered(policy, p).rules
<1>1. rules = [k \in DOMAIN policy.rules |-> policy.rules[p[k]]]
  BY DEF IsPolicySet, Reordered
<1>2. rules[i] = policy.rules[p[i]] /\ rules[j] = policy.rules[p[j]]
  BY <1>1
<1>3. i \in Nat /\ j \in Nat /\ p[i] \in Nat /\ p[j] \in Nat
  BY DEF IsPolicySet
<1>4. \A k \in DOMAIN policy.rules : rank(k) \in Int
  BY DEF IsPolicySet, Priority
<1>5. /\ i < j /\ rank(p[i]) = rank(p[j]) => p[i] < p[j]
      /\ j < i /\ rank(p[j]) = rank(p[i]) => p[j] < p[i]
  BY DEF KeepsTies
<1>6. rank(p[i]) \in Int /\ rank(p[j]) \in Int
  BY <1>4
<1>7. /\ Ahead(rules, i, j) <=> \/ rank(p[i]) < rank(p[j])
                                \/ rank(p[i]) = rank(p[j]) /\ i < j
      /\ Ahead(policy.rules, p[i], p[j]) <=>
           \/ rank(p[i]) < rank(p[j])
           \/ rank(p[i]) = rank(p[j]) /\ p[i] < p[j]
  BY <1>2 DEF Ahead
<1> HIDE DEF rank, rules
<1>8. p[i] # p[j]
  BY <1>3, <1>5
<1>9. Ahead(rules, i, j) <=> Ahead(policy.rules, p[i], p[j])
  BY <1>3, <1>5, <1>6, <1>7, <1>8
<1> QED BY <1>8, <1>9 DEF rules

(* What a reordering does to the rules, one by one.                        *)
LEMMA ReorderedMatches ==
  ASSUME NEW policy, IsPolicySet(policy), NEW request,
         NEW p \in [DOMAIN policy.rules -> DOMAIN policy.rules]
  PROVE  /\ Reordered(policy, p).defaultEffect = policy.defaultEffect
         /\ \A i \in DOMAIN policy.rules :
              Reordered(policy, p).rules[i] = policy.rules[p[i]]
         /\ Matching(Reordered(policy, p), request)
              = {i \in DOMAIN policy.rules : p[i] \in Matching(policy, request)}
<1>1. Reordered(policy, p).rules
        = [k \in DOMAIN policy.rules |-> policy.rules[p[k]]]
  BY DEF IsPolicySet, Reordered
<1>2. Reordered(policy, p).defaultEffect = policy.defaultEffect
  BY DEF IsPolicySet, Reordered
<1> QED BY Zenon, <1>1, <1>2 DEF Matching

(* So a reordering that keeps ties changes no decision.                    *)
LEMMA ReorderingDecides ==
  ASSUME NEW policy, IsPolicySet(policy), NEW request,
         NEW p \in Bijection(DOMAIN policy.rules, DOMAIN policy.rules),
         KeepsTies(policy, p)
  PROVE  ApplyPolicies(Reordered(policy, p), request)
           <=> ApplyPolicies(policy, request)
<1> DEFINE D == DOMAIN policy.rules
           other == Reordered(policy, p)
           matching == Matching(policy, request)
<1>1. p \in [D -> D] /\ \A k \in D : \E i \in D : p[i] = k
  BY Zenon DEF Bijection, Injection, Surjection
<1>2. /\ other.defaultEffect = policy.defaultEffect
      /\ \A i \in D : other.rules[i] = policy.rules[p[i]]
      /\ Matching(other, request) = {i \in D : p[i] \in matching}
  BY <1>1, ReorderedMatches
<1>3. matching \subseteq D
  BY DEF Matching
<1>4. \A i, j \in D : i # j => p[i] # p[j]
  BY <1>1, ReorderingKeeps
<1>5. \A i, j \in D : i # j => (Ahead(other.rules, i, j)
                                  <=> Ahead(policy.rules, p[i], p[j]))
  BY <1>1, ReorderingKeeps
<1> HIDE DEF other, matching
<1>6. ASSUME NEW i \in D
      PROVE  i \in Deciding(other, request) <=> p[i] \in Deciding(policy, request)
  <2>1. ASSUME i \in Deciding(other, request), NEW k \in matching \ {p[i]}
        PROVE  Ahead(policy.rules, p[i], k)
    <3>1. PICK j \in D : p[j] = k
      BY <1>1, <1>3, <2>1
    <3>2. j \in Matching(other, request) \ {i}
      BY <1>2, <2>1, <3>1
    <3> QED BY <1>5, <2>1, <3>1, <3>2 DEF Deciding
  <2>2. ASSUME p[i] \in Deciding(policy, request),
               NEW j \in Matching(other, request) \ {i}
        PROVE  Ahead(other.rules, i, j)
    <3>1. j \in D /\ p[j] \in matching /\ p[j] # p[i]
      BY <1>2, <1>4, <2>2
    <3> QED BY <1>5, <2>2, <3>1 DEF Deciding, matching
  <2>3. i \in Matching(other, request) <=> p[i] \in matching
    BY <1>2
  <2>4. i \in Deciding(other, request) => p[i] \in Deciding(policy, request)
    BY Zenon, <2>1, <2>3 DEF Deciding, matching
  <2>5. p[i] \in Deciding(policy, request) => i \in Deciding(other, request)
    BY Zenon, <2>2, <2>3 DEF Deciding, matching
  <2> QED BY <2>4, <2>5
<1>7. Matching(other, request) = {} <=> matching = {}
  BY <1>1, <1>2, <1>3
<1>8. /\ Deciding(policy, request) \subseteq D
      /\ Deciding(other, request) \subseteq D
  BY <1>2, <1>3 DEF Deciding, matching
<1>9. (\E i \in Deciding(other, request) : other.rules[i].effect = "allow")
        <=> (\E k \in Deciding(policy, request) : policy.rules[k].effect = "allow")
  BY <1>1, <1>2, <1>6, <1>8
<1> QED BY <1>2, <1>7, <1>9 DEF ApplyPolicies, other, matching

(* Only priorities decide: however the rules are ordered, and whatever the *)
(* request, as long as rules of one priority stay as they are, the policy  *)
(* decides the same (applyPolicies()).                                     *)
THEOREM OrderIsIrrelevant == GovernedSpec => []PriorityDecides
<1>1. CallInv => PriorityDecides
  <2> SUFFICES ASSUME CallInv, job.options.policies # Absent,
                      NEW p \in Bijection(DOMAIN job.options.policies.rules,
                                          DOMAIN job.options.policies.rules),
                      KeepsTies(job.options.policies, p)
               PROVE  ApplyPolicies(Reordered(job.options.policies, p), PolicyRequest)
                        = ApplyPolicies(job.options.policies, PolicyRequest)
    BY Zenon DEF PriorityDecides
  <2>1. IsPolicySet(job.options.policies)
    BY DEF CallInv, Carries
  <2>2. ApplyPolicies(Reordered(job.options.policies, p), PolicyRequest)
          <=> ApplyPolicies(job.options.policies, PolicyRequest)
    BY <2>1, ReorderingDecides
  <2>3. /\ ApplyPolicies(Reordered(job.options.policies, p), PolicyRequest) \in BOOLEAN
        /\ ApplyPolicies(job.options.policies, PolicyRequest) \in BOOLEAN
    BY Zenon DEF ApplyPolicies
  <2> QED BY <2>2, <2>3
<1> QED BY <1>1, CallInvHolds, PTL

-----------------------------------------------------------------------------
(* The policies of a request with one more rule at the end.                *)
Added(policy, rule) == [policy EXCEPT !.rules = Append(@, rule)]

With(options, rule) == [options EXCEPT !.policies = Added(@, rule)]

(* What adding a rule does to them.                                        *)
AddsRule(policy, rule, request) ==
  LET n == Len(policy.rules) + 1
      more == Added(policy, rule)
  IN  /\ more.defaultEffect = policy.defaultEffect
      /\ n \notin DOMAIN policy.rules
      /\ more.rules[n] = rule
      /\ DOMAIN more.rules = DOMAIN policy.rules \cup {n}
      /\ \A i \in DOMAIN policy.rules : more.rules[i] = policy.rules[i]
      /\ Matching(policy, request) \subseteq DOMAIN policy.rules
      /\ Matching(more, request)
           = Matching(policy, request)
               \cup (IF MatchesAllConditions(rule, request) THEN {n} ELSE {})
      /\ \A i, j \in DOMAIN policy.rules :
           Ahead(more.rules, i, j) <=> Ahead(policy.rules, i, j)

(* The added rule is the last of its priority, and the others stay as they *)
(* are.                                                                    *)
LEMMA AddingKeeps ==
  ASSUME NEW S, NEW policy, IsPolicySet(policy), policy.rules \in Seq(S),
         NEW request, NEW rule \in S, rule.priority \in Int \cup {Absent}
  PROVE  AddsRule(policy, rule, request)
<1> DEFINE n == Len(policy.rules) + 1
           more == Added(policy, rule)
<1>1. more.rules = Append(policy.rules, rule) /\ more.defaultEffect = policy.defaultEffect
  BY DEF Added, IsPolicySet
<1>2. /\ n \notin DOMAIN policy.rules
      /\ DOMAIN more.rules = DOMAIN policy.rules \cup {n}
      /\ more.rules[n] = rule
      /\ \A i \in DOMAIN policy.rules : more.rules[i] = policy.rules[i]
  BY <1>1
<1> HIDE DEF n, more
<1>3. \A i, j \in DOMAIN policy.rules :
        Ahead(more.rules, i, j) <=> Ahead(policy.rules, i, j)
  BY Zenon, <1>2 DEF Ahead
<1>4. \A i : i \in Matching(more, request)
               <=> \/ i \in Matching(policy, request)
                   \/ i = n /\ MatchesAllConditions(rule, request)
  BY Zenon, <1>2 DEF Matching
<1>5. Matching(more, request)
        = Matching(policy, request)
            \cup (IF MatchesAllConditions(rule, request) THEN {n} ELSE {})
  BY Zenon, <1>4
<1>6. Matching(policy, request) \subseteq DOMAIN policy.rules
  BY DEF Matching
<1> QED BY Zenon, <1>1, <1>2, <1>3, <1>5, <1>6 DEF AddsRule, n, more

(* A rule that does not allow takes nothing in.                            *)
LEMMA DenyingNarrows ==
  ASSUME NEW S, NEW policy, IsPolicySet(policy), policy.rules \in Seq(S),
         NEW request, NEW rule \in S, rule.priority \in Int \cup {Absent},
         rule.effect # "allow",
         ApplyPolicies(Added(policy, rule), request)
  PROVE  ApplyPolicies(policy, request)
<1> DEFINE n == Len(policy.rules) + 1
           more == Added(policy, rule)
           old == Matching(policy, request)
           new == Matching(more, request)
<1>1. /\ more.defaultEffect = policy.defaultEffect
      /\ n \notin DOMAIN policy.rules
      /\ more.rules[n] = rule
      /\ \A i \in DOMAIN policy.rules : more.rules[i] = policy.rules[i]
      /\ old \subseteq DOMAIN policy.rules
      /\ new = old \cup (IF MatchesAllConditions(rule, request) THEN {n} ELSE {})
      /\ \A i, j \in DOMAIN policy.rules :
           Ahead(more.rules, i, j) <=> Ahead(policy.rules, i, j)
  <2>1. AddsRule(policy, rule, request)
    BY AddingKeeps
  <2> QED BY <2>1 DEF AddsRule
<1> HIDE DEF n, more, old, new
<1>2. CASE new = {}
  BY <1>1, <1>2 DEF ApplyPolicies, more, old, new
<1>3. CASE new # {}
  <2>1. PICK i \in Deciding(more, request) : more.rules[i].effect = "allow"
    BY <1>3 DEF ApplyPolicies, more, new
  <2>2. i \in new /\ \A j \in new \ {i} : Ahead(more.rules, i, j)
    BY <2>1 DEF Deciding, new
  <2>3. i \in old
    BY <1>1, <2>1, <2>2
  <2>4. i \in Deciding(policy, request)
    BY <1>1, <2>2, <2>3 DEF Deciding, old
  <2>5. policy.rules[i].effect = "allow"
    BY <1>1, <2>1, <2>3
  <2> QED BY <2>3, <2>4, <2>5 DEF ApplyPolicies, old
<1> QED BY <1>2, <1>3

(* A rule that allows takes nothing out.                                   *)
LEMMA AllowingWidens ==
  ASSUME NEW S, NEW policy, IsPolicySet(policy), policy.rules \in Seq(S),
         NEW request, NEW rule \in S, rule.priority \in Int \cup {Absent},
         rule.effect = "allow",
         ApplyPolicies(policy, request)
  PROVE  ApplyPolicies(Added(policy, rule), request)
<1> DEFINE n == Len(policy.rules) + 1
           more == Added(policy, rule)
           old == Matching(policy, request)
           new == Matching(more, request)
<1>1. /\ more.defaultEffect = policy.defaultEffect
      /\ n \notin DOMAIN policy.rules
      /\ more.rules[n] = rule
      /\ \A i \in DOMAIN policy.rules : more.rules[i] = policy.rules[i]
      /\ old \subseteq DOMAIN policy.rules
      /\ new = old \cup (IF MatchesAllConditions(rule, request) THEN {n} ELSE {})
      /\ \A i, j \in DOMAIN policy.rules :
           Ahead(more.rules, i, j) <=> Ahead(policy.rules, i, j)
  <2>1. AddsRule(policy, rule, request)
    BY AddingKeeps
  <2> QED BY <2>1 DEF AddsRule
<1>2. /\ n \in Nat /\ \A i \in DOMAIN policy.rules : i \in Nat /\ i < n
      /\ Priority(rule) \in Int
      /\ \A i \in DOMAIN policy.rules : Priority(policy.rules[i]) \in Int
  BY DEF IsPolicySet, Priority
<1> HIDE DEF n, more, old, new
<1>3. CASE new = {}
  BY <1>1, <1>3 DEF ApplyPolicies, more, old, new
<1>4. CASE new # {} /\ old = {}
  <2>1. new = {n}
    BY <1>1, <1>4
  <2>2. n \in Deciding(more, request)
    BY <2>1 DEF Deciding, new
  <2> QED BY <1>1, <1>4, <2>2 DEF ApplyPolicies, more, new
<1>5. CASE old # {}
  <2>1. PICK i \in Deciding(policy, request) : policy.rules[i].effect = "allow"
    BY <1>5 DEF ApplyPolicies, old
  <2>2. i \in old /\ \A j \in old \ {i} : Ahead(policy.rules, i, j)
    BY <2>1 DEF Deciding, old
  <2>3. i \in DOMAIN policy.rules /\ i \in new /\ more.rules[i].effect = "allow"
    BY <1>1, <2>1, <2>2
  <2>4. CASE n \in new /\ Priority(rule) < Priority(policy.rules[i])
    <3>1. ASSUME NEW j \in new \ {n} PROVE Ahead(more.rules, n, j)
      <4>1. j \in old /\ j \in DOMAIN policy.rules
        BY <1>1, <3>1
      <4>2. Priority(policy.rules[i]) <= Priority(policy.rules[j])
        BY <1>2, <2>2, <2>3, <4>1 DEF Ahead
      <4>3. Priority(rule) < Priority(policy.rules[j])
        BY <1>2, <2>3, <2>4, <4>1, <4>2
      <4> QED BY Zenon, <1>1, <4>1, <4>3 DEF Ahead
    <3>2. n \in Deciding(more, request)
      BY Zenon, <2>4, <3>1 DEF Deciding, new
    <3> QED BY Zenon, <1>1, <2>4, <3>2 DEF ApplyPolicies, more, new
  <2>5. CASE n \notin new \/ ~(Priority(rule) < Priority(policy.rules[i]))
    <3>1. ASSUME NEW j \in new \ {i} PROVE Ahead(more.rules, i, j)
      <4>1. CASE j \in old
        BY <1>1, <2>2, <2>3, <4>1, <3>1
      <4>2. CASE j = n
        <5>1. Priority(policy.rules[i]) <= Priority(rule)
          BY <1>2, <2>3, <2>5, <3>1, <4>2
        <5>2. more.rules[i] = policy.rules[i] /\ more.rules[n] = rule
          BY <1>1, <2>3
        <5>3. i < n
          BY <1>2, <2>3
        <5>4. \/ Priority(policy.rules[i]) < Priority(rule)
              \/ Priority(policy.rules[i]) = Priority(rule)
          BY <1>2, <2>3, <5>1
        <5> QED BY Zenon, <4>2, <5>2, <5>3, <5>4 DEF Ahead
      <4> QED BY <1>1, <4>1, <4>2, <3>1
    <3>2. i \in Deciding(more, request)
      BY Zenon, <2>3, <3>1 DEF Deciding, new
    <3> QED BY Zenon, <2>3, <3>2 DEF ApplyPolicies, more, new
  <2> QED BY <2>4, <2>5, <1>1
<1> QED BY <1>3, <1>4, <1>5

(* A rule written at the end of a policy set changes the decision only its *)
(* own way: one that denies never makes decision() allow what it did not,  *)
(* and one that allows, with a condition, never makes it refuse what it    *)
(* allowed, whatever their priorities, the permissions and the schema.     *)
THEOREM RulesActOneWay ==
  ASSUME NEW S, NEW options, NEW request, NEW rule \in S,
         rule.priority \in Int \cup {Absent},
         options.policies # Absent, IsPolicySet(options.policies),
         options.policies.rules \in Seq(S),
         {"policies", "requiredPermissions", "inputSchema"} \subseteq DOMAIN options,
         With(options, rule).policies # Absent
  PROVE  /\ /\ rule.effect # "allow"
            /\ Decision(request, With(options, rule)) = "allow"
            => Decision(request, options) = "allow"
         /\ /\ rule.effect = "allow" /\ rule.conditions # {}
            /\ Decision(request, options) = "allow"
            => Decision(request, With(options, rule)) = "allow"
<1> DEFINE policy == options.policies
           more == Added(policy, rule)
           n == Len(policy.rules) + 1
<1>1. /\ With(options, rule).policies = more
      /\ With(options, rule).requiredPermissions = options.requiredPermissions
      /\ With(options, rule).inputSchema = options.inputSchema
      /\ more # Absent
  BY DEF With
<1>2. /\ more.rules[n] = rule
      /\ DOMAIN more.rules = DOMAIN policy.rules \cup {n}
      /\ \A i \in DOMAIN policy.rules : more.rules[i] = policy.rules[i]
  <2>1. AddsRule(policy, rule, request)
    BY AddingKeeps
  <2> QED BY <2>1 DEF AddsRule
<1>3. IsValid(more) <=> IsValid(policy) /\ rule.conditions # {}
  BY Zenon, <1>2 DEF IsValid
<1>4. rule.effect # "allow" /\ ApplyPolicies(more, request)
        => ApplyPolicies(policy, request)
  BY DenyingNarrows
<1>5. rule.effect = "allow" /\ ApplyPolicies(policy, request)
        => ApplyPolicies(more, request)
  BY AllowingWidens
<1> HIDE DEF policy, more, n
<1> QED BY Zenon, <1>1, <1>3, <1>4, <1>5 DEF Decision, policy

-----------------------------------------------------------------------------
(* Where a call goes.  Its URL has passed assertUrlSafe() by the time its  *)
(* headers are made, and the configuration it passed by does not change.   *)
MayGo ==
  /\ ResolveProvider # None
  /\ ResolveProvider.host \in ResolveProvider.allowedHosts
  /\ \/ ResolveProvider.protocol = "https:"
     \/ ResolveProvider.protocol = "http:" /\ ResolveProvider.allowHttp

GoesWhereAllowed == Prepared => MayGo

LEMMA WhereInit == GovernedInit => GoesWhereAllowed
<1> SUFFICES ASSUME GovernedInit PROVE ~Prepared
  BY Zenon DEF GoesWhereAllowed
<1>1. call = Received /\ connected = None
  BY Zenon DEF GovernedInit
<1> QED BY <1>1 DEF Received, Prepared

LEMMA WhereStays ==
  ASSUME GoesWhereAllowed, UNCHANGED job, Prepared' => Prepared
  PROVE  GoesWhereAllowed'
BY ProviderStays DEF GoesWhereAllowed, MayGo

LEMMA WhereNext ==
  CallInv /\ GoesWhereAllowed /\ [GovernedNext]_governedVars => GoesWhereAllowed'
<1> SUFFICES ASSUME CallInv, GoesWhereAllowed, [GovernedNext]_governedVars
             PROVE  GoesWhereAllowed'
  OBVIOUS
<1>1. Fields
  BY DEF CallInv
<1>2. CASE Transform
  <2>1. call.step = "transform" /\ UNCHANGED <<job, connected>>
    BY <1>2 DEF Transform, Waiting
  <2>2. connected = None
    BY <2>1 DEF CallInv, Carries
  <2>3. call'.step \in {"done", "validate"}
    <3>1. PICK result :
            call' = IF job.blockThreshold # None /\ result.riskScore >= job.blockThreshold
                    THEN [Ended(403) EXCEPT !.transformabl = result]
                    ELSE [call EXCEPT !.step = "validate", !.transformabl = result,
                                      !.body = BodyAfter(result)]
      BY Zenon, <1>2 DEF Transform
    <3>2. ([Ended(403) EXCEPT !.transformabl = result]).step = "done"
      BY <1>1, EndedIs
    <3>3. ([call EXCEPT !.step = "validate", !.transformabl = result,
                        !.body = BodyAfter(result)]).step = "validate"
      BY <1>1 DEF Fields
    <3> QED BY <3>1, <3>2, <3>3
  <2> QED BY <2>1, <2>2, <2>3, WhereStays DEF Prepared
<1>3. CASE Validate
  <2>1. call.step = "validate" /\ UNCHANGED <<job, connected>>
    BY <1>3 DEF Validate, Waiting
  <2>2. connected = None
    BY <2>1 DEF CallInv, Carries
  <2>3. call' = Goto("resolve") \/ \E outcome \in {403, 500} : call' = Ended(outcome)
    <3>1. Decision(PolicyRequest, job.options) \in {"throw", "deny", "allow"}
      BY DEF Decision
    <3> QED BY <1>3, <3>1 DEF Validate
  <2>4. call'.step \in {"resolve", "done"}
    BY <1>1, <2>3, EndedIs, GotoIs
  <2> QED BY <2>1, <2>2, <2>4, WhereStays DEF Prepared
<1>4. CASE Resolve
  <2>1. call.step = "resolve" /\ UNCHANGED <<job, connected>>
    BY <1>4 DEF Resolve, Waiting
  <2>2. connected = None
    BY <2>1 DEF CallInv, Carries
  <2>3. \/ \E outcome : call' = Ended(outcome)
        \/ ResolveProvider # None /\ UrlAllowed(ResolveProvider)
    BY Zenon, <1>4 DEF Resolve
  <2>4. CASE \E outcome : call' = Ended(outcome)
    <3>1. call'.step = "done"
      BY <1>1, <2>4, EndedIs
    <3> QED BY <2>1, <2>2, <3>1, WhereStays DEF Prepared
  <2>5. CASE ResolveProvider # None /\ UrlAllowed(ResolveProvider)
    <3>1. ResolveProvider' = ResolveProvider
      BY <2>1, ProviderStays
    <3> QED BY <2>5, <3>1 DEF GoesWhereAllowed, MayGo, UrlAllowed
  <2> QED BY <2>3, <2>4, <2>5
<1>5. CASE Lookup \/ Headed \/ Unreachable \/ TimeOut \/ Bodied
  <2>1. call.step \in {"lookup", "fetch", "body"} /\ UNCHANGED job
    BY <1>5 DEF Lookup, Headed, Unreachable, TimeOut, TimerIsSet, Bodied, Waiting
  <2> QED BY <2>1, WhereStays DEF Prepared
<1>6. CASE Rebind \/ UNCHANGED governedVars
  <2>1. UNCHANGED <<job, call, connected>>
    BY <1>6 DEF Rebind, governedVars
  <2> QED BY <2>1, WhereStays DEF Prepared
<1> QED BY <1>2, <1>3, <1>4, <1>5, <1>6 DEF GovernedNext

(* A governed call goes to no host but one that its provider's             *)
(* configuration lists, and over plain http only if it says so             *)
(* (assertUrlSafe(), allowHttp), whatever the tokens, the policies and the *)
(* name server do while it waits.                                          *)
THEOREM CallsGoWhereAllowed == GovernedSpec => [](connected # None => MayGo)
<1>1. GoesWhereAllowed => (connected # None => MayGo)
  BY Zenon DEF GoesWhereAllowed, Prepared
<1> QED BY <1>1, WhereInit, WhereNext, CallInvHolds, PTL DEF GovernedSpec

-----------------------------------------------------------------------------
(* The headers of a call, once they are made, go with it to its end.       *)
LEMMA SendsInit == GovernedInit => Sends /\ Stands
<1> SUFFICES ASSUME GovernedInit PROVE Sends /\ Stands
  OBVIOUS
<1>1. PICK j \in Jobs, text \in Texts : \E hits \in PossibleHits(text) :
        job = Over([text |-> text, hits |-> hits], j)
  BY Zenon DEF GovernedInit
<1>2. job.tokens = j.tokens
  BY <1>1, GovernedAssumption DEF Over
<1>3. call = Received /\ connected = None
  BY Zenon DEF GovernedInit
<1>4. call.step = "transform" /\ call.outcome = None
  BY <1>3 DEF Received
<1> QED BY <1>2, <1>3, <1>4 DEF Sends, Prepared, Stands, Steps

(* A step before the headers are made, or one that leaves them alone.      *)
LEMMA SendsStays ==
  ASSUME Sends, UNCHANGED job,
         \/ ~Prepared'
         \/ Prepared /\ call'.headers = call.headers
  PROVE  Sends'
BY ProviderStays DEF Sends, ResolveAuth

LEMMA EndedStands ==
  ASSUME Fields, NEW outcome, call' = Ended(outcome)
  PROVE  Stands' /\ call'.step = "done" /\ call'.headers = call.headers
BY EndedIs DEF Stands, Steps

LEMMA GotoStands ==
  ASSUME Fields, Stands, NEW step \in Steps, call.step # "done",
         call' = Goto(step)
  PROVE  Stands' /\ call'.step = step /\ call'.headers = call.headers
BY GotoIs DEF Stands

LEMMA SendsNext ==
  CallInv /\ Sends /\ Stands /\ [GovernedNext]_governedVars => Sends' /\ Stands'
<1> SUFFICES ASSUME CallInv, Sends, Stands, [GovernedNext]_governedVars
             PROVE  Sends' /\ Stands'
  OBVIOUS
<1>1. Fields
  BY DEF CallInv
<1>2. CASE Transform
  <2>1. call.step = "transform" /\ UNCHANGED <<job, connected>>
    BY <1>2 DEF Transform, Waiting
  <2>2. connected = None /\ call.outcome = None
    BY <2>1 DEF CallInv, Carries, Stands
  <2>3. PICK result :
          call' = IF job.blockThreshold # None /\ result.riskScore >= job.blockThreshold
                  THEN [Ended(403) EXCEPT !.transformabl = result]
                  ELSE [call EXCEPT !.step = "validate", !.transformabl = result,
                                    !.body = BodyAfter(result)]
    BY Zenon, <1>2 DEF Transform
  <2>4. CASE call' = [Ended(403) EXCEPT !.transformabl = result]
    <3>1. call'.step = "done"
      BY <1>1, <2>4, EndedIs
    <3> QED BY <2>1, <2>2, <3>1, SendsStays DEF Stands, Steps, Prepared
  <2>5. CASE call' = [call EXCEPT !.step = "validate", !.transformabl = result,
                                  !.body = BodyAfter(result)]
    <3>1. call'.step = "validate" /\ call'.outcome = None
      BY <1>1, <2>2, <2>5 DEF Fields
    <3> QED BY <2>1, <2>2, <3>1, SendsStays DEF Stands, Steps, Prepared
  <2> QED BY <2>3, <2>4, <2>5
<1>3. CASE Validate
  <2>1. call.step = "validate" /\ UNCHANGED <<job, connected>>
    BY <1>3 DEF Validate, Waiting
  <2>2. connected = None
    BY <2>1 DEF CallInv, Carries
  <2>3. call' = Goto("resolve") \/ \E outcome \in {403, 500} : call' = Ended(outcome)
    <3>1. Decision(PolicyRequest, job.options) \in {"throw", "deny", "allow"}
      BY DEF Decision
    <3> QED BY <1>3, <3>1 DEF Validate
  <2>4. Stands' /\ call'.step \in {"resolve", "done"}
    BY <1>1, <2>1, <2>3, EndedStands, GotoStands DEF Steps
  <2> QED BY <2>1, <2>2, <2>4, SendsStays DEF Prepared
<1>4. CASE Resolve
  <2>1. call.step = "resolve" /\ UNCHANGED <<job, connected>>
    BY <1>4 DEF Resolve, Waiting
  <2>2. connected = None /\ call.outcome = None
    BY <2>1 DEF CallInv, Carries, Stands
  <2> DEFINE auth == ResolveAuth(ResolveProvider.auth)
             step == IF ResolveProvider.isName THEN "lookup" ELSE "fetch"
             headers == Headers(ResolveProvider, auth)
  <2>3. \/ \E outcome : call' = Ended(outcome)
        \/ /\ ResolveProvider # None /\ auth # None
           /\ call' = [call EXCEPT !.step = step, !.headers = headers]
    BY Zenon, <1>4 DEF Resolve
  <2>4. CASE \E outcome : call' = Ended(outcome)
    <3>1. Stands' /\ call'.step = "done"
      BY <1>1, <2>4, EndedStands
    <3> QED BY <2>1, <2>2, <3>1, SendsStays DEF Prepared
  <2>5. CASE /\ ResolveProvider # None /\ auth # None
             /\ call' = [call EXCEPT !.step = step, !.headers = headers]
    <3>1. step \in {"lookup", "fetch"}
      OBVIOUS
    <3> HIDE DEF step, headers
    <3>2. /\ call'.step = step /\ call'.headers = headers
          /\ call'.outcome = None
      BY <1>1, <2>2, <2>5 DEF Fields
    <3>3. Stands'
      BY <3>1, <3>2 DEF Stands, Steps
    <3>4. ResolveProvider' = ResolveProvider
      BY <2>1, ProviderStays
    <3>5. auth' = auth
      BY Zenon, <2>1, <3>4 DEF ResolveAuth
    <3>6. Sends'
      BY <2>1, <2>5, <3>2, <3>4, <3>5 DEF Sends, headers
    <3> QED BY <3>3, <3>6
  <2> QED BY <2>3, <2>4, <2>5
<1>5. CASE Lookup \/ Headed
  <2>1. call.step \in {"lookup", "fetch"} /\ UNCHANGED job
    BY <1>5 DEF Lookup, Headed, Waiting
  <2>2. \/ \E step \in {"fetch", "body"} : call' = Goto(step)
        \/ \E outcome : call' = Ended(outcome)
    BY <1>5 DEF Lookup, Headed
  <2>3. Stands' /\ call'.headers = call.headers
    BY <1>1, <2>1, <2>2, EndedStands, GotoStands DEF Steps
  <2> QED BY <2>1, <2>3, SendsStays DEF Prepared
<1>6. CASE Unreachable \/ TimeOut \/ Bodied
  <2>1. call.step \in {"fetch", "body"} /\ UNCHANGED job
    BY <1>6 DEF Unreachable, TimeOut, TimerIsSet, Bodied, Waiting
  <2>2. \E outcome : call' = Ended(outcome)
    BY <1>6 DEF Unreachable, TimeOut, Bodied
  <2> QED BY <1>1, <2>1, <2>2, EndedStands, SendsStays DEF Prepared
<1>7. CASE Rebind \/ UNCHANGED governedVars
  <2>1. UNCHANGED <<job, call, connected>>
    BY <1>7 DEF Rebind, governedVars
  <2> QED BY <2>1, SendsStays DEF Stands, Prepared
<1> QED BY <1>2, <1>3, <1>4, <1>5, <1>6, <1>7 DEF GovernedNext

LEMMA SendsHolds == GovernedSpec => [](Sends /\ Stands)
<1>1. GovernedInit => Sends /\ Stands
  BY SendsInit
<1>2. CallInv /\ CallInv' /\ Sends /\ Stands /\ [GovernedNext]_governedVars
        => Sends' /\ Stands'
  BY SendsNext
<1> QED BY <1>1, <1>2, CallInvHolds, PTL DEF GovernedSpec

(* The state of a call keeps its shape: a call that is done has an         *)
(* outcome, and only one that got as far as fetch() is connected.          *)
THEOREM CallTyped == GovernedSpec => []GovernedTypeOK
<1>1. CallInv /\ Sends /\ Stands => GovernedTypeOK
  BY DEF CallInv, Carries, Goes, Stands, GovernedTypeOK
<1> QED BY <1>1, CallInvHolds, SendsHolds, PTL

-----------------------------------------------------------------------------
(* What is sent: the credential where it belongs, elsewhere what is        *)
(* configured.                                                             *)
LEMMA WhatIsSent ==
  ASSUME NEW provider, NEW auth, auth # None,
         auth = [header |-> auth.header, value |-> auth.value]
  PROVE  LET sent == Headers(provider, auth) IN
         /\ auth.header # None => sent[auth.header] = auth.value
         /\ \A n \in DOMAIN sent :
              \/ n = auth.header /\ auth.header # None /\ sent[n] = auth.value
              \/ /\ n \in DOMAIN provider.headers \ BlockedHeaders
                 /\ sent[n] = provider.headers[n]
<1> DEFINE custom == Unblocked(provider.headers)
           own == Injected(auth)
           sent == Headers(provider, auth)
<1>1. custom = [n \in DOMAIN provider.headers \ BlockedHeaders
                  |-> provider.headers[n]]
  BY DEF Unblocked, Only
<1>2. /\ auth.header # None => own = [n \in {auth.header} |-> auth.value]
      /\ auth.header = None => DOMAIN own = {}
  BY DEF Injected
<1>3. sent = [n \in DOMAIN own \cup DOMAIN custom |->
                IF n \in DOMAIN own THEN own[n] ELSE custom[n]]
  BY DEF Headers, Over
<1> HIDE DEF custom, own, sent
<1>4. auth.header # None => sent[auth.header] = auth.value
  BY <1>2, <1>3
<1>5. ASSUME NEW n \in DOMAIN sent
      PROVE  \/ n = auth.header /\ auth.header # None /\ sent[n] = auth.value
             \/ /\ n \in DOMAIN provider.headers \ BlockedHeaders
                /\ sent[n] = provider.headers[n]
  BY <1>1, <1>2, <1>3, <1>5
<1> QED BY <1>4, <1>5 DEF sent

(* The credential of the provider that is called is sent where it belongs, *)
(* nothing but what is configured to a provider that is not to have the    *)
(* caller's token, and no header that is not to be forwarded               *)
(* (resolveAuth(), executeProxyRequest()).                                 *)
THEOREM Credentials == GovernedSpec => []CredentialWins
<1>1. Sends => CredentialWins
  <2> SUFFICES ASSUME Sends, Called PROVE CredentialWins
    BY DEF CredentialWins
  <2> DEFINE provider == ResolveProvider
             auth == provider.auth
             own == ResolveAuth(auth)
             sent == call.headers
  <2>1. provider # None /\ own # None /\ sent = Headers(provider, own)
    BY DEF Sends, Called, Prepared
  <2>2. PICK key \in DOMAIN Providers : provider = Providers[key]
    BY <2>1 DEF ResolveProvider
  <2>3. PICK j \in Jobs : job.tokens = j.tokens
    BY DEF Sends
  <2>4. auth.mode \in AuthModes /\ DOMAIN job.tokens = TokenModes
    BY <2>2, <2>3, GovernedAssumption
  <2>5. /\ own = [header |-> own.header, value |-> own.value]
        /\ auth.mode = "api_key" =>
             /\ own.header = auth.header /\ own.header # None
             /\ own.value = auth.value
        /\ auth.mode = "none" => own.header = None
        /\ auth.mode \in TokenModes =>
             own.header = "authorization" /\ own.value = job.tokens[auth.mode]
    BY <2>1, <2>4 DEF ResolveAuth, AuthModes, TokenModes
  <2> HIDE DEF own, sent, provider
  <2>6. /\ own.header # None => sent[own.header] = own.value
        /\ \A n \in DOMAIN sent :
             \/ n = own.header /\ own.header # None /\ sent[n] = own.value
             \/ /\ n \in DOMAIN provider.headers \ BlockedHeaders
                /\ sent[n] = provider.headers[n]
    BY <2>1, <2>5, WhatIsSent
  <2>7. auth.mode = "api_key" => sent[auth.header] = auth.value
    BY <2>5, <2>6
  <2>8. auth.mode \in TokenModes => sent["authorization"] = job.tokens[auth.mode]
    BY <2>5, <2>6, GovernedAssumption
  <2>9. ASSUME auth.mode # "forward_bearer", NEW n \in DOMAIN sent
        PROVE  sent[n] \in Sendable(provider)
    <3>1. CASE n = own.header /\ own.header # None /\ sent[n] = own.value
      BY <2>4, <2>5, <2>9, <3>1 DEF Sendable, AuthModes
    <3>2. CASE n \in DOMAIN provider.headers /\ sent[n] = provider.headers[n]
      BY <3>2 DEF Sendable
    <3> QED BY <2>6, <3>1, <3>2
  <2>10. ASSUME NEW n \in DOMAIN sent \cap BlockedHeaders
         PROVE  auth.mode = "api_key" /\ n = auth.header
    <3>1. n = own.header /\ own.header # None
      BY <2>6
    <3>2. "authorization" \notin BlockedHeaders
      BY DEF BlockedHeaders
    <3> QED BY <2>4, <2>5, <3>1, <3>2 DEF AuthModes
  <2> QED BY <2>7, <2>8, <2>9, <2>10 DEF CredentialWins, sent, provider
<1> QED BY <1>1, SendsHolds, PTL

-----------------------------------------------------------------------------
(***************************************************************************)
(* Redaction covers what is detected, and nothing else.                    *)
(***************************************************************************)
(* What is written into a text in place of characters: no numbers.         *)
Symbols == {Mask} \cup {Patterns[i] : i \in DOMAIN Patterns}

(* A character that a replacement of from+1..to may leave.                 *)
MayStay(how, from, to, c) ==
  /\ how.mode = "mask"
  /\ c <= from + how.keep \/ c > to - how.keep

(* What replaces the characters from+1..to.                                *)
Replaces(how, from, to, new) ==
  /\ new \in Seq((from + 1 .. to) \cup Symbols)
  /\ \A i, j \in DOMAIN new : i < j /\ new[i] \in Nat /\ new[j] \in Nat
                                => new[i] < new[j]
  /\ \A i \in DOMAIN new : new[i] \in Nat => MayStay(how, from, to, new[i])
  /\ how.mode = "mask" => Len(new) = to - from

(* r is a text of n characters in which, for every u in s, those of        *)
(* u+1..end[u] have been replaced; what comes before all of them is where  *)
(* it was.                                                                 *)
Redone(how, n, end, s, r) ==
  /\ r \in Seq((1..n) \cup Symbols)
  /\ \A t \in 0..n : (\A u \in s : t <= u) =>
       t <= Len(r) /\ \A i \in 1..t : r[i] = i
  /\ \A i, j \in DOMAIN r : i < j /\ r[i] \in Nat /\ r[j] \in Nat => r[i] < r[j]
  /\ \A c \in 1..n :
       (\A u \in s : c \notin u + 1 .. end[u]) => \E i \in DOMAIN r : r[i] = c
  /\ \A i \in DOMAIN r, u \in s :
       r[i] \in u + 1 .. end[u] => MayStay(how, u, end[u], r[i])
  /\ how.mode = "mask" => Len(r) = n

(* Spans that are not empty and do not overlap.                            *)
Apart(n, end, U) ==
  /\ U \subseteq 0..n
  /\ \A u \in U : end[u] \in 1..n /\ u < end[u]
  /\ \A u, v \in U : u < v => end[u] <= v

-----------------------------------------------------------------------------
LEMMA SymbolsAreNone == Symbols \cap Nat = {}
BY RedactionAssumption DEF Symbols

IsJoined(V, p, t, q) ==
  /\ q \in Seq(V)
  /\ Len(p) \in Nat /\ Len(t) \in Nat /\ Len(q) = Len(p) + Len(t)
  /\ \A i \in 1..Len(q) : q[i] = IF i <= Len(p) THEN p[i] ELSE t[i - Len(p)]

LEMMA Joined ==
  ASSUME NEW V, NEW p \in Seq(V), NEW t \in Seq(V)
  PROVE  IsJoined(V, p, t, p \o t)
BY ConcatProperties DEF IsJoined

(* A part of a sequence replaced: what follows a and goes up to b, by new. *)
Replacing(V, r, a, new, b, q) ==
  /\ q \in Seq(V)
  /\ Len(q) = a + Len(new) + (Len(r) - b)
  /\ \A i \in 1..Len(q) :
       q[i] = IF i <= a THEN r[i]
              ELSE IF i <= a + Len(new) THEN new[i - a]
              ELSE r[i - a - Len(new) + b]

LEMMA ThreeJoined ==
  ASSUME NEW V, NEW r \in Seq(V), NEW new \in Seq(V),
         NEW a \in Nat, NEW b \in Nat, a <= b, b <= Len(r),
         NEW p1 \in Seq(V), Len(p1) = a, \A i \in 1..a : p1[i] = r[i],
         NEW p3 \in Seq(V), Len(p3) = Len(r) - b,
         \A i \in 1..Len(r) - b : p3[i] = r[b + i],
         NEW q, q = (p1 \o new) \o p3
  PROVE  Replacing(V, r, a, new, b, q)
<1>1. PICK p : p = p1 \o new
  OBVIOUS
<1>2. /\ p \in Seq(V) /\ Len(new) \in Nat /\ Len(p) = Len(p1) + Len(new)
      /\ \A i \in 1..Len(p) :
           p[i] = IF i <= Len(p1) THEN p1[i] ELSE new[i - Len(p1)]
  <2>1. IsJoined(V, p1, new, p)
    BY <1>1, Joined
  <2>. QED
    BY <2>1 DEF IsJoined
<1>3. /\ q \in Seq(V) /\ Len(p3) \in Nat /\ Len(q) = Len(p) + Len(p3)
      /\ \A i \in 1..Len(q) :
           q[i] = IF i <= Len(p) THEN p[i] ELSE p3[i - Len(p)]
  <2>1. q = p \o p3
    BY <1>1
  <2>2. IsJoined(V, p, p3, q)
    BY <1>2, <2>1, Joined
  <2>. QED
    BY <2>2 DEF IsJoined
<1>4. Len(r) \in Nat /\ Len(p) = a + Len(new) /\ Len(q) = a + Len(new) + (Len(r) - b)
  BY <1>2, <1>3
<1>5. ASSUME NEW i \in 1..Len(q)
      PROVE  q[i] = IF i <= a THEN r[i]
                    ELSE IF i <= a + Len(new) THEN new[i - a]
                    ELSE r[i - a - Len(new) + b]
  <2>1. i \in Int /\ 1 <= i /\ i <= Len(q)
    BY <1>2, <1>4
  <2>2. CASE i <= a
    <3>1. i \in 1..Len(p) /\ i \in 1..a
      BY <1>2, <1>4, <2>1, <2>2
    <3>. QED
      BY <1>2, <1>3, <2>2, <3>1
  <2>3. CASE ~(i <= a) /\ i <= a + Len(new)
    <3>1. i \in 1..Len(p)
      BY <1>2, <1>4, <2>1, <2>3
    <3>. QED
      BY <1>2, <1>3, <2>3, <3>1
  <2>4. CASE ~(i <= a) /\ ~(i <= a + Len(new))
    <3>1. PICK k \in Int : k = i - (a + Len(new))
      BY <1>2, <2>1
    <3>2. k \in 1..Len(r) - b
      BY <1>2, <1>4, <2>1, <2>4, <3>1
    <3>3. ~(i <= Len(p)) /\ i - Len(p) = k
      BY <1>4, <2>4, <3>1
    <3>4. q[i] = p3[k]
      BY <1>3, <3>3
    <3>5. b + k = i - a - Len(new) + b
      BY <1>2, <2>1, <3>1
    <3>. QED
      BY <2>4, <3>2, <3>4, <3>5
  <2>. QED
    BY <2>2, <2>3, <2>4
<1>. QED
  BY <1>3, <1>4, <1>5 DEF Replacing

LEMMA ThreePieces ==
  ASSUME NEW V, NEW r \in Seq(V), NEW new \in Seq(V),
         NEW a \in Nat, NEW b \in Nat, a <= b, b <= Len(r)
  PROVE  Replacing(V, r, a, new, b,
                   SubSeq(r, 1, a) \o new \o SubSeq(r, b + 1, Len(r)))
<1>. DEFINE p1 == SubSeq(r, 1, a)
            p3 == SubSeq(r, b + 1, Len(r))
<1>1. Len(r) \in Nat
  OBVIOUS
<1>2. /\ p1 \in Seq(V) /\ Len(p1) = a
      /\ \A i \in 1..a : p1[i] = r[i]
  OBVIOUS
<1>3. /\ p3 \in Seq(V) /\ Len(p3) = Len(r) - b
      /\ \A i \in 1..Len(r) - b : p3[i] = r[b + i]
  <2>1. \A i \in b + 1..Len(r) : r[i] \in V
    OBVIOUS
  <2>2. /\ p3 \in Seq(V)
        /\ Len(p3) = IF b + 1 <= Len(r) THEN Len(r) - (b + 1) + 1 ELSE 0
        /\ \A i \in 1..Len(r) - (b + 1) + 1 : p3[i] = r[b + 1 + i - 1]
    BY <1>1, <2>1, SubSeqProperties
  <2>. HIDE DEF p3
  <2>. QED
    BY <1>1, <2>2
<1>. HIDE DEF p1, p3
<1>4. Replacing(V, r, a, new, b, (p1 \o new) \o p3)
  BY <1>2, <1>3, ThreeJoined
<1>. QED
  BY <1>4 DEF p1, p3

(* An index behind the replaced part, as it was before.                    *)
LEMMA MovedBack ==
  ASSUME NEW x \in Nat, NEW l \in Nat, NEW b \in Nat, NEW m \in Nat, b <= m,
         NEW i \in Int, ~(i <= x + l), i <= x + l + (m - b)
  PROVE  i - x - l + b \in b + 1..m
OBVIOUS

LEMMA ReplacingKeeps ==
  ASSUME NEW how, how.keep \in Nat, NEW n \in Nat, NEW end, NEW s, NEW x \in s,
         Apart(n, end, s), \A u \in s : x <= u, NEW b, b = end[x],
         NEW r, Redone(how, n, end, s \ {x}, r),
         NEW new, Replaces(how, x, b, new),
         NEW q, Replacing((1..n) \cup Symbols, r, x, new, b, q)
  PROVE  Redone(how, n, end, s, q)
<1>. DEFINE l == Len(new)
            V == (1..n) \cup Symbols
<1>1. /\ x \in Nat /\ b \in 1..n /\ x < b
      /\ \A u \in s \ {x} : u \in Nat /\ b <= u /\ x < u
  BY DEF Apart
<1>2. /\ r \in Seq(V) /\ b <= Len(r) /\ Len(r) \in Nat
      /\ \A i \in 1..b : r[i] = i
  BY <1>1 DEF Redone
<1>3. new \in Seq(V) /\ l \in Nat
  <2>1. (x + 1 .. b) \subseteq 1..n
    BY <1>1
  <2>2. new \in Seq((x + 1 .. b) \cup Symbols)
    BY DEF Replaces
  <2>. QED
    BY <2>1, <2>2
<1>4. /\ q \in Seq(V)
      /\ Len(q) = x + l + (Len(r) - b)
      /\ \A i \in 1..Len(q) :
           q[i] = IF i <= x THEN r[i]
                  ELSE IF i <= x + l THEN new[i - x]
                  ELSE r[i - x - l + b]
  BY DEF Replacing
<1>. DEFINE After(i) == i - x - l + b
<1>40. /\ DOMAIN q = 1..Len(q) /\ Len(q) \in Nat
       /\ DOMAIN r = 1..Len(r)
       /\ DOMAIN new = 1..l
  BY <1>2, <1>3, <1>4
<1>41. Len(q) = x + l + (Len(r) - b) /\ Len(r) \in Nat /\ b <= Len(r)
  BY <1>2, <1>4
<1>80. b \in Int
  BY <1>1
(* The numbers of each of the three pieces.                                *)
<1>5. \A i \in 1..x : i \in 1..Len(q) /\ q[i] = i
  <2>. SUFFICES ASSUME NEW i \in 1..x PROVE i \in 1..Len(q) /\ q[i] = i
    OBVIOUS
  <2>1. i \in 1..b /\ i \in 1..Len(q) /\ i <= x
    BY <1>1, <1>2, <1>3, <1>4
  <2>. HIDE DEF l, V
  <2>. QED
    BY <1>2, <1>4, <2>1
<1>6. \A i \in 1..l : new[i] \in Nat => new[i] \in x + 1 .. b
  <2>1. new \in Seq((x + 1 .. b) \cup Symbols)
    BY DEF Replaces
  <2>2. \A i \in 1..l : new[i] \in (x + 1 .. b) \cup Symbols
    BY <2>1
  <2>. QED
    BY <2>2, SymbolsAreNone
<1>7. \A i \in b + 1..Len(r) : r[i] \in Nat => r[i] > b /\ r[i] \in 1..n
  <2>. SUFFICES ASSUME NEW i \in b + 1..Len(r), r[i] \in Nat
                PROVE  r[i] > b /\ r[i] \in 1..n
    OBVIOUS
  <2>1. b \in DOMAIN r /\ i \in DOMAIN r /\ b < i /\ r[b] = b
    BY <1>1, <1>2, <1>40
  <2>2. r[b] < r[i]
    BY <1>1, <2>1 DEF Redone
  <2>3. r[i] \in V
    BY <1>2, <2>1
  <2>. QED
    BY <1>1, <2>1, <2>2, <2>3, SymbolsAreNone
<1>. HIDE DEF l, V
<1>8. ASSUME NEW i \in DOMAIN q, q[i] \in Nat
      PROVE  \/ i \in 1..x /\ q[i] = i
             \/ i - x \in 1..l /\ q[i] = new[i - x] /\ q[i] \in x + 1 .. b
             \/ /\ After(i) \in b + 1..Len(r) /\ q[i] = r[After(i)]
                /\ q[i] > b
  <2>1. i \in 1..Len(q) /\ i \in Int /\ b \in Int
    BY <1>1, <1>40
  <2>2. CASE i <= x
    BY <1>1, <1>5, <2>1, <2>2
  <2>3. CASE ~(i <= x) /\ i <= x + l
    <3>1. i - x \in 1..l
      BY <1>1, <1>3, <2>1, <2>3
    <3>. QED
      BY <1>4, <1>6, <1>8, <2>1, <2>3, <3>1
  <2>4. CASE ~(i <= x) /\ ~(i <= x + l)
    <3>0. i <= x + l + (Len(r) - b)
      BY <1>41, <2>1
    <3>1. After(i) \in b + 1..Len(r)
      <4>1. x \in Nat /\ l \in Nat /\ b \in Nat /\ Len(r) \in Nat /\ b <= Len(r)
        BY <1>1, <1>3, <1>41
      <4>. QED
        BY <2>1, <2>4, <3>0, <4>1, MovedBack
    <3>. QED
      BY <1>4, <1>7, <1>8, <2>1, <2>4, <3>1
  <2>. QED
    BY <2>2, <2>3, <2>4
<1>9. ASSUME NEW t \in 0..n, \A u \in s : t <= u
      PROVE  t <= Len(q) /\ \A i \in 1..t : q[i] = i
  <2>1. t <= x /\ t \in Int
    BY <1>9
  <2>2. x <= Len(q)
    BY <1>1, <1>2, <1>3, <1>4, <1>80
  <2>. QED
    BY <1>1, <1>5, <1>40, <2>1, <2>2
<1>10. ASSUME NEW i \in DOMAIN q, NEW j \in DOMAIN q, i < j,
              q[i] \in Nat, q[j] \in Nat
       PROVE  q[i] < q[j]
  <2>1. i \in Int /\ j \in Int
    BY <1>4
  <2>2. \A k, m \in DOMAIN new : k < m /\ new[k] \in Nat /\ new[m] \in Nat
                                   => new[k] < new[m]
    BY DEF Replaces
  <2>3. \A k, m \in DOMAIN r : k < m /\ r[k] \in Nat /\ r[m] \in Nat => r[k] < r[m]
    BY DEF Redone
  <2>5. CASE i \in 1..x /\ q[i] = i
    BY <1>1, <1>3, <1>8, <1>10, <2>1, <2>5
  <2>6. CASE i - x \in 1..l /\ q[i] = new[i - x] /\ q[i] \in x + 1 .. b
    <3>1. CASE j \in 1..x
      BY <1>1, <1>3, <1>10, <2>1, <2>6, <3>1
    <3>2. CASE j - x \in 1..l /\ q[j] = new[j - x]
      <4>1. i - x < j - x
        BY <1>1, <1>10, <2>1
      <4>2. i - x \in DOMAIN new /\ j - x \in DOMAIN new
        BY <1>40, <2>6, <3>2
      <4>. QED
        BY <1>10, <2>2, <2>6, <3>2, <4>1, <4>2
    <3>3. CASE q[j] > b
      BY <1>1, <1>10, <1>80, <2>6, <3>3
    <3>. QED
      BY <1>8, <1>10, <3>1, <3>2, <3>3
  <2>7. CASE After(i) \in b + 1..Len(r) /\ q[i] = r[After(i)] /\ q[i] > b
    <3>1. ~(j \in 1..x) /\ ~(j - x \in 1..l)
      BY <1>1, <1>2, <1>3, <1>10, <1>80, <2>1, <2>7
    <3>2. After(j) \in b + 1..Len(r) /\ q[j] = r[After(j)]
      BY <1>8, <1>10, <3>1
    <3>3. After(i) < After(j)
      BY <1>1, <1>3, <1>10, <1>80, <2>1
    <3>4. After(i) \in DOMAIN r /\ After(j) \in DOMAIN r
      BY <1>1, <1>2, <1>40, <1>80, <2>7, <3>2
    <3>. QED
      BY <1>10, <2>3, <2>7, <3>2, <3>3, <3>4
  <2>. QED
    BY <1>8, <1>10, <2>5, <2>6, <2>7
<1>11. ASSUME NEW c \in 1..n, \A u \in s : c \notin u + 1 .. end[u]
       PROVE  \E i \in DOMAIN q : q[i] = c
  <2>1. c \in Int /\ (c <= x \/ c > b)
    BY <1>1, <1>11
  <2>2. CASE c <= x
    <3>1. c \in 1..x
      BY <1>1, <2>1, <2>2
    <3>. QED
      BY <1>5, <1>40, <3>1
  <2>3. CASE c > b
    <3>1. \A u \in s \ {x} : c \notin u + 1 .. end[u]
      BY <1>11
    <3>2. PICK k \in DOMAIN r : r[k] = c
      BY <3>1 DEF Redone
    <3>3. k \in Int /\ k <= Len(r) /\ b < k
      BY <1>1, <1>2, <1>40, <1>80, <2>1, <2>3, <3>2
    <3>4. x \in Nat /\ l \in Nat /\ b \in Nat /\ Len(r) \in Nat /\ b <= Len(r)
      BY <1>1, <1>3, <1>41
    <3>5. PICK i : i = x + l + (k - b)
      OBVIOUS
    <3>6. i \in 1..Len(q) /\ ~(i <= x + l) /\ ~(i <= x) /\ i - x - l + b = k
      <4>1. /\ i \in 1..x + l + (Len(r) - b)
            /\ ~(i <= x + l) /\ ~(i <= x) /\ i - x - l + b = k
        <5>1. PICK m \in Nat : m = Len(r)
          BY <3>4
        <5>2. b \in Nat /\ x \in Nat /\ l \in Nat /\ k <= m /\ b < k /\ k \in Int
          BY <3>3, <3>4, <5>1
        <5>3. i \in Int /\ i = x + l + (k - b)
          BY <3>5, <5>2
        <5>4. ~(i <= x + l) /\ ~(i <= x) /\ i - x - l + b = k
          BY <5>2, <5>3
        <5>5. i \in 1..x + l + (m - b)
          BY <5>2, <5>3
        <5>. QED
          BY <5>1, <5>4, <5>5
      <4>. QED
        BY <1>41, <4>1
    <3>7. q[i] = r[k]
      BY <1>4, <3>6
    <3>. QED
      BY <1>40, <3>2, <3>6, <3>7
  <2>. QED
    BY <2>1, <2>2, <2>3
<1>12. ASSUME NEW i \in DOMAIN q, NEW u \in s, q[i] \in u + 1 .. end[u]
       PROVE  MayStay(how, u, end[u], q[i])
  <2>1. u \in Nat /\ end[u] \in Nat
    BY DEF Apart
  <2>2. q[i] \in Nat
    BY <1>12, <2>1
  <2>3. CASE u = x
    <3>1. q[i] \in x + 1 .. b
      BY <1>12, <2>3
    <3>2. i - x \in DOMAIN new /\ q[i] = new[i - x]
      BY <1>1, <1>8, <1>40, <1>80, <2>2, <3>1
    <3>. QED
      BY <2>2, <2>3, <3>2 DEF Replaces
  <2>4. CASE u # x
    <3>1. q[i] > b /\ q[i] > x
      BY <1>1, <1>12, <1>80, <2>1, <2>2, <2>4
    <3>2. ~(i \in 1..x /\ q[i] = i) /\ ~(q[i] \in x + 1 .. b)
      BY <1>1, <1>80, <2>2, <3>1
    <3>3. After(i) \in b + 1..Len(r) /\ q[i] = r[After(i)]
      BY <1>8, <2>2, <3>2
    <3>4. After(i) \in DOMAIN r /\ u \in s \ {x}
      BY <1>1, <1>2, <1>40, <1>80, <2>4, <3>3
    <3>. QED
      BY <1>12, <3>3, <3>4 DEF Redone
  <2>. QED
    BY <2>3, <2>4
<1>13. ASSUME how.mode = "mask" PROVE Len(q) = n
  <2>1. l = b - x /\ Len(r) = n
    BY <1>13 DEF Redone, Replaces, l
  <2>. QED
    BY <1>1, <1>4, <1>80, <2>1
<1>. QED
  BY <1>4, <1>9, <1>10, <1>11, <1>12, <1>13 DEF Redone, V

(* What replaces a span.                                                   *)
LEMMA MaskReplaces ==
  ASSUME NEW how, how.mode = "mask", how.keep \in Nat \ {0},
         NEW a \in Nat, NEW b \in Nat, a < b,
         NEW o \in Seq(a + 1 .. b), Len(o) = b - a,
         \A i \in 1..b - a : o[i] = a + i
  PROVE  Replaces(how, a, b, MaskValue(o, how.keep))
<1>. DEFINE V == (a + 1 .. b) \cup Symbols
<1>000. b - a \in Nat
  OBVIOUS
<1>00. PICK l \in Nat, keep \in Nat :
         l = b - a /\ keep = how.keep /\ keep # 0 /\ Len(o) = l
  BY <1>000, Zenon
<1>0. Mask \in Symbols /\ Mask \notin Nat
  BY RedactionAssumption DEF Symbols
<1>1. \A m \in Nat : Masks(m) \in Seq(V) /\ Len(Masks(m)) = m
                       /\ \A i \in 1..m : Masks(m)[i] = Mask
  BY <1>0 DEF Masks
<1>2. CASE l <= 2 * keep
  <2>1. MaskValue(o, keep) = Masks(l)
    BY <1>00, <1>2 DEF MaskValue
  <2>2. DOMAIN Masks(l) = 1..l
    BY DEF Masks
  <2>. QED
    <3>1. Masks(l) \in Seq(V) /\ Len(Masks(l)) = l
      BY <1>1
    <3>2. \A i \in DOMAIN Masks(l) : Masks(l)[i] \notin Nat
      BY <1>0, <1>1, <2>2
    <3>. QED
      BY <1>00, <2>1, <3>1, <3>2 DEF Replaces
<1>3. CASE ~(l <= 2 * keep)
  <2>0. l - 2 * keep \in Nat /\ l - keep \in Nat /\ keep <= l - keep /\ l - keep <= l
    BY <1>3
  <2>1. PICK m \in Nat : m = l - 2 * keep
    BY <2>0
  <2>2. PICK c \in Nat : c = l - keep /\ keep <= c /\ c <= l
    BY <2>0
  <2>3. MaskValue(o, keep)
          = SubSeq(o, 1, keep) \o Masks(m) \o SubSeq(o, c + 1, Len(o))
    <3>1. c + 1 = l - keep + 1
      BY <2>2
    <3>. QED
      BY <1>00, <1>3, <2>1, <3>1 DEF MaskValue, LastChars
  <2>4. PICK q : q = MaskValue(o, keep)
    OBVIOUS
  <2>5. o \in Seq(V)
    <3>1. (a + 1 .. b) \subseteq V
      OBVIOUS
    <3>. HIDE DEF V
    <3>. QED
      BY <3>1
  <2>. HIDE DEF V
  <2>6. Replacing(V, o, keep, Masks(m), c, q)
    <3>1. c <= Len(o) /\ Masks(m) \in Seq(V)
      BY <1>00, <1>1, <2>2
    <3>. QED
      BY <2>2, <2>3, <2>4, <2>5, <3>1, ThreePieces
  <2>7. q \in Seq(V) /\ Len(q) = l /\ DOMAIN q = 1..l
    <3>1. q \in Seq(V) /\ Len(q) = keep + m + (l - c)
      BY <1>00, <1>1, <2>6 DEF Replacing
    <3>2. DOMAIN q = 1..Len(q)
      BY <3>1
    <3>. QED
      BY <2>1, <2>2, <3>1, <3>2
  <2>8. ASSUME NEW i \in 1..l
        PROVE  \/ q[i] = Mask
               \/ q[i] = a + i /\ (i <= keep \/ i > l - keep)
    <3>1. q[i] = IF i <= keep THEN o[i]
                 ELSE IF i <= keep + m THEN Masks(m)[i - keep]
                 ELSE o[i - keep - m + c]
      BY <1>1, <2>6, <2>7 DEF Replacing
    <3>2. i \in Int /\ 1 <= i /\ i <= l
      OBVIOUS
    <3>6. o[i] = a + i
      BY <1>00
    <3>3. CASE i <= keep
      BY <3>1, <3>3, <3>6
    <3>4. CASE ~(i <= keep) /\ i <= keep + m
      <4>1. i - keep \in 1..m
        BY <2>1, <3>2, <3>4
      <4>. QED
        BY <1>1, <3>1, <3>4, <4>1
    <3>5. CASE ~(i <= keep) /\ ~(i <= keep + m)
      <4>1. i - keep - m + c = i /\ i > l - keep
        BY <2>1, <2>2, <3>2, <3>5
      <4>. QED
        BY <3>1, <3>5, <3>6, <4>1
    <3>. QED
      BY <3>3, <3>4, <3>5
  <2>9. ASSUME NEW i \in 1..l, q[i] \in Nat
        PROVE  q[i] = a + i /\ MayStay(how, a, b, q[i])
    <3>1. q[i] = a + i /\ (i <= keep \/ i > l - keep)
      BY <1>0, <2>8, <2>9
    <3>. QED
      BY <1>00, <3>1 DEF MayStay
  <2>10. \A i, j \in DOMAIN q : i < j /\ q[i] \in Nat /\ q[j] \in Nat
                                  => q[i] < q[j]
    BY <2>7, <2>9
  <2>11. \A i \in DOMAIN q : q[i] \in Nat => MayStay(how, a, b, q[i])
    BY <2>7, <2>9
  <2>. QED
    BY <1>00, <2>4, <2>7, <2>10, <2>11 DEF Replaces, V
<1>. QED
  BY <1>2, <1>3

(* A configuration whose masks cover something: with maskKeep 0 they do    *)
(* not.                                                                    *)
Covers(how) == IsRedaction(how) /\ (how.mode = "mask" => how.keep # 0)

LEMMA ReplacementReplaces ==
  ASSUME NEW how, Covers(how), NEW n \in Nat, NEW span,
         span.start \in Nat, span.end \in 1..n, span.start < span.end,
         span.type \in Symbols, NEW chars, chars = [i \in 1..n |-> i]
  PROVE  Replaces(how, span.start, span.end,
                  Replacement(SubSeq(chars, span.start + 1, span.end), span, how))
<1>. DEFINE a == span.start
            b == span.end
            o == SubSeq(chars, a + 1, b)
<1>1. /\ o \in Seq(a + 1 .. b) /\ Len(o) = b - a
      /\ \A i \in 1..b - a : o[i] = a + i
  <2>1. \A i \in a + 1 .. b : chars[i] \in a + 1 .. b /\ chars[i] = i
    OBVIOUS
  <2>2. a + 1 \in Int /\ b \in Int /\ a + 1 <= b
    OBVIOUS
  <2>3. /\ o \in Seq(a + 1 .. b)
        /\ Len(o) = IF a + 1 <= b THEN b - (a + 1) + 1 ELSE 0
        /\ \A i \in 1..b - (a + 1) + 1 : o[i] = chars[a + 1 + i - 1]
    <3>. HIDE DEF a, b
    <3>. QED
      BY <2>1, <2>2, SubSeqProperties
  <2>4. a \in Int /\ b - (a + 1) + 1 = b - a
    OBVIOUS
  <2>. HIDE DEF o, a, b
  <2>5. ASSUME NEW i \in 1..b - a PROVE o[i] = a + i
    <3>1. a + 1 + i - 1 = a + i /\ a + i \in a + 1 .. b
      BY <2>2, <2>4
    <3>. QED
      BY <2>1, <2>3, <2>4, <3>1
  <2>. QED
    BY <2>2, <2>3, <2>4, <2>5
<1>2. a \in Nat /\ b \in Nat /\ a < b
  OBVIOUS
<1>3. how.mode \in {"mask", "remove", "placeholder"} /\ how.keep \in Nat
  BY DEF Covers, IsRedaction
<1>. HIDE DEF o
<1>4. CASE how.mode = "mask"
  <2>1. Replaces(how, a, b, MaskValue(o, how.keep))
    <3>. HIDE DEF a, b
    <3>. QED
      BY <1>1, <1>2, <1>3, <1>4, MaskReplaces DEF Covers
  <2>. QED
    BY <1>4, <2>1 DEF Replacement, o
<1>5. CASE how.mode = "remove"
  <2>1. Replacement(o, span, how) = <<>>
    BY <1>5 DEF Replacement
  <2>2. Replaces(how, a, b, <<>>)
    BY <1>5 DEF Replaces
  <2>. QED
    BY <2>1, <2>2 DEF o
<1>6. CASE how.mode = "placeholder"
  <2>1. PICK type \in Symbols : type = span.type
    OBVIOUS
  <2>2. Replacement(o, span, how) = <<type>>
    BY <1>6, <2>1 DEF Replacement
  <2>3. Replaces(how, a, b, <<type>>)
    BY <1>6, SymbolsAreNone DEF Replaces
  <2>. QED
    BY <2>2, <2>3 DEF o
<1>. QED
  BY <1>3, <1>4, <1>5, <1>6

(* Hence one round of the loop of redactPii().                             *)
LEMMA SubstituteKeeps ==
  ASSUME NEW how, Covers(how), NEW n \in Nat, NEW chars, chars = [i \in 1..n |-> i],
         NEW end, NEW s, Apart(n, end, s), NEW x \in s, \A u \in s : x <= u,
         NEW span, span.start = x, span.end = end[x], span.type \in Symbols,
         NEW r, Redone(how, n, end, s \ {x}, r)
  PROVE  Redone(how, n, end, s, Substitute(chars, span, how, r))
<1>1. PICK a \in Nat, b \in 1..n : a = x /\ b = end[x] /\ a < b
  BY DEF Apart
<1>2. PICK new : new = Replacement(SubSeq(chars, span.start + 1, span.end), span, how)
  OBVIOUS
<1>3. Replaces(how, a, b, new)
  BY <1>1, <1>2, ReplacementReplaces
<1>4. PICK V : V = (1..n) \cup Symbols
  OBVIOUS
<1>5. new \in Seq(V)
  <2>1. (a + 1 .. b) \subseteq 1..n
    BY <1>1
  <2>2. new \in Seq((a + 1 .. b) \cup Symbols)
    BY <1>3 DEF Replaces
  <2>. QED
    BY <1>4, <2>1, <2>2
<1>6. r \in Seq(V) /\ b <= Len(r)
  <2>1. \A u \in s \ {x} : b <= u
    BY <1>1 DEF Apart
  <2>. QED
    BY <1>1, <1>4, <2>1 DEF Redone
<1>7. Replacing(V, r, a, new, b, SubSeq(r, 1, a) \o new \o SubSeq(r, b + 1, Len(r)))
  <2>1. b \in Nat /\ a <= b
    BY <1>1
  <2>. QED
    BY <1>1, <1>5, <1>6, <2>1, ThreePieces
<1>8. Replacing(V, r, a, new, b, Substitute(chars, span, how, r))
  BY <1>1, <1>2, <1>7 DEF Substitute
<1>. QED
  <2>1. how.keep \in Nat
    BY DEF Covers, IsRedaction
  <2>. QED
    BY <1>1, <1>3, <1>4, <1>8, <2>1, ReplacingKeeps

-----------------------------------------------------------------------------
(* A match in a text of n characters.                                      *)
IsMatch(m, n) ==
  /\ m.start \in 0..n /\ m.end \in 1..n /\ m.start < m.end
  /\ m.pattern \in DOMAIN Patterns /\ m.type = Patterns[m.pattern]

AreMatches(W, n) == \A m \in W : IsMatch(m, n)

LEMMA StartsAre ==
  ASSUME NEW n \in Nat, NEW W, AreMatches(W, n)
  PROVE  /\ Starts(W) \subseteq 0..n
         /\ \A u \in Starts(W) :
              /\ \E m \in W : m.start = u
              /\ \A m \in W : m.start < u => m.end <= u
BY DEF Starts, Opens, AreMatches, IsMatch

(* The last start at or before a match: there is one, as the first match   *)
(* opens a span.                                                           *)
LEMMA LastStart ==
  ASSUME NEW n \in Nat, NEW W, AreMatches(W, n), NEW m \in W
  PROVE  LET u == Max({t \in Starts(W) : t <= m.start})
         IN  /\ u \in Starts(W) /\ u <= m.start
             /\ \A t \in Starts(W) : t <= m.start => t <= u
             /\ m \in Members(W, u)
<1>. DEFINE S == {t \in Starts(W) : t <= m.start}
            all == {k.start : k \in W}
<1>1. S \subseteq 0..n
  BY StartsAre
<1>2. S # {}
  <2>1. all \subseteq 0..n /\ all # {}
    BY DEF AreMatches, IsMatch
  <2>2. IsFiniteSet(all) /\ all \subseteq Int
    <3>. HIDE DEF all
    <3>. QED
      BY <2>1, RangeIsFinite
  <2>3. PICK f \in all : \A x \in all : f <= x
    <3>. HIDE DEF all
    <3>. QED
      BY <2>1, <2>2, LeastNumber
  <2>4. PICK k \in W : k.start = f
    BY <2>3
  <2>5. Opens(W, k)
    <3>1. ASSUME NEW x \in W PROVE ~(x.start < k.start)
      <4>1. k.start <= x.start /\ x.start \in Int /\ k.start \in Int
        BY <2>2, <2>3, <2>4
      <4>. QED
        BY <4>1
    <3>. QED
      BY <3>1 DEF Opens
  <2>6. k.start \in Starts(W) /\ k.start <= m.start
    BY <2>3, <2>4, <2>5 DEF Starts
  <2>. QED
    BY <2>6
<1>. HIDE DEF S
<1>3. Max(S) \in S /\ \A x \in S : x <= Max(S)
  BY <1>1, <1>2, RangeIsFinite, GreatestNumber
<1>. QED
  BY <1>3 DEF S, Members

LEMMA MembersAre ==
  ASSUME NEW n \in Nat, NEW W, AreMatches(W, n), NEW u \in Starts(W)
  PROVE  /\ Members(W, u) # {}
         /\ \A m \in Members(W, u) :
              /\ m \in W /\ u <= m.start
              /\ \A t \in Starts(W) : t <= m.start => t <= u
<1>1. \A m \in Members(W, u) :
        m \in W /\ u = Max({t \in Starts(W) : t <= m.start})
  BY DEF Members
<1>2. PICK m \in W : m.start = u
  BY StartsAre
<1>3. PICK v : v = Max({t \in Starts(W) : t <= m.start})
  OBVIOUS
<1>4. /\ v \in Starts(W) /\ v <= m.start /\ m \in Members(W, v)
      /\ \A t \in Starts(W) : t <= m.start => t <= v
  BY <1>3, LastStart
<1>5. u <= v /\ v <= u /\ u \in Int /\ v \in Int
  BY <1>2, <1>4, StartsAre
<1>6. v = u
  BY <1>5
<1>7. ASSUME NEW k \in Members(W, u)
      PROVE  /\ k \in W /\ u <= k.start
             /\ \A t \in Starts(W) : t <= k.start => t <= u
  <2>1. k \in W /\ u = Max({t \in Starts(W) : t <= k.start})
    BY <1>1
  <2>. QED
    BY <2>1, LastStart
<1>. QED
  BY <1>4, <1>6, <1>7

LEMMA EndsAre ==
  ASSUME NEW n \in Nat, NEW W, AreMatches(W, n), NEW u \in Starts(W)
  PROVE  /\ \E m \in Members(W, u) : Span(W, u).end = m.end
         /\ \A m \in Members(W, u) : m.end <= Span(W, u).end
<1>. DEFINE ends == {m.end : m \in Members(W, u)}
<1>1. ends # {} /\ ends \subseteq 0..n
  <2>1. /\ Members(W, u) # {}
        /\ \A m \in Members(W, u) : m \in W
    BY MembersAre
  <2>2. \A m \in Members(W, u) : m.end \in 0..n
    BY <2>1 DEF AreMatches, IsMatch
  <2>. QED
    BY <2>1, <2>2
<1>2. Span(W, u).end = Max(ends)
  BY DEF Span
<1>3. Max(ends) \in ends /\ \A e \in ends : e <= Max(ends)
  <2>. HIDE DEF ends
  <2>. QED
    BY <1>1, RangeIsFinite, GreatestNumber
<1>. QED
  BY <1>2, <1>3

(* Spans are not empty and do not overlap.                                 *)
LEMMA SpansApart ==
  ASSUME NEW n \in Nat, NEW W, AreMatches(W, n), NEW end,
         end = [u \in Starts(W) |-> Span(W, u).end]
  PROVE  Apart(n, end, Starts(W))
<1>1. ASSUME NEW u \in Starts(W)
      PROVE  end[u] \in 1..n /\ u < end[u]
  <2>1. PICK m \in Members(W, u) : end[u] = m.end
    BY EndsAre
  <2>2. m \in W /\ u <= m.start /\ u \in Int
    BY StartsAre, MembersAre
  <2>. QED
    BY <2>1, <2>2 DEF AreMatches, IsMatch
<1>2. ASSUME NEW u \in Starts(W), NEW v \in Starts(W), u < v
      PROVE  end[u] <= v
  <2>1. PICK m \in Members(W, u) : end[u] = m.end
    BY EndsAre
  <2>2. m \in W /\ ~(v <= m.start)
    BY <1>2, MembersAre, StartsAre
  <2>3. m.start < v
    BY <2>2, StartsAre DEF AreMatches, IsMatch
  <2>. QED
    BY <2>1, <2>2, <2>3, StartsAre
<1>. QED
  BY <1>1, <1>2, StartsAre DEF Apart

(* A span ends nowhere inside a match.                                     *)
LEMMA NothingStraddles ==
  ASSUME NEW n \in Nat, NEW W, AreMatches(W, n), NEW u \in Starts(W), NEW m \in W
  PROVE  /\ ~(m.start < u /\ u < m.end)
         /\ ~(m.start < Span(W, u).end /\ Span(W, u).end < m.end)
<1>. DEFINE end == [t \in Starts(W) |-> Span(W, t).end]
<1>0. Apart(n, end, Starts(W))
  BY SpansApart
<1>1. m.start \in Int /\ m.end \in Int /\ u \in Int /\ end[u] \in Int
  BY <1>0 DEF AreMatches, IsMatch, Apart
<1>2. ~(m.start < u /\ u < m.end)
  BY <1>1, StartsAre
<1>3. PICK v \in Starts(W) : v <= m.start /\ m \in Members(W, v)
  BY LastStart
<1>4. m.end <= end[v] /\ v \in Int /\ end[v] \in Int
  BY <1>0, <1>3, EndsAre DEF Apart
<1>5. /\ u < v => end[u] <= v
      /\ v < u => end[v] <= u
      /\ u < end[u]
  BY <1>0, <1>3 DEF Apart
<1>. HIDE DEF end
<1>6. ~(m.start < end[u] /\ end[u] < m.end)
  BY <1>1, <1>3, <1>4, <1>5
<1>. QED
  BY <1>2, <1>6 DEF end

(* Every match is within a span,                                           *)
LEMMA MatchesInSpans ==
  ASSUME NEW n \in Nat, NEW W, AreMatches(W, n), NEW m \in W
  PROVE  \E u \in Starts(W) : u <= m.start /\ m.end <= Span(W, u).end
<1>1. PICK u \in Starts(W) : u <= m.start /\ m \in Members(W, u)
  BY LastStart
<1>. QED
  BY <1>1, EndsAre

(* ... and every character of a span in a match: were there one that is    *)
(* not, the first of the span's matches behind it would open another.      *)
LEMMA SpansAreCovered ==
  ASSUME NEW n \in Nat, NEW W, AreMatches(W, n), NEW u \in Starts(W),
         NEW c \in u + 1 .. Span(W, u).end
  PROVE  \E m \in W : c \in m.start + 1 .. m.end
<1>. DEFINE later == {m \in Members(W, u) : c <= m.start}
            starts == {m.start : m \in later}
            end == [t \in Starts(W) |-> Span(W, t).end]
<1>1. SUFFICES ASSUME \A m \in W : c \notin m.start + 1 .. m.end PROVE FALSE
  OBVIOUS
<1>0. Apart(n, end, Starts(W))
  BY SpansApart
<1>2. /\ u \in Int /\ end[u] \in Int
      /\ \A m \in W : m.start \in Int /\ m.end \in Int
      /\ Starts(W) \subseteq Int
  BY <1>0 DEF AreMatches, IsMatch, Apart
<1>3. c \in Int /\ u < c /\ c <= Span(W, u).end
  BY <1>2
<1>4. \A m \in W : m.start < c => m.end < c
  BY <1>1, <1>2, <1>3
<1>5. later # {}
  <2>1. PICK m \in Members(W, u) : Span(W, u).end = m.end
    BY EndsAre
  <2>2. m \in W /\ ~(m.start < c)
    BY <1>2, <1>3, <1>4, <2>1, MembersAre
  <2>. QED
    BY <1>2, <1>3, <2>2
<1>6. starts # {} /\ starts \subseteq 0..n
  BY <1>5, MembersAre DEF AreMatches, IsMatch
<1>7. PICK s \in starts : \A x \in starts : s <= x
  <2>. HIDE DEF starts
  <2>. QED
    BY <1>6, RangeIsFinite, LeastNumber
<1>8. PICK k \in later : k.start = s
  BY <1>7
<1>9. k \in W /\ c <= k.start /\ \A t \in Starts(W) : t <= k.start => t <= u
  BY <1>8, MembersAre
<1>10. ASSUME NEW m \in W, m.start < k.start PROVE m.end <= k.start
  <2>1. PICK v \in Starts(W) :
          /\ v <= m.start /\ m \in Members(W, v)
          /\ \A t \in Starts(W) : t <= m.start => t <= v
    BY LastStart
  <2>2. v \in Int
    BY <1>2, <2>1
  <2>3. v <= u
    BY <1>2, <1>9, <1>10, <2>1, <2>2
  <2>4. CASE v < u
    <3>1. m.start < u
      BY <1>2, <1>3, <2>1, <2>2, <2>4
    <3>2. m.end <= u
      BY <3>1, StartsAre
    <3>3. m.end \in Int /\ k.start \in Int
      BY <1>2, <1>9
    <3>. QED
      BY <1>2, <1>3, <1>9, <3>2, <3>3
  <2>5. CASE v = u
    <3>1. m.start < c
      <4>1. m \notin later
        BY <1>2, <1>7, <1>8, <1>9, <1>10
      <4>. QED
        BY <1>2, <1>3, <2>1, <2>5, <4>1
    <3>. QED
      BY <1>2, <1>3, <1>4, <1>9, <3>1
  <2>. QED
    BY <1>2, <2>2, <2>3, <2>4, <2>5
<1>11. k.start \in Starts(W)
  BY <1>9, <1>10 DEF Starts, Opens
<1>. QED
  BY <1>2, <1>3, <1>9, <1>11

(* A span has the type of one of its matches.                              *)
LEMMA SpanTypes ==
  ASSUME NEW n \in Nat, NEW W, AreMatches(W, n), NEW u \in Starts(W)
  PROVE  Span(W, u).type \in Symbols
<1>. DEFINE ms == Members(W, u)
            widths == {Width(m) : m \in ms}
            wide(w) == {m \in ms : Width(m) = w}
            starts(w) == {m.start : m \in wide(w)}
            first(w, a) == {m \in wide(w) : m.start = a}
            patterns(w, a) == {m.pattern : m \in first(w, a)}
<1>1. /\ ms # {}
      /\ \A m \in ms : /\ m.start \in 0..n /\ Width(m) \in 0..n
                       /\ m.pattern \in 0..Len(Patterns)
                       /\ m.pattern \in DOMAIN Patterns
                       /\ m.type = Patterns[m.pattern]
  <2>1. ms # {} /\ \A m \in ms : IsMatch(m, n)
    BY MembersAre DEF AreMatches
  <2>2. \A m \in ms : Width(m) \in 0..n
    BY <2>1 DEF IsMatch, Width
  <2>. QED
    BY <2>1, <2>2, RedactionAssumption DEF IsMatch
<1>. HIDE DEF ms
<1>2. PICK w \in widths : \A x \in widths : x <= w
  <2>1. widths # {} /\ widths \subseteq 0..n
    BY <1>1
  <2>. HIDE DEF widths
  <2>. QED
    BY <2>1, RangeIsFinite, GreatestNumber
<1>3. PICK a \in starts(w) : \A x \in starts(w) : a <= x
  <2>1. starts(w) # {} /\ starts(w) \subseteq 0..n
    BY <1>1, <1>2
  <2>. HIDE DEF starts
  <2>. QED
    BY <2>1, RangeIsFinite, LeastNumber
<1>4. PICK p \in patterns(w, a) : \A x \in patterns(w, a) : p <= x
  <2>1. patterns(w, a) # {} /\ patterns(w, a) \subseteq 0..Len(Patterns)
    BY <1>1, <1>3
  <2>2. Len(Patterns) \in Nat
    BY RedactionAssumption
  <2>. HIDE DEF patterns
  <2>. QED
    BY <2>1, <2>2, RangeIsFinite, LeastNumber
<1>5. PICK m \in ms : Width(m) = w /\ m.start = a /\ m.pattern = p
  BY <1>4
<1>6. ASSUME NEW k \in ms PROVE ~Outranks(k, m)
  <2>1. /\ Width(k) \in Int /\ w \in Int /\ k.start \in Int /\ a \in Int
        /\ k.pattern \in Int /\ p \in Int
    BY <1>1, <1>5, RedactionAssumption
  <2>2. /\ Width(k) <= w
        /\ Width(k) = w => a <= k.start
        /\ Width(k) = w /\ k.start = a => p <= k.pattern
    BY <1>2, <1>3, <1>4
  <2>. QED
    BY <1>5, <2>1, <2>2 DEF Outranks
<1>7. \E m1 \in ms : \A k \in ms : ~Outranks(k, m1)
  BY <1>6
<1>8. (CHOOSE m1 \in ms : \A k \in ms : ~Outranks(k, m1)) \in ms
  BY <1>7
<1>9. Span(W, u).type = (CHOOSE m1 \in ms : \A k \in ms : ~Outranks(k, m1)).type
  BY DEF Span, ms
<1>. QED
  BY <1>1, <1>8, <1>9 DEF Symbols

-----------------------------------------------------------------------------
(* stripInvisible() keeps the order of the characters it leaves.           *)
InOrder(kept, s) ==
  /\ kept \in Seq(s)
  /\ \A i, j \in DOMAIN kept : i < j => kept[i] < kept[j]

LEMMA AppendKeepsOrder ==
  ASSUME NEW s, s \subseteq Int, NEW x \in s, \A y \in s : y <= x,
         NEW kept, InOrder(kept, s \ {x})
  PROVE  InOrder(kept, s) /\ InOrder(Append(kept, x), s)
<1>1. kept \in Seq(s \ {x}) /\ kept \in Seq(s)
  BY DEF InOrder
<1>2. \A i \in DOMAIN kept : kept[i] \in s \ {x}
  BY <1>1
<1>3. ASSUME NEW i \in DOMAIN kept PROVE kept[i] < x
  <2>1. PICK y \in s : y = kept[i] /\ y # x
    BY <1>2
  <2>2. y <= x /\ y \in Int /\ x \in Int
    OBVIOUS
  <2>. QED
    BY <2>1, <2>2
<1>4. /\ Append(kept, x) \in Seq(s) /\ Len(kept) \in Nat
      /\ DOMAIN kept = 1..Len(kept)
      /\ DOMAIN Append(kept, x) = 1..Len(kept) + 1
      /\ \A i \in 1..Len(kept) : Append(kept, x)[i] = kept[i]
      /\ Append(kept, x)[Len(kept) + 1] = x
  BY <1>1
<1>5. ASSUME NEW i \in DOMAIN Append(kept, x), NEW j \in DOMAIN Append(kept, x), i < j
      PROVE  Append(kept, x)[i] < Append(kept, x)[j]
  <2>1. i \in 1..Len(kept)
    BY <1>4, <1>5
  <2>2. CASE j = Len(kept) + 1
    BY <1>3, <1>4, <2>1, <2>2
  <2>3. CASE j \in 1..Len(kept)
    BY <1>4, <1>5, <2>1, <2>3 DEF InOrder
  <2>. QED
    BY <1>4, <2>2, <2>3
<1>. QED
  BY <1>1, <1>4, <1>5 DEF InOrder

LEMMA StrippedInOrder ==
  ASSUME NEW text, text.length \in Nat
  PROVE  InOrder(StripInvisible(text), 1..text.length)
<1>. DEFINE U == 1..text.length
            R == Seq(U)
            step == [i \in U |-> [kept \in R |->
                       IF i \in text.invisible THEN kept ELSE Append(kept, i)]]
            pick == [s \in SUBSET U |-> Max(s)]
<1>1. U \subseteq Int /\ IsFiniteSet(U)
  BY FS_Interval
<1>2. \A s \in SUBSET U : s # {} => Max(s) \in s /\ \A y \in s : y <= Max(s)
  BY <1>1, FS_Subset, GreatestNumber
<1>3. Chars(text) = [i \in U |-> i] /\ DOMAIN Chars(text) = U
  BY DEF Chars
<1>4. InOrder(Chars(text), U)
  BY <1>3 DEF InOrder
<1>5. Picks(pick, U)
  BY <1>2 DEF Picks
<1>6. /\ \A i \in U : \A kept \in R :
           step[i][kept] = IF i \in text.invisible THEN kept ELSE Append(kept, i)
      /\ \A s \in SUBSET U : pick[s] = Max(s)
  OBVIOUS
<1>7. \A i \in U : \A kept \in R : step[i][kept] \in R
  <2>1. \A i \in U : \A kept \in R : Append(kept, i) \in R
    OBVIOUS
  <2>. HIDE DEF R, step
  <2>. QED
    BY <1>6, <2>1
<1>8. <<>> \in R
  OBVIOUS
<1>. HIDE DEF R, step, pick
<1>9. PICK f : Folds(step, pick, <<>>, f, U)
  <2>. HIDE DEF U
  <2>. QED
    BY <1>1, <1>5, FoldsExist
<1>10. \A s \in SUBSET U : f[s] \in R
  <2>. HIDE DEF U
  <2>. QED
    BY <1>1, <1>5, <1>7, <1>8, <1>9, FoldsStay
<1>11. f = [s \in SUBSET U |->
              IF s = {} THEN <<>>
              ELSE IF Chars(text)[Max(s)] \in text.invisible THEN f[s \ {Max(s)}]
                   ELSE Append(f[s \ {Max(s)}], Chars(text)[Max(s)])]
  <2>1. ASSUME NEW s \in SUBSET U, s # {}
        PROVE  f[s] = IF Chars(text)[Max(s)] \in text.invisible THEN f[s \ {Max(s)}]
                      ELSE Append(f[s \ {Max(s)}], Chars(text)[Max(s)])
    <3>1. PICK x \in U : x = Max(s)
      BY <1>2, <2>1
    <3>2. f[s] = step[x][f[s \ {x}]]
      BY <1>6, <1>9, <2>1, <3>1, FoldsAt
    <3>3. f[s \ {x}] \in R
      BY <1>10
    <3>. QED
      BY <1>3, <1>6, <3>1, <3>2, <3>3
  <2>2. f[{}] = <<>>
    BY <1>9, FoldsUnfolds
  <2>3. f = [s \in SUBSET U |-> f[s]]
    BY <1>9 DEF Folds
  <2>. HIDE DEF U
  <2>. QED
    BY <2>1, <2>2, <2>3
<1>12. CASE text.length > MaxNormalizeLength
  BY <1>4, <1>12 DEF StripInvisible
<1>13. CASE ~(text.length > MaxNormalizeLength)
  <2>. DEFINE fold == FoldLeft(LAMBDA kept, c : IF c \in text.invisible THEN kept
                                                ELSE Append(kept, c), <<>>, Chars(text))
  <2>1. PICK h :
          /\ h = [s \in SUBSET U |->
                    IF s = {} THEN <<>>
                    ELSE IF Chars(text)[Max(s)] \in text.invisible
                         THEN h[s \ {Max(s)}]
                         ELSE Append(h[s \ {Max(s)}], Chars(text)[Max(s)])]
          /\ fold = h[U]
    <3>. HIDE DEF U
    <3>. QED
      BY <1>3, <1>11, Zenon DEF FoldLeft, MapThenFoldSet
  <2>. DEFINE Good == {s \in SUBSET U : InOrder(h[s], s)}
  <2>2. {} \in Good
    <3>1. h[{}] = <<>>
      <4>. HIDE DEF U
      <4>. QED
        BY <2>1
    <3>2. InOrder(<<>>, {})
      BY DEF InOrder
    <3>. QED
      BY <3>1, <3>2
  <2>3. ASSUME NEW s \in SUBSET U, s # {}
        PROVE  \E x \in s : s \ {x} \in Good => s \in Good
    <3>1. PICK x \in s : x = Max(s) /\ \A y \in s : y <= x
      BY <1>2, <2>3
    <3>2. h[s] = IF x \in text.invisible THEN h[s \ {x}] ELSE Append(h[s \ {x}], x)
      <4>1. Chars(text)[x] = x
        BY <1>3
      <4>. HIDE DEF U
      <4>. QED
        BY <2>1, <2>3, <3>1, <4>1
    <3>3. ASSUME s \ {x} \in Good PROVE s \in Good
      <4>1. InOrder(h[s \ {x}], s \ {x})
        BY <3>3
      <4>2. s \subseteq Int
        BY <1>1
      <4>3. InOrder(h[s \ {x}], s) /\ InOrder(Append(h[s \ {x}], x), s)
        BY <3>1, <4>1, <4>2, AppendKeepsOrder
      <4>. QED
        BY <3>2, <4>3
    <3>. QED
      BY <3>3
  <2>4. U \in Good
    <3>1. SUBSET U \subseteq Good
      <4>. HIDE DEF U, Good
      <4>. QED
        BY <1>1, <2>2, <2>3, ByRemoving
    <3>. QED
      BY <3>1
  <2>5. StripInvisible(text) = fold
    BY <1>13 DEF StripInvisible
  <2>. QED
    BY <2>1, <2>4, <2>5
<1>. QED
  BY <1>12, <1>13

(* What the patterns find are matches, and they cover what the hits do.    *)
LEMMA MatchesAre ==
  ASSUME NEW text, text.length \in Nat, NEW hits \in PossibleHits(text), NEW h \in hits
  PROVE  /\ IsMatch(Match(text, h), text.length)
         /\ CoveredBy(text, h) = Match(text, h).start + 1 .. Match(text, h).end
<1>. DEFINE map == StripInvisible(text)
            n == Len(Scanned(text))
<1>1. map \in Seq(1..text.length) /\ Len(map) \in Nat /\ DOMAIN map = 1..Len(map)
  BY StrippedInOrder DEF InOrder
<1>2. n \in Nat /\ n <= Len(map)
  <2>1. Scanned(text) = SubSeq(map, 1, Smaller(Len(map), MaxPiiScanLength))
    BY DEF Scanned
  <2>0. Smaller(Len(map), MaxPiiScanLength) \in Nat
        /\ Smaller(Len(map), MaxPiiScanLength) <= Len(map)
    <3>1. Len(map) \in Nat /\ MaxPiiScanLength \in Nat
      BY <1>1, RedactionAssumption
    <3>. HIDE DEF map
    <3>. QED
      BY <3>1 DEF Smaller
  <2>2. PICK k \in Nat : k = Smaller(Len(map), MaxPiiScanLength) /\ k <= Len(map)
    BY <2>0
  <2>3. Len(SubSeq(map, 1, k)) = k
    <3>. HIDE DEF map
    <3>. QED
      BY <1>1, <2>2
  <2>. QED
    BY <2>1, <2>2, <2>3
<1>3. h.pattern \in DOMAIN Patterns /\ h.start \in 0..n /\ h.end \in 0..n /\ h.start < h.end
  <2>. DEFINE hit == {g \in [pattern : DOMAIN Patterns, start : 0..n, end : 0..n] :
                        g.start < g.end}
  <2>1. hits \in {{}} \cup {ToSet(f) : f \in [1..text.maxHits -> hit]}
    BY DEF PossibleHits
  <2>. HIDE DEF hit
  <2>2. PICK f \in [1..text.maxHits -> hit] : hits = ToSet(f)
    BY <2>1
  <2>3. h \in hit
    BY <2>2 DEF ToSet
  <2>. QED
    BY <2>3 DEF hit
<1>. HIDE DEF n
<1>4. PICK a \in DOMAIN map, b \in DOMAIN map : a = h.start + 1 /\ b = h.end /\ a <= b
  BY <1>1, <1>2, <1>3
<1>5. map[a] \in 1..text.length /\ map[b] \in 1..text.length /\ map[a] <= map[b]
  <2>1. map[a] \in 1..text.length /\ map[b] \in 1..text.length
    <3>. HIDE DEF map
    <3>. QED
      BY <1>1
  <2>2. a < b => map[a] < map[b]
    BY StrippedInOrder DEF InOrder
  <2>3. a \in Int /\ b \in Int
    BY <1>1
  <2>. HIDE DEF map
  <2>4. map[a] \in Int /\ map[b] \in Int
    BY <2>1
  <2>. QED
    BY <1>4, <2>1, <2>2, <2>3, <2>4
<1>6. /\ Match(text, h).start = map[a] - 1 /\ Match(text, h).end = map[b]
      /\ Match(text, h).pattern = h.pattern
      /\ Match(text, h).type = Patterns[h.pattern]
      /\ CoveredBy(text, h) = map[a] .. map[b]
  BY <1>4 DEF Match, CoveredBy
<1>. HIDE DEF map
<1>7. map[a] - 1 + 1 = map[a]
  BY <1>5
<1>. QED
  BY <1>3, <1>5, <1>6, <1>7 DEF IsMatch

-----------------------------------------------------------------------------
(* Each round replaces the first span of those still to be looked at, the  *)
(* later ones having been replaced: the loop of redactPii() as a whole.    *)
LEMMA RedactPiiIs ==
  ASSUME NEW how, Covers(how), NEW text, text.length \in Nat,
         NEW matches, AreMatches(matches, text.length),
         NEW W, W = {m \in matches : Wanted(m, how)},
         NEW end, end = [u \in Starts(W) |-> Span(W, u).end]
  PROVE  Redone(how, text.length, end, Starts(W),
                RedactPii(Chars(text), matches, how))
<1>. DEFINE n == text.length
            U == Starts(W)
            R == Seq((1..n) \cup Symbols)
            step == [u \in U |-> [r \in R |->
                       Substitute(Chars(text), Span(W, u), how, r)]]
            pick == [s \in SUBSET U |-> Min(s)]
<1>1. AreMatches(W, n) /\ n \in Nat
  BY DEF AreMatches
<1>2. U \subseteq Int /\ IsFiniteSet(U) /\ Apart(n, end, U)
  BY <1>1, StartsAre, RangeIsFinite, SpansApart
<1>3. \A s \in SUBSET U : s # {} => Min(s) \in s /\ \A y \in s : Min(s) <= y
  BY <1>2, FS_Subset, LeastIsMin
<1>4. Chars(text) = [i \in 1..n |-> i]
  BY DEF Chars
<1>5. Redone(how, n, end, {}, Chars(text))
  <2>1. /\ Chars(text) \in Seq((1..n) \cup Symbols) /\ Len(Chars(text)) = n
        /\ DOMAIN Chars(text) = 1..n /\ \A i \in 1..n : Chars(text)[i] = i
    BY <1>1, <1>4
  <2>. HIDE DEF n
  <2>. QED
    BY <1>1, <2>1 DEF Redone
<1>6. \A u \in U : /\ Span(W, u).start = u /\ Span(W, u).end = end[u]
                   /\ Span(W, u).type \in Symbols
  <2>1. \A u \in U : Span(W, u).start = u /\ Span(W, u).end = end[u]
    BY DEF Span
  <2>2. \A u \in U : Span(W, u).type \in Symbols
    BY <1>1, SpanTypes
  <2>. QED
    BY <2>1, <2>2
<1>7. Picks(pick, U)
  BY <1>3 DEF Picks
<1>8. /\ \A u \in U : \A r \in R :
           step[u][r] = Substitute(Chars(text), Span(W, u), how, r)
      /\ \A s \in SUBSET U : pick[s] = Min(s)
  OBVIOUS
<1>. HIDE DEF n, U, R, step, pick
(* One round.                                                              *)
<1>9. ASSUME NEW s \in SUBSET U, NEW x \in s, x = Min(s), NEW r,
             Redone(how, n, end, s \ {x}, r)
      PROVE  /\ r \in R
             /\ Redone(how, n, end, s, Substitute(Chars(text), Span(W, x), how, r))
  <2>1. Apart(n, end, s) /\ \A u \in s : x <= u
    <3>1. s # {}
      BY <1>9
    <3>. QED
      BY <1>2, <1>3, <1>9, <3>1 DEF Apart
  <2>2. r \in R
    BY <1>9 DEF Redone, R
  <2>3. PICK span : span = Span(W, x)
    OBVIOUS
  <2>4. span.start = x /\ span.end = end[x] /\ span.type \in Symbols
    BY <1>6, <1>9, <2>3
  <2>5. Redone(how, n, end, s, Substitute(Chars(text), span, how, r))
    BY <1>1, <1>4, <1>9, <2>1, <2>4, SubstituteKeeps
  <2>. QED
    BY <2>2, <2>3, <2>5
<1>10. PICK f : Folds(step, pick, Chars(text), f, U)
  BY <1>2, <1>7, FoldsExist
<1>11. \A s \in SUBSET U : Redone(how, n, end, s, f[s])
  <2>. DEFINE Good == {s \in SUBSET U : Redone(how, n, end, s, f[s])}
  <2>1. {} \in Good
    BY <1>5, <1>10, FoldsUnfolds
  <2>2. ASSUME NEW s \in SUBSET U, s # {}
        PROVE  \E x \in s : s \ {x} \in Good => s \in Good
    <3>1. PICK x \in s : x = Min(s)
      BY <1>3, <2>2
    <3>2. f[s] = step[x][f[s \ {x}]]
      BY <1>8, <1>10, <2>2, <3>1, FoldsAt
    <3>3. ASSUME s \ {x} \in Good PROVE s \in Good
      <4>1. Redone(how, n, end, s \ {x}, f[s \ {x}])
        BY <3>3
      <4>2. /\ f[s \ {x}] \in R
            /\ Redone(how, n, end, s,
                      Substitute(Chars(text), Span(W, x), how, f[s \ {x}]))
        BY <1>9, <3>1, <4>1
      <4>. QED
        BY <1>8, <3>2, <4>2
    <3>. QED
      BY <3>3
  <2>3. SUBSET U \subseteq Good
    <3>. HIDE DEF Good
    <3>. QED
      BY <1>2, <2>1, <2>2, ByRemoving
  <2>. QED
    BY <2>3
<1>12. f = [s \in SUBSET U |->
              IF s = {} THEN Chars(text)
              ELSE Substitute(Chars(text), Span(W, Min(s)), how, f[s \ {Min(s)}])]
  <2>1. ASSUME NEW s \in SUBSET U, s # {}
        PROVE  f[s] = Substitute(Chars(text), Span(W, Min(s)), how, f[s \ {Min(s)}])
    <3>1. PICK x \in s : x = Min(s)
      BY <1>3, <2>1
    <3>2. f[s] = step[x][f[s \ {x}]]
      BY <1>8, <1>10, <2>1, <3>1, FoldsAt
    <3>3. f[s \ {x}] \in R
      BY <1>9, <1>11, <3>1
    <3>. QED
      BY <1>8, <3>1, <3>2, <3>3
  <2>2. f[{}] = Chars(text)
    BY <1>10, FoldsUnfolds
  <2>3. f = [s \in SUBSET U |-> f[s]]
    BY <1>10 DEF Folds
  <2>. QED
    BY <2>1, <2>2, <2>3
<1>13. PICK h :
         /\ h = [s \in SUBSET U |->
                  IF s = {} THEN Chars(text)
                  ELSE Substitute(Chars(text), Span(W, Min(s)), how,
                                  h[s \ {Min(s)}])]
         /\ RedactPii(Chars(text), matches, how) = h[U]
  BY <1>12, Zenon DEF RedactPii, MapThenFoldSet, U
<1>. DEFINE Good == {s \in SUBSET U : Redone(how, n, end, s, h[s])}
<1>14. {} \in Good
  BY <1>5, <1>13
<1>15. ASSUME NEW s \in SUBSET U, s # {}
       PROVE  \E x \in s : s \ {x} \in Good => s \in Good
  <2>1. PICK x \in s : x = Min(s)
    BY <1>3, <1>15
  <2>2. h[s] = Substitute(Chars(text), Span(W, x), how, h[s \ {x}])
    BY <1>13, <1>15, <2>1
  <2>3. s \ {x} \in Good => s \in Good
    BY <1>9, <2>1, <2>2
  <2>. QED
    BY <2>3
<1>16. SUBSET U \subseteq Good
  <2>. HIDE DEF Good
  <2>. QED
    BY <1>2, <1>14, <1>15, ByRemoving
<1>17. U \in Good
  BY <1>16
<1>. QED
  BY <1>13, <1>17 DEF U, n

-----------------------------------------------------------------------------
(* What is detected, and what of it is wanted, as matches.                 *)
WantedMatches(text, hits, how) == {m \in DetectPii(text, hits) : Wanted(m, how)}

AreWanted(text, hits, how, W) ==
  /\ AreMatches(DetectPii(text, hits), text.length)
  /\ AreMatches(W, text.length)
  /\ \A h \in WantedHits(hits, how) : \E m \in W :
       CoveredBy(text, h) = m.start + 1 .. m.end
  /\ \A m \in W : \E h \in WantedHits(hits, how) :
       CoveredBy(text, h) = m.start + 1 .. m.end

LEMMA WantedAre ==
  ASSUME NEW how, NEW text, text.length \in Nat, NEW hits \in PossibleHits(text)
  PROVE  AreWanted(text, hits, how, WantedMatches(text, hits, how))
<1>. DEFINE W == WantedMatches(text, hits, how)
<1>1. \A h \in hits :
        /\ IsMatch(Match(text, h), text.length)
        /\ Match(text, h).type = Patterns[h.pattern]
        /\ CoveredBy(text, h) = Match(text, h).start + 1 .. Match(text, h).end
  BY MatchesAre DEF Match
<1>2. \A m : m \in DetectPii(text, hits) <=> \E h \in hits : m = Match(text, h)
  BY DEF DetectPii
<1>3. AreMatches(DetectPii(text, hits), text.length)
  BY <1>1, <1>2 DEF AreMatches
<1>4. \A h \in WantedHits(hits, how) : h \in hits /\ Match(text, h) \in W
  BY <1>1, <1>2 DEF WantedMatches, WantedHits, Wanted, IsMatch
<1>5. \A m \in W : \E h \in WantedHits(hits, how) : m = Match(text, h)
  BY <1>1, <1>2 DEF WantedMatches, WantedHits, Wanted
<1>. QED
  BY <1>1, <1>3, <1>4, <1>5 DEF AreWanted, WantedMatches, AreMatches

(* A place no wanted match goes across is an end of what is covered in one *)
(* piece.                                                                  *)
LEMMA EndsAreSeen ==
  ASSUME NEW how, how.keep \in Nat,
         NEW text, NEW hits, NEW n \in Nat, NEW W, AreMatches(W, n),
         \A h \in WantedHits(hits, how) : \E m \in W :
           CoveredBy(text, h) = m.start + 1 .. m.end,
         NEW g \in Nat, \A m \in W : ~(m.start < g /\ g < m.end),
         NEW c \in Nat, (c <= g /\ c > g - how.keep) \/ (c > g /\ c <= g + how.keep)
  PROVE  NearAnEnd(text, hits, how, c)
<1>1. ~InsideGap(text, hits, how, g)
  <2>. SUFFICES ASSUME NEW h \in WantedHits(hits, how),
                       {g, g + 1} \subseteq CoveredBy(text, h)
                PROVE  FALSE
    BY DEF InsideGap
  <2>1. PICK m \in W : CoveredBy(text, h) = m.start + 1 .. m.end
    OBVIOUS
  <2>2. m.start \in Int /\ m.end \in Int
    BY DEF AreMatches, IsMatch
  <2>. QED
    BY <2>1, <2>2
<1>2. CASE c <= g /\ c > g - how.keep
  <2>1. g - c \in 0..how.keep - 1 /\ c + (g - c) = g
    BY <1>2
  <2>. QED
    BY <1>1, <2>1, Zenon DEF NearAnEnd
<1>3. CASE c > g /\ c <= g + how.keep
  <2>1. c - 1 - g \in 0..how.keep - 1 /\ c - 1 - (c - 1 - g) = g
    BY <1>3
  <2>. QED
    BY <1>1, <2>1, Zenon DEF NearAnEnd
<1>. QED
  BY <1>2, <1>3

(* What is left of a text that was redacted.                               *)
LEMMA WhatIsLeft ==
  ASSUME NEW how, Covers(how), NEW text, text.length \in Nat,
         NEW hits \in PossibleHits(text),
         NEW content, content = RedactPii(Chars(text), DetectPii(text, hits), how)
  PROVE  /\ \A c \in Covered(text, hits, how) :
              c \in ToSet(content) =>
                how.mode = "mask" /\ NearAnEnd(text, hits, how, c)
         /\ 1..text.length \ Covered(text, hits, how) \subseteq ToSet(content)
         /\ \A i, j \in DOMAIN content :
              /\ i < j /\ content[i] \in Nat /\ content[j] \in Nat
              => content[i] < content[j]
         /\ how.mode = "mask" => Len(content) = text.length
<1>. DEFINE n == text.length
<1>1. PICK W : W = WantedMatches(text, hits, how)
  OBVIOUS
<1>2. /\ AreMatches(DetectPii(text, hits), n) /\ AreMatches(W, n)
      /\ \A h \in WantedHits(hits, how) : \E m \in W :
           CoveredBy(text, h) = m.start + 1 .. m.end
      /\ \A m \in W : \E h \in WantedHits(hits, how) :
           CoveredBy(text, h) = m.start + 1 .. m.end
  <2>1. AreWanted(text, hits, how, W)
    BY <1>1, WantedAre
  <2>. QED
    BY <2>1 DEF AreWanted
<1>3. PICK end : end = [u \in Starts(W) |-> Span(W, u).end]
  OBVIOUS
<1>4. Redone(how, n, end, Starts(W), content)
  BY <1>1, <1>2, <1>3, RedactPiiIs DEF WantedMatches
<1>5. Apart(n, end, Starts(W))
  BY <1>2, <1>3, SpansApart
<1>6. \A m \in W : m.start \in Nat /\ m.end \in Nat
  BY <1>2 DEF AreMatches, IsMatch
<1>7. ASSUME NEW c \in Covered(text, hits, how), c \in ToSet(content)
      PROVE  how.mode = "mask" /\ NearAnEnd(text, hits, how, c)
  <2>1. PICK m \in W : c \in m.start + 1 .. m.end
    BY <1>2 DEF Covered
  <2>2. PICK u \in Starts(W) : u <= m.start /\ m.end <= end[u]
    BY <1>2, <1>3, MatchesInSpans
  <2>3. u \in Nat /\ end[u] \in Nat /\ c \in Nat
    BY <1>5, <1>6, <2>1 DEF Apart
  <2>4. c \in u + 1 .. end[u] /\ u < c /\ c <= end[u]
    BY <1>6, <2>1, <2>2, <2>3
  <2>5. PICK i \in DOMAIN content : content[i] = c
    BY <1>7 DEF ToSet
  <2>6. MayStay(how, u, end[u], c)
    BY <1>4, <2>4, <2>5 DEF Redone
  <2>7. \A k \in W : /\ ~(k.start < u /\ u < k.end)
                     /\ ~(k.start < end[u] /\ end[u] < k.end)
    BY <1>2, <1>3, NothingStraddles
  <2>8. how.keep \in Nat
    BY DEF Covers, IsRedaction
  <2>9. NearAnEnd(text, hits, how, c)
    <3>1. CASE c <= u + how.keep
      BY <1>2, <2>3, <2>4, <2>7, <2>8, <3>1, EndsAreSeen
    <3>2. CASE c > end[u] - how.keep
      BY <1>2, <2>3, <2>4, <2>7, <2>8, <3>2, EndsAreSeen
    <3>. QED
      BY <2>6, <3>1, <3>2 DEF MayStay
  <2>. QED
    BY <2>6, <2>9 DEF MayStay
<1>8. ASSUME NEW c \in 1..n, c \notin Covered(text, hits, how)
      PROVE  c \in ToSet(content)
  <2>1. \A m \in W : c \notin m.start + 1 .. m.end
    BY <1>2, <1>8 DEF Covered
  <2>2. \A u \in Starts(W) : c \notin u + 1 .. end[u]
    BY <1>2, <1>3, <2>1, SpansAreCovered
  <2>3. \E i \in DOMAIN content : content[i] = c
    BY <1>4, <2>2 DEF Redone
  <2>. QED
    BY <2>3 DEF ToSet
<1>9. /\ \A i, j \in DOMAIN content :
           i < j /\ content[i] \in Nat /\ content[j] \in Nat => content[i] < content[j]
      /\ how.mode = "mask" => Len(content) = n
  BY <1>4 DEF Redone
<1>. QED
  BY <1>7, <1>8, <1>9

-----------------------------------------------------------------------------
(* A call that has been analysed carries the redaction of its text.        *)
Redacts ==
  /\ \E j \in Jobs : job.how = j.how
  /\ job.text \in Texts /\ job.hits \in PossibleHits(job.text)
  /\ Analysed => call.transformabl.content
                   = RedactPii(Chars(job.text), DetectPii(job.text, job.hits), job.how)

LEMMA RedactsInit == GovernedInit => Redacts
<1> SUFFICES ASSUME GovernedInit PROVE Redacts
  OBVIOUS
<1>1. PICK j \in Jobs, text \in Texts : \E hits \in PossibleHits(text) :
        job = Over([text |-> text, hits |-> hits], j)
  BY Zenon DEF GovernedInit
<1>2. PICK hits \in PossibleHits(text) : job = Over([text |-> text, hits |-> hits], j)
  BY <1>1
<1>3. job.how = j.how /\ job.text = text /\ job.hits = hits
  BY <1>2, GovernedAssumption DEF Over
<1>4. call.transformabl = None
  BY Zenon DEF GovernedInit, Received
<1> QED BY <1>2, <1>3, <1>4 DEF Redacts, Analysed

LEMMA RedactsNext ==
  CallInv /\ Redacts /\ [GovernedNext]_governedVars => Redacts'
<1> SUFFICES ASSUME CallInv, Redacts, [GovernedNext]_governedVars PROVE Redacts'
  OBVIOUS
<1>1. Fields
  BY DEF CallInv
<1>2. ASSUME UNCHANGED job, call'.transformabl = call.transformabl
      PROVE  Redacts'
  BY <1>2 DEF Redacts, Analysed
<1>3. CASE Transform
  <2> DEFINE content == RedactPii(Chars(job.text), DetectPii(job.text, job.hits), job.how)
             result == TransformResult(job.text, DetectPii(job.text, job.hits), content,
                                       job.classify)
  <2>1. UNCHANGED job
    BY <1>3 DEF Transform
  <2>2. \/ call' = [Ended(403) EXCEPT !.transformabl = result]
        \/ call' = [call EXCEPT !.step = "validate", !.transformabl = result,
                                !.body = BodyAfter(result)]
    BY Zenon, <1>3 DEF Transform
  <2>3. result.content = content
    BY DEF TransformResult
  <2> HIDE DEF content, result
  <2>4. call'.transformabl = result
    <3>1. CASE call' = [Ended(403) EXCEPT !.transformabl = result]
      BY <1>1, <3>1, EndedIs
    <3>2. CASE call' = [call EXCEPT !.step = "validate", !.transformabl = result,
                                    !.body = BodyAfter(result)]
      BY <1>1, <3>2 DEF Fields
    <3> QED BY <2>2, <3>1, <3>2
  <2> QED BY <2>1, <2>3, <2>4 DEF Redacts, Analysed, content
<1>4. CASE Validate
  <2>1. call' = Goto("resolve") \/ \E outcome \in {403, 500} : call' = Ended(outcome)
    <3>1. Decision(PolicyRequest, job.options) \in {"throw", "deny", "allow"}
      BY DEF Decision
    <3> QED BY <1>4, <3>1 DEF Validate
  <2>2. UNCHANGED job
    BY <1>4 DEF Validate
  <2> QED BY <1>1, <1>2, <2>1, <2>2, EndedIs, GotoIs
<1>5. CASE Resolve
  <2> DEFINE step == IF ResolveProvider.isName THEN "lookup" ELSE "fetch"
             headers == Headers(ResolveProvider, ResolveAuth(ResolveProvider.auth))
  <2>1. \/ \E outcome : call' = Ended(outcome)
        \/ call' = [call EXCEPT !.step = step, !.headers = headers]
    BY Zenon, <1>5 DEF Resolve
  <2>2. UNCHANGED job
    BY <1>5 DEF Resolve
  <2> HIDE DEF step, headers
  <2>3. CASE \E outcome : call' = Ended(outcome)
    BY <1>1, <1>2, <2>2, <2>3, EndedIs
  <2>4. CASE call' = [call EXCEPT !.step = step, !.headers = headers]
    <3>1. call'.transformabl = call.transformabl
      BY <1>1, <2>4 DEF Fields
    <3> QED BY <1>2, <2>2, <3>1
  <2> QED BY <2>1, <2>3, <2>4
<1>6. CASE Lookup \/ Headed \/ Unreachable \/ TimeOut \/ Bodied
  <2>1. (\E step : call' = Goto(step)) \/ (\E outcome : call' = Ended(outcome))
    BY <1>6 DEF Lookup, Headed, Unreachable, TimeOut, Bodied
  <2>2. UNCHANGED job
    BY <1>6 DEF Lookup, Headed, Unreachable, TimeOut, Bodied
  <2> QED BY <1>1, <1>2, <2>1, <2>2, EndedIs, GotoIs
<1>7. CASE Rebind \/ UNCHANGED governedVars
  BY <1>2, <1>7 DEF Rebind, governedVars
<1> QED BY <1>3, <1>4, <1>5, <1>6, <1>7 DEF GovernedNext

LEMMA RedactsHolds == GovernedSpec => []Redacts
<1>1. GovernedInit => Redacts
  BY RedactsInit
<1>2. CallInv /\ CallInv' /\ Redacts /\ [GovernedNext]_governedVars => Redacts'
  BY RedactsNext
<1> QED BY <1>1, <1>2, CallInvHolds, PTL DEF GovernedSpec

(* Of what a wanted hit covers nothing is left in the redacted text, or in *)
(* mask mode at most maskKeep characters from each end of what is masked   *)
(* in one piece (detectPii(), redactPii()), unless the call's maskKeep is  *)
(* 0.                                                                      *)
THEOREM NothingDetectedStays == GovernedSpec => [](Covers(job.how) => RedactionCovers)
<1>1. Redacts => (Covers(job.how) => RedactionCovers)
  <2> SUFFICES ASSUME Redacts, Covers(job.how), Analysed PROVE RedactionCovers
    BY DEF RedactionCovers
  <2>1. job.text.length \in Nat
    BY GovernedAssumption DEF Redacts
  <2> QED BY <2>1, WhatIsLeft DEF Redacts, RedactionCovers
<1> QED BY <1>1, RedactsHolds, PTL

(* And redaction takes nothing else: the characters no wanted hit covers   *)
(* are all there, in their order, and masking moves none (redactPii()).    *)
THEOREM NothingElseGoes == GovernedSpec => [](Covers(job.how) => RedactionIsExact)
<1>1. Redacts => (Covers(job.how) => RedactionIsExact)
  <2> SUFFICES ASSUME Redacts, Covers(job.how), Analysed PROVE RedactionIsExact
    BY DEF RedactionIsExact
  <2> DEFINE content == call.transformabl.content
             free == 1..job.text.length \ Covered(job.text, job.hits, job.how)
  <2>1. job.text.length \in Nat
    BY GovernedAssumption DEF Redacts
  <2>2. /\ free \subseteq ToSet(content)
        /\ \A i, j \in DOMAIN content :
             /\ i < j /\ content[i] \in Nat /\ content[j] \in Nat
             => content[i] < content[j]
        /\ job.how.mode = "mask" => Len(content) = job.text.length
    BY <2>1, WhatIsLeft DEF Redacts
  <2>3. free \subseteq Nat
    BY <2>1
  <2> HIDE DEF free
  <2>4. \A i, j \in DOMAIN content :
          {content[i], content[j]} \subseteq free /\ i < j => content[i] < content[j]
    BY <2>2, <2>3
  <2> QED BY <2>2, <2>4 DEF RedactionIsExact, free
<1> QED BY <1>1, RedactsHolds, PTL

-----------------------------------------------------------------------------
(***************************************************************************)
(* The tool gateway signs calls for the entitled only, and loses a request *)
(* only when a tool called by MCP fails.                                   *)
(***************************************************************************)
(* What makes a good answer to a request right.                            *)
Justified(q, made) ==
  \/ made # Nil
  \/ Kind(q) = "health"
  \/ Kind(q) = "proxy" /\ q.token \in Subjects
  \/ q.rpc = "initialize"
  \/ q.rpc = "tools/list" /\ q.token \in Subjects \cup {Nobody}

(* What makes a signed call right.                                         *)
MayBeCalled(q, made) ==
  /\ made.uid = q.token /\ made.uid \in Subjects
  /\ made.tool = q.tool /\ made.tool \in Tools \cap LegalNames
  /\ Needs[made.tool] \subseteq Granted[made.uid]

(* What is known of a request whose token is being verified.               *)
Verifiable(q) ==
  /\ Kind(q) \in {"mcp", "rest", "proxy"}
  /\ Kind(q) = "mcp" =>
       \/ q.rpc = "tools/list"
       \/ q.tool \in Tools \cap LegalNames

(* A request that has come where it is by the gateway's rules.             *)
Regular(r) ==
  /\ r.signed # Nil => MayBeCalled(r.asked, r.signed)
  /\ r.step = "verify" => Verifiable(r.asked)
  /\ r.step \in {"headers", "body"} => Justified(r.asked, r.signed)
  /\ r.step = "body" /\ Kind(r.asked) = "proxy" => r.status # Nil
  /\ r.step = "answered" /\ r.status \in {200, 503} =>
       Justified(r.asked, r.signed)
  /\ r.step = "answered" => r.status # Nil
  /\ r.timer => Kind(r.asked) = "proxy"

Served == {r \in Requests : Regular(r)}

(* The inductive invariant: every slot has such a request or none.         *)
GatewayInv ==
  /\ sockets \in [Sockets -> Served \cup {Nil}]
  /\ deaths \in 0..MaxDeaths

-----------------------------------------------------------------------------
LEMMA NotNil == Nil \notin Served
BY GatewayAssumption DEF Served

(* A served request is in its slot.                                        *)
LEMMA InSlot ==
  ASSUME GatewayInv, NEW s \in Sockets, sockets[s] # Nil
  PROVE  sockets[s] \in Served
BY DEF GatewayInv

(* Taking a turn keeps the invariant.                                      *)
LEMMA TurnKeeps ==
  ASSUME GatewayInv, NEW s \in Sockets, NEW r \in Served \cup {Nil}, Turn(s, r)
  PROVE  GatewayInv'
BY DEF GatewayInv, Turn

LEMMA KindOf ==
  ASSUME NEW q
  PROVE  Kind(q) \in {"proxy", "preflight", "elsewhere", "mcp", "health",
                      "other-method", "rest"}
BY DEF Kind

(* An answer without data can always be given, and one with data when it   *)
(* is justified.                                                           *)
LEMMA SendServes ==
  ASSUME NEW r \in Served, NEW status \in 200..599,
         status \in {200, 503} => Justified(r.asked, r.signed)
  PROVE  Send(r, status) \in Served
<1> DEFINE a == Send(r, status)
<1>1. r \in Requests /\ Regular(r)
  BY DEF Served
<1>2. a \in Requests
  BY <1>1 DEF Requests, RequestSteps, Send
<1>3. /\ a.asked = r.asked /\ a.step = "answered" /\ a.status = status
      /\ a.timer = r.timer /\ a.signed = r.signed
  BY <1>1 DEF Requests, Send
<1> HIDE DEF a
<1>4. status # Nil
  BY GatewayAssumption
<1>5. Regular(a)
  BY <1>1, <1>3, <1>4 DEF Regular
<1> QED BY <1>2, <1>5 DEF Served, a

(* A request may come to any step whose condition it meets.                *)
LEMMA StepServes ==
  ASSUME NEW r \in Served, NEW step \in RequestSteps \ {"body", "answered"},
         step = "verify" => Verifiable(r.asked),
         step = "headers" => Justified(r.asked, r.signed)
  PROVE  [r EXCEPT !.step = step] \in Served
<1> DEFINE a == [r EXCEPT !.step = step]
<1>1. r \in Requests /\ Regular(r)
  BY DEF Served
<1>2. a \in Requests
  BY <1>1 DEF Requests, RequestSteps
<1>3. /\ a.asked = r.asked /\ a.step = step /\ a.status = r.status
      /\ a.timer = r.timer /\ a.signed = r.signed
  BY <1>1 DEF Requests
<1> HIDE DEF a
<1>4. Regular(a)
  BY <1>1, <1>3 DEF Regular, RequestSteps
<1> QED BY <1>2, <1>4 DEF Served, a

(* A timer may be armed for a proxied request, and cleared for any.        *)
LEMMA TimerServes ==
  ASSUME NEW r \in Served, NEW timer \in BOOLEAN,
         timer => Kind(r.asked) = "proxy"
  PROVE  [r EXCEPT !.timer = timer] \in Served
<1> DEFINE a == [r EXCEPT !.timer = timer]
<1>1. r \in Requests /\ Regular(r)
  BY DEF Served
<1>2. a \in Requests
  BY <1>1 DEF Requests
<1>3. /\ a.asked = r.asked /\ a.step = r.step /\ a.status = r.status
      /\ a.timer = timer /\ a.signed = r.signed
  BY <1>1 DEF Requests
<1> HIDE DEF a
<1>4. Regular(a)
  BY <1>1, <1>3 DEF Regular
<1> QED BY <1>2, <1>4 DEF Served, a

(* A body is waited for when the headers have come; a proxied request      *)
(* takes over their status.                                                *)
LEMMA HeadersServe ==
  ASSUME NEW a \in Requests, a.step = "body", a.timer = FALSE,
         a.signed # Nil => MayBeCalled(a.asked, a.signed),
         Justified(a.asked, a.signed), NEW status \in 200..599
  PROVE  /\ Kind(a.asked) # "proxy" => a \in Served
         /\ [a EXCEPT !.status = status] \in Served
<1> DEFINE b == [a EXCEPT !.status = status]
<1>1. b \in Requests
  BY DEF Requests
<1>2. /\ b.asked = a.asked /\ b.step = "body" /\ b.timer = FALSE
      /\ b.signed = a.signed /\ b.status = status
  BY DEF Requests
<1> HIDE DEF b
<1>3. status # Nil
  BY GatewayAssumption
<1>4. Kind(a.asked) # "proxy" => a \in Served
  BY DEF Regular, Served
<1>5. b \in Served
  BY <1>1, <1>2, <1>3 DEF Regular, Served
<1> QED BY <1>4, <1>5 DEF b

-----------------------------------------------------------------------------
LEMMA IncomingServes ==
  ASSUME NEW q \in Asked
  PROVE  Incoming(q) \in Served
<1> DEFINE a == Incoming(q)
<1>1. a \in Requests
  BY DEF Incoming, Requests, RequestSteps
<1>2. a.step = "dispatch" /\ a.signed = Nil /\ a.timer = FALSE
  BY DEF Incoming
<1> HIDE DEF a
<1>3. Regular(a)
  BY <1>2 DEF Regular
<1> QED BY <1>1, <1>3 DEF Served, a

LEMMA HandleMcpServes ==
  ASSUME NEW r \in Served, Kind(r.asked) = "mcp"
  PROVE  HandleMcp(r) \in Served
<1> DEFINE q == r.asked
<1>1. q \in Asked /\ q.rpc \in RpcMethods \cup {Nil}
  BY GatewayAssumption DEF Served, Requests
<1>2. /\ Send(r, 400) \in Served /\ Send(r, 401) \in Served
      /\ Send(r, 404) \in Served /\ Send(r, 202) \in Served
  BY SendServes
<1>3. ASSUME q.rpc = "initialize" PROVE Send(r, 200) \in Served
  BY <1>3, SendServes DEF Justified
<1>4. ASSUME \/ q.rpc = "tools/list"
             \/ q.rpc = "tools/call" /\ q.tool \in Tools /\ q.tool \in LegalNames
      PROVE  Verifying(r) \in Served
  BY <1>4, StepServes DEF Verifiable, Verifying, RequestSteps
<1> QED BY <1>1, <1>2, <1>3, <1>4 DEF HandleMcp, RpcMethods

LEMMA HandleBearerServes ==
  ASSUME NEW r \in Served, Kind(r.asked) \in {"rest", "proxy"}
  PROVE  HandleBearer(r) \in Served
<1>1. Send(r, 401) \in Served
  BY SendServes
<1>2. Verifying(r) \in Served
  BY StepServes DEF Verifiable, Verifying, RequestSteps
<1> QED BY <1>1, <1>2 DEF HandleBearer

(* A call is signed when the scopes have been required.                    *)
LEMMA CallToolServes ==
  ASSUME NEW r \in Served, r.asked.token \in Subjects,
         r.asked.tool \in Tools \cap LegalNames,
         RequireScopes(r.asked.tool, r.asked.token)
  PROVE  CallTool(r) \in Served
<1> DEFINE a == CallTool(r)
           made == [uid |-> r.asked.token, tool |-> r.asked.tool]
<1>1. r \in Requests /\ Regular(r)
  BY DEF Served
<1>2. made \in Calls /\ made.uid = r.asked.token /\ made.tool = r.asked.tool
  BY DEF Calls
<1>3. a = [r EXCEPT !.step = "headers", !.signed = made]
  BY DEF CallTool
<1> HIDE DEF a, made
<1>4. a \in Requests
  BY <1>1, <1>2, <1>3 DEF Requests, RequestSteps
<1>5. /\ a.asked = r.asked /\ a.step = "headers" /\ a.timer = r.timer
      /\ a.signed = made
  BY <1>1, <1>3 DEF Requests
<1>6. MayBeCalled(a.asked, a.signed)
  BY <1>2, <1>5 DEF MayBeCalled, RequireScopes
<1>7. Justified(a.asked, a.signed)
  BY <1>2, <1>5, GatewayAssumption DEF Justified
<1>8. Regular(a)
  BY <1>1, <1>5, <1>6, <1>7 DEF Regular
<1> QED BY <1>4, <1>8 DEF Served, a

LEMMA VerifiedServes ==
  ASSUME NEW r \in Served, Verifiable(r.asked),
         r.asked.token \in Subjects \cup {Nobody}
  PROVE  Verified(r) \in Served
<1> DEFINE q == r.asked
<1>1. /\ Send(r, 401) \in Served /\ Send(r, 400) \in Served
      /\ Send(r, 403) \in Served /\ Send(r, 404) \in Served
  BY SendServes
<1>2. CASE Kind(q) = "mcp" /\ q.rpc = "tools/list"
  <2>1. Send(r, 200) \in Served
    BY <1>2, SendServes DEF Justified
  <2> QED BY <1>2, <2>1 DEF Verified
<1>3. CASE ~(Kind(q) = "mcp" /\ q.rpc = "tools/list") /\ q.token = Nobody
  BY <1>1, <1>3 DEF Verified
<1>4. CASE q.token # Nobody /\ Kind(q) = "proxy"
  <2>1. [r EXCEPT !.step = "headers"] \in Served
    BY <1>4, StepServes DEF Justified, RequestSteps
  <2>2. [r EXCEPT !.step = "headers"].asked = q
    BY DEF Served, Requests
  <2>3. [[r EXCEPT !.step = "headers"] EXCEPT !.timer = TRUE] \in Served
    BY <1>4, <2>1, <2>2, TimerServes
  <2>4. [r EXCEPT !.step = "headers", !.timer = TRUE] \in Served
    BY <2>3
  <2> QED BY <1>1, <1>4, <2>4 DEF Verified
<1>5. CASE /\ q.token # Nobody
           /\ \/ Kind(q) = "rest"
              \/ Kind(q) = "mcp" /\ q.rpc # "tools/list"
  <2>1. q.token \in Subjects
    BY <1>5
  <2>2. CASE Kind(q) = "rest" /\ NameStatus(q.tool) # 200
    <3>1. NameStatus(q.tool) \in {400, 404}
      BY <2>2 DEF NameStatus
    <3> QED BY <1>1, <1>5, <2>2, <3>1 DEF Verified
  <2>3. CASE ~(Kind(q) = "rest" /\ NameStatus(q.tool) # 200)
    <3>1. q.tool \in Tools \cap LegalNames
      BY <1>5, <2>3 DEF NameStatus, Verifiable
    <3>2. RequireScopes(q.tool, q.token) => CallTool(r) \in Served
      BY <2>1, <3>1, CallToolServes
    <3> QED BY <1>1, <1>5, <2>3, <3>2 DEF Verified
  <2> QED BY <2>2, <2>3
<1> QED BY <1>2, <1>3, <1>4, <1>5 DEF Verifiable

-----------------------------------------------------------------------------
(* What a step leaves in its slot, one step per action; but for a client   *)
(* that leaves and a tool's failure that is fatal, every step serves.      *)
Serving(s) == \E r \in Served : Turn(s, r)

Fatal(s) ==
  /\ On(s, "headers") \/ On(s, "body")
  /\ Kind(sockets[s].asked) = "mcp"
  /\ ProcessDies

LEMMA StepIs ==
  ASSUME GatewayInv, NEW s \in Sockets,
         \/ Ask(s) \/ Dispatch(s) \/ Verify(s) \/ ToolHeaders(s) \/ ToolBody(s)
         \/ ToolFails(s) \/ ProxyTimeout(s) \/ Disconnect(s)
  PROVE  Serving(s) \/ Fatal(s) \/ Disconnect(s)
<1>1. ASSUME Ask(s) PROVE Serving(s)
  <2>1. PICK q \in Asked : Turn(s, Incoming(q)) \/ Turn(s, Send(Incoming(q), 429))
    BY <1>1 DEF Ask
  <2>2. Incoming(q) \in Served
    BY IncomingServes
  <2>3. Send(Incoming(q), 429) \in Served
    BY <2>2, SendServes
  <2> QED BY <2>1, <2>2, <2>3 DEF Serving
<1>2. ASSUME Dispatch(s) PROVE Serving(s)
  <2> DEFINE r == sockets[s]
             kind == Kind(r.asked)
  <2>1. r \in Served
    BY <1>2, InSlot DEF Dispatch, On
  <2>2. CASE kind = "preflight"
    BY <1>2, <2>1, <2>2, SendServes DEF Dispatch, Serving
  <2>3. CASE kind = "elsewhere"
    <3>1. [r EXCEPT !.step = "handed-over"] \in Served
      BY <2>1, StepServes DEF RequestSteps
    <3> QED BY <1>2, <2>3, <3>1 DEF Dispatch, Serving
  <2>4. CASE kind = "mcp"
    BY <1>2, <2>1, <2>4, HandleMcpServes DEF Dispatch, Serving
  <2>5. CASE kind = "health"
    BY <1>2, <2>1, <2>5, SendServes DEF Dispatch, Serving, Justified
  <2>6. CASE kind = "other-method"
    BY <1>2, <2>1, <2>6, SendServes DEF Dispatch, Serving
  <2>7. CASE kind \in {"rest", "proxy"}
    BY <1>2, <2>1, <2>7, HandleBearerServes DEF Dispatch, Serving
  <2> QED BY <2>2, <2>3, <2>4, <2>5, <2>6, <2>7, KindOf
<1>3. ASSUME Verify(s) PROVE Serving(s)
  <2> DEFINE r == sockets[s]
  <2>1. r \in Served /\ Verifiable(r.asked)
    BY <1>3, InSlot DEF Verify, On, Served, Regular
  <2>2. VerifyFailed(r) \in Served
    BY <2>1, SendServes DEF VerifyFailed
  <2>3. r.asked.token \in Subjects \cup {Nobody} => Verified(r) \in Served
    BY <2>1, VerifiedServes
  <2> QED BY <1>3, <2>2, <2>3 DEF Verify, Serving
<1>4. ASSUME ToolHeaders(s) PROVE Serving(s)
  <2>1. sockets[s] \in Served /\ Justified(sockets[s].asked, sockets[s].signed)
    BY <1>4, InSlot DEF ToolHeaders, On, Served, Regular
  <2> DEFINE r == [sockets[s] EXCEPT !.step = "body", !.timer = FALSE]
  <2>2. PICK status \in {200, 503} :
          Turn(s, IF Kind(r.asked) = "proxy" THEN [r EXCEPT !.status = status] ELSE r)
    BY Zenon, <1>4 DEF ToolHeaders
  <2>3. sockets[s] \in Requests /\ Regular(sockets[s])
    BY <2>1 DEF Served
  <2>4. r \in Requests
    BY <2>3 DEF Requests, RequestSteps
  <2>5. /\ r.asked = sockets[s].asked /\ r.signed = sockets[s].signed
        /\ r.step = "body" /\ r.timer = FALSE
    BY <2>3 DEF Requests
  <2> HIDE DEF r
  <2>6. /\ r.signed # Nil => MayBeCalled(r.asked, r.signed)
        /\ Justified(r.asked, r.signed)
    BY <2>1, <2>3, <2>5 DEF Regular
  <2>7. /\ Kind(r.asked) # "proxy" => r \in Served
        /\ [r EXCEPT !.status = status] \in Served
    <3>1. status \in 200..599
      OBVIOUS
    <3> QED BY Zenon, <2>4, <2>5, <2>6, <3>1, HeadersServe
  <2>8. CASE Kind(r.asked) = "proxy"
    BY Zenon, <2>2, <2>7, <2>8 DEF Serving
  <2>9. CASE Kind(r.asked) # "proxy"
    BY Zenon, <2>2, <2>7, <2>9 DEF Serving
  <2> QED BY <2>8, <2>9
<1>5. ASSUME ToolBody(s) PROVE Serving(s)
  <2> DEFINE r == sockets[s]
  <2>1. r \in Served /\ Justified(r.asked, r.signed)
    BY <1>5, InSlot DEF ToolBody, On, Served, Regular
  <2>2. ASSUME NEW status \in 200..599 PROVE Send(r, status) \in Served
    BY <2>1, SendServes
  <2>3. Kind(r.asked) = "proxy" => r.status \in 200..599
    BY <1>5, <2>1 DEF ToolBody, On, Served, Regular, Requests
  <2>4. CASE Kind(r.asked) = "mcp" /\ Turn(s, Send(r, 200))
    BY <2>2, <2>4 DEF Serving
  <2>5. CASE \E status \in {200, 503} : Turn(s, Send(r, status))
    BY <2>2, <2>5 DEF Serving
  <2>6. CASE Kind(r.asked) = "proxy" /\ Turn(s, Send(r, r.status))
    BY <2>2, <2>3, <2>6 DEF Serving
  <2> QED BY Zenon, <1>5, <2>4, <2>5, <2>6 DEF ToolBody
<1>6. ASSUME ToolFails(s) PROVE Serving(s) \/ Fatal(s)
  <2>1. sockets[s] \in Served
    BY <1>6, InSlot DEF ToolFails, On
  <2> QED BY <1>6, <2>1, SendServes DEF ToolFails, RestFails, Serving, Fatal
<1>7. ASSUME ProxyTimeout(s) PROVE Serving(s)
  <2> DEFINE r == [sockets[s] EXCEPT !.timer = FALSE]
  <2>1. r \in Served
    BY <1>7, InSlot, TimerServes DEF ProxyTimeout, Armed
  <2>2. Turn(s, IF r.step = "headers" THEN Send(r, 502) ELSE r)
    BY Zenon, <1>7 DEF ProxyTimeout
  <2> HIDE DEF r
  <2>3. Send(r, 502) \in Served
    BY <2>1, SendServes
  <2> QED BY <2>1, <2>2, <2>3 DEF Serving
<1> QED BY <1>1, <1>2, <1>3, <1>4, <1>5, <1>6, <1>7

LEMMA GatewayInitInv == GatewayInit => GatewayInv
BY GatewayAssumption DEF GatewayInit, GatewayInv

LEMMA GatewayNextInv == GatewayInv /\ [GatewayNext]_gatewayVars => GatewayInv'
<1> SUFFICES ASSUME GatewayInv, [GatewayNext]_gatewayVars PROVE GatewayInv'
  OBVIOUS
<1>1. CASE UNCHANGED gatewayVars
  BY <1>1 DEF gatewayVars, GatewayInv
<1>2. CASE GatewayNext
  <2>1. PICK s \in Sockets : Serving(s) \/ Fatal(s) \/ Disconnect(s)
    BY <1>2, StepIs DEF GatewayNext
  <2>2. CASE Serving(s)
    BY <2>2, TurnKeeps DEF Serving
  <2>3. CASE Fatal(s)
    BY <2>3, GatewayAssumption DEF Fatal, ProcessDies, GatewayInv
  <2>4. CASE Disconnect(s)
    BY <2>4, TurnKeeps DEF Disconnect
  <2> QED BY <2>1, <2>2, <2>3, <2>4
<1> QED BY <1>1, <1>2

LEMMA GatewayInvHolds == GatewaySpec => []GatewayInv
<1>1. GatewayInit => GatewayInv
  BY GatewayInitInv
<1>2. GatewayInv /\ [GatewayNext]_gatewayVars => GatewayInv'
  BY GatewayNextInv
<1> QED BY <1>1, <1>2, PTL DEF GatewaySpec

-----------------------------------------------------------------------------
(* The state keeps its shape, and an answer has a status.                  *)
THEOREM GatewayTyped == GatewaySpec => []GatewayTypeOK
<1>1. GatewayInv => GatewayTypeOK
  BY DEF GatewayInv, GatewayTypeOK, Served, Regular, On
<1> QED BY <1>1, GatewayInvHolds, PTL

(* A tool function is called with the gateway's signature only for the     *)
(* subject of the token the request brought, who holds every scope of the  *)
(* tool that was asked for, and nobody else gets data for an answer        *)
(* (verifyBearerAndScopes(), the REST handler, requireScopes()).           *)
THEOREM Signatures == GatewaySpec => []SignedForEntitled
<1>1. GatewayInv => SignedForEntitled
  <2>1. ASSUME GatewayInv, NEW s \in Sockets, sockets[s] # Nil,
               sockets[s].signed # Nil
        PROVE  /\ sockets[s].signed.uid = sockets[s].asked.token
               /\ sockets[s].signed.uid \in Subjects
               /\ sockets[s].signed.tool = sockets[s].asked.tool
               /\ sockets[s].signed.tool \in Tools \cap LegalNames
               /\ \A scope \in Needs[sockets[s].signed.tool] :
                    scope \in Granted[sockets[s].signed.uid]
    BY <2>1, InSlot DEF Served, Regular, MayBeCalled
  <2>2. ASSUME GatewayInv, NEW s \in Sockets, sockets[s] # Nil,
               \/ On(s, "body")
               \/ On(s, "answered") /\ sockets[s].status \in {200, 503}
        PROVE  Justified(sockets[s].asked, sockets[s].signed)
    BY <2>2, InSlot DEF Served, Regular, On
  <2> QED BY Zenon, <2>1, <2>2 DEF SignedForEntitled, Justified
<1> QED BY <1>1, GatewayInvHolds, PTL

(* A request is lost only when a tool called by MCP fails, and then every  *)
(* slot is emptied with it: whatever else happens to the others, it is     *)
(* answered or handed over first (handleMcp()).                            *)
THEOREM Losses == GatewaySpec => OnlyMcpIsFatal
<1>1. GatewayInv /\ [GatewayNext]_gatewayVars =>
        [\A s \in Sockets :
           (sockets[s] # Nil /\ sockets'[s] = Nil /\ sockets[s].status = Nil
              /\ ~On(s, "handed-over"))
             => /\ \E c \in Sockets :
                     /\ On(c, "headers") \/ On(c, "body")
                     /\ Kind(sockets[c].asked) = "mcp"
                /\ \A other \in Sockets : sockets'[other] = Nil]_gatewayVars
  <2> SUFFICES ASSUME GatewayInv, GatewayNext, NEW s \in Sockets,
                      sockets[s] # Nil, sockets'[s] = Nil,
                      sockets[s].status = Nil, ~On(s, "handed-over")
               PROVE  /\ \E c \in Sockets :
                           /\ On(c, "headers") \/ On(c, "body")
                           /\ Kind(sockets[c].asked) = "mcp"
                      /\ \A other \in Sockets : sockets'[other] = Nil
    OBVIOUS
  <2>1. PICK c \in Sockets : Serving(c) \/ Fatal(c) \/ Disconnect(c)
    BY StepIs DEF GatewayNext
  <2>2. ASSUME NEW r, Turn(c, r), c # s \/ r # Nil PROVE FALSE
    BY <2>2 DEF Turn, GatewayInv
  <2>3. CASE Serving(c)
    BY <2>2, <2>3, NotNil DEF Serving
  <2>4. CASE Fatal(c)
    BY <2>4 DEF Fatal, ProcessDies
  <2>5. CASE Disconnect(c)
    <3>1. c = s
      BY <2>2, <2>5 DEF Disconnect
    <3>2. On(s, "answered")
      BY <2>5, <3>1 DEF Disconnect
    <3>3. Regular(sockets[s])
      BY InSlot DEF Served
    <3> QED BY <3>2, <3>3 DEF Regular, On
  <2> QED BY <2>1, <2>3, <2>4, <2>5
<1> QED BY <1>1, GatewayInvHolds, PTL DEF GatewaySpec, OnlyMcpIsFatal

-----------------------------------------------------------------------------
(***************************************************************************)
(* Discovery gives up after three tries and no sooner.                     *)
(***************************************************************************)
QuerySteps == {"headers", "body", "pause", "settled"}

(* A request whose counts agree with where it is in the loop.              *)
QueryCounted(query) ==
  /\ query.fetched = query.i + 1
  /\ query.step \in {"headers", "body"} => query.failed = query.i
  /\ query.step = "pause" => query.failed = query.i + 1
  /\ query.step = "settled" =>
       (query.failed = query.i /\ query.status = 200) \/ query.failed = 3
  /\ query.status = 502 => query.step = "settled" /\ query.failed = 3 /\ query.i = 2
  /\ query.step # "settled" =>
       query.status = (IF query.document = "routerResource" THEN 200 ELSE 0)

QueryShape ==
  [document : Documents, step : QuerySteps, i : 0..2, timer : BOOLEAN,
   status : {0, 200, 502}, fetched : 1..3, failed : 0..3]

QueryState == {query \in QueryShape : QueryCounted(query)}

(* The inductive invariant: every slot has such a request or none.         *)
QueryInv == queries \in [Queries -> QueryState \cup {NoQuery}]

-----------------------------------------------------------------------------
(* Putting a request in a slot keeps the invariant.                        *)
LEMMA QueryProceeds ==
  ASSUME QueryInv, NEW q \in Queries, NEW query \in QueryState \cup {NoQuery},
         Proceed(q, query)
  PROVE  QueryInv'
BY DEF QueryInv, Proceed

(* A request being served is in the slot.                                  *)
LEMMA QueryServed ==
  ASSUME QueryInv, NEW q \in Queries, queries[q] # NoQuery
  PROVE  queries[q] \in QueryState
BY DEF QueryInv

(* Clearing the timer changes nothing that is counted.                     *)
LEMMA TimerClears ==
  ASSUME NEW query \in QueryState
  PROVE  [query EXCEPT !.timer = FALSE] \in QueryState
<1> DEFINE r == [query EXCEPT !.timer = FALSE]
<1>1. r \in QueryShape
  BY DEF QueryState, QueryShape
<1>2. /\ r.document = query.document /\ r.step = query.step /\ r.i = query.i
      /\ r.status = query.status /\ r.fetched = query.fetched
      /\ r.failed = query.failed
  BY DEF QueryState, QueryShape
<1> HIDE DEF r
<1>3. QueryCounted(query)
  BY DEF QueryState
<1>4. QueryCounted(r)
  BY <1>2, <1>3 DEF QueryCounted
<1> QED BY <1>1, <1>4 DEF QueryState, r

(* A try that fails is counted.                                            *)
LEMMA CatchCounts ==
  ASSUME NEW query \in QueryState, query.step \in {"headers", "body"}
  PROVE  Caught(query) \in QueryState
<1> DEFINE r == Caught(query)
<1>1. query.i \in 0..2 /\ query.failed = query.i /\ query.fetched = query.i + 1
  BY DEF QueryState, QueryShape, QueryCounted
<1>2. r \in QueryShape
  <2>1. query \in QueryShape /\ query.failed + 1 \in 0..3
    BY <1>1 DEF QueryState
  <2> QED BY <2>1 DEF QueryShape, Caught, QuerySteps
<1>3. /\ r.document = query.document /\ r.step = "pause" /\ r.i = query.i
      /\ r.status = query.status /\ r.fetched = query.fetched
      /\ r.failed = query.failed + 1
  BY DEF QueryState, QueryShape, Caught
<1> HIDE DEF r
<1>4. /\ query.status # 502
      /\ query.status = (IF query.document = "routerResource" THEN 200 ELSE 0)
  BY DEF QueryState, QueryShape, QueryCounted
<1>5. /\ r.step = "pause" /\ r.fetched = r.i + 1 /\ r.failed = r.i + 1
      /\ r.status # 502
      /\ r.status = (IF r.document = "routerResource" THEN 200 ELSE 0)
  BY <1>1, <1>3, <1>4
<1>6. QueryCounted(r)
  BY <1>5 DEF QueryCounted
<1> QED BY <1>2, <1>6 DEF QueryState, r

(* So is the next try,                                                     *)
LEMMA NextTryCounts ==
  ASSUME NEW query \in QueryState, query.step = "pause", query.i + 1 < 3
  PROVE  NextTry(query) \in QueryState
<1> DEFINE r == NextTry(query)
<1>1. /\ query.i \in 0..1 /\ query.failed = query.i + 1
      /\ query.fetched = query.i + 1 /\ query.status # 502
      /\ query.status = (IF query.document = "routerResource" THEN 200 ELSE 0)
  BY DEF QueryState, QueryShape, QueryCounted
<1>2. r \in QueryShape
  <2>1. /\ query \in QueryShape
        /\ query.i + 1 \in 0..2 /\ query.fetched + 1 \in 1..3
    BY <1>1 DEF QueryState
  <2> QED BY <2>1 DEF QueryShape, NextTry, QuerySteps
<1>3. /\ r.document = query.document /\ r.step = "headers"
      /\ r.i = query.i + 1 /\ r.status = query.status
      /\ r.fetched = query.fetched + 1 /\ r.failed = query.failed
  BY DEF QueryState, QueryShape, NextTry
<1> HIDE DEF r
<1>4. /\ r.step = "headers" /\ r.fetched = r.i + 1 /\ r.failed = r.i
      /\ r.status # 502
      /\ r.status = (IF r.document = "routerResource" THEN 200 ELSE 0)
  BY <1>1, <1>3
<1>5. QueryCounted(r)
  BY <1>4 DEF QueryCounted
<1> QED BY <1>2, <1>5 DEF QueryState, r

(* and so is the answer after the last one.                                *)
LEMMA GivingUpCounts ==
  ASSUME NEW query \in QueryState, query.step = "pause", ~(query.i + 1 < 3)
  PROVE  Settled(query, 502) \in QueryState
<1> DEFINE r == Settled(query, 502)
<1>1. query.i = 2 /\ query.failed = 3 /\ query.fetched = 3 /\ query.status # 502
  BY DEF QueryState, QueryShape, QueryCounted
<1>2. r \in QueryShape
  BY DEF QueryState, QueryShape, Settled, Answer, QuerySteps
<1>3. /\ r.step = "settled" /\ r.i = query.i
      /\ r.fetched = query.fetched /\ r.failed = query.failed
  BY DEF QueryState, QueryShape, Settled, Answer
<1> HIDE DEF r
<1>4. r.step = "settled" /\ r.i = 2 /\ r.fetched = 3 /\ r.failed = 3
  BY <1>1, <1>3
<1>5. QueryCounted(r)
  BY <1>4 DEF QueryCounted
<1> QED BY <1>2, <1>5 DEF QueryState, r

LEMMA QueryInitInv == DiscoveryInit => QueryInv
BY DEF DiscoveryInit, QueryInv

(* One step per action.                                                    *)
LEMMA QueryNextInv == QueryInv /\ [DiscoveryNext]_queries => QueryInv'
<1> SUFFICES ASSUME QueryInv, [DiscoveryNext]_queries PROVE QueryInv'
  OBVIOUS
<1>1. ASSUME NEW q \in Queries, QueryArrives(q) PROVE QueryInv'
  <2>1. PICK document \in Documents :
          Proceed(q, IF document = "routerResource"
                     THEN [Query(document) EXCEPT !.status = 200]
                     ELSE Query(document))
    BY <1>1 DEF QueryArrives
  <2>2. PICK y : y = Query(document)
    OBVIOUS
  <2>3. y \in QueryShape
    BY <2>2 DEF Query, QueryShape, QuerySteps
  <2>4. y.step = "headers" /\ y.i = 0 /\ y.fetched = 1 /\ y.failed = 0
        /\ y.document = document /\ y.status = 0
    BY <2>2 DEF Query
  <2>5. CASE document = "routerResource"
    <3> DEFINE r == [y EXCEPT !.status = 200]
    <3>1. r \in QueryShape
      BY <2>3 DEF QueryShape
    <3>2. /\ r.step = "headers" /\ r.i = 0 /\ r.fetched = 1 /\ r.failed = 0
          /\ r.document = "routerResource" /\ r.status = 200
      BY <2>3, <2>4, <2>5 DEF QueryShape
    <3> HIDE DEF r
    <3>3. r \in QueryState
      BY <3>1, <3>2 DEF QueryState, QueryCounted
    <3>4. Proceed(q, r)
      BY <2>1, <2>2, <2>5 DEF r
    <3> QED BY <3>3, <3>4, QueryProceeds
  <2>6. CASE document # "routerResource"
    <3>1. y \in QueryState
      BY <2>3, <2>4, <2>6 DEF QueryState, QueryCounted
    <3> QED BY <2>1, <2>2, <2>6, <3>1, QueryProceeds
  <2> QED BY <2>5, <2>6
<1>2. ASSUME NEW q \in Queries, DocumentHeaders(q) PROVE QueryInv'
  <2> DEFINE query == [queries[q] EXCEPT !.timer = FALSE]
  <2>1. queries[q] \in QueryState /\ queries[q].step = "headers"
    BY <1>2, QueryServed DEF DocumentHeaders, Doing
  <2>2. query \in QueryState /\ query.step = "headers"
    <3>1. query \in QueryState
      BY <2>1, TimerClears
    <3>2. query.step = "headers"
      BY <2>1 DEF QueryState, QueryShape
    <3> QED BY <3>1, <3>2
  <2>3. Proceed(q, [query EXCEPT !.step = "body"]) \/ Proceed(q, Caught(query))
    BY <1>2 DEF DocumentHeaders
  <2> HIDE DEF query
  <2>4. [query EXCEPT !.step = "body"] \in QueryState
    BY <2>2 DEF QueryState, QueryShape, QueryCounted, QuerySteps
  <2> QED BY <2>2, <2>3, <2>4, CatchCounts, QueryProceeds
<1>3. ASSUME NEW q \in Queries, FetchFails(q) PROVE QueryInv'
  <2>1. queries[q] \in QueryState /\ queries[q].step = "headers"
    BY <1>3, QueryServed DEF FetchFails, Doing
  <2> QED BY <1>3, <2>1, CatchCounts, QueryProceeds DEF FetchFails
<1>4. ASSUME NEW q \in Queries, TryTimesOut(q) PROVE QueryInv'
  <2> DEFINE query == [queries[q] EXCEPT !.timer = FALSE]
  <2>1. queries[q] \in QueryState
    BY <1>4, QueryServed DEF TryTimesOut
  <2>2. query \in QueryState
    BY <2>1, TimerClears
  <2>3. Proceed(q, IF query.step = "headers" THEN Caught(query) ELSE query)
    BY <1>4 DEF TryTimesOut
  <2> HIDE DEF query
  <2>4. CASE query.step = "headers"
    BY <2>2, <2>3, <2>4, CatchCounts, QueryProceeds
  <2>5. CASE query.step # "headers"
    BY <2>2, <2>3, <2>5, QueryProceeds
  <2> QED BY <2>4, <2>5
<1>5. ASSUME NEW q \in Queries, DocumentBody(q) PROVE QueryInv'
  <2>1. queries[q] \in QueryState /\ queries[q].step = "body"
    BY <1>5, QueryServed DEF DocumentBody, Doing
  <2>2. Settled(queries[q], 200) \in QueryState
    BY <2>1
       DEF Settled, Answer, QueryState, QueryShape, QueryCounted, QuerySteps,
           Documents
  <2> QED BY <1>5, <2>1, <2>2, CatchCounts, QueryProceeds DEF DocumentBody
<1>6. ASSUME NEW q \in Queries, PauseEnds(q) PROVE QueryInv'
  <2> DEFINE query == [queries[q] EXCEPT !.timer = FALSE]
  <2>1. queries[q] \in QueryState /\ queries[q].step = "pause"
    BY <1>6, QueryServed DEF PauseEnds, Doing
  <2>2. query \in QueryState
    BY <2>1, TimerClears
  <2>3. query.step = "pause"
    BY <2>1 DEF QueryState, QueryShape
  <2>4. Proceed(q, IF TryAgain(query) THEN NextTry(query) ELSE Settled(query, 502))
    BY <1>6 DEF PauseEnds
  <2> HIDE DEF query
  <2>5. CASE TryAgain(query)
    <3>1. NextTry(query) \in QueryState
      BY <2>2, <2>3, <2>5, NextTryCounts DEF TryAgain
    <3> QED BY <2>4, <2>5, <3>1, QueryProceeds
  <2>6. CASE ~TryAgain(query)
    <3>1. Settled(query, 502) \in QueryState
      BY <2>2, <2>3, <2>6, GivingUpCounts DEF TryAgain
    <3> QED BY <2>4, <2>6, <3>1, QueryProceeds
  <2> QED BY <2>5, <2>6
<1>7. ASSUME NEW q \in Queries, QueryLeaves(q) PROVE QueryInv'
  BY <1>7, QueryProceeds DEF QueryLeaves
<1>8. CASE UNCHANGED queries
  BY <1>8 DEF QueryInv
<1> QED BY <1>1, <1>2, <1>3, <1>4, <1>5, <1>6, <1>7, <1>8 DEF DiscoveryNext

(* The counts agree at all times.                                          *)
LEMMA QueryInvHolds == DiscoverySpec => []QueryInv
<1>1. DiscoveryInit => QueryInv
  BY QueryInitInv
<1>2. QueryInv /\ [DiscoveryNext]_queries => QueryInv'
  BY QueryNextInv
<1> QED BY <1>1, <1>2, PTL DEF DiscoverySpec

(* A request for a well-known document keeps its shape, with the number of *)
(* its try below three, and is answered 200 or 502 (fetchJsonWithRetry()). *)
THEOREM QueriesTyped == DiscoverySpec => []DiscoveryTypeOK
<1>1. QueryInv => DiscoveryTypeOK
  <2> SUFFICES ASSUME QueryInv, NEW q \in Queries, queries[q] # NoQuery
               PROVE  LET query == queries[q] IN
                      /\ query.document \in Documents
                      /\ query.step \in {"headers", "body", "pause", "settled"}
                      /\ query.i \in 0..2
                      /\ query.status \in {0, 200, 502}
    BY DEF DiscoveryTypeOK
  <2>1. queries[q] \in QueryState
    BY QueryServed
  <2> QED BY <2>1 DEF QueryState, QueryShape, QuerySteps
<1> QED BY <1>1, QueryInvHolds, PTL

(* A client is told that discovery failed only after three tries did, no   *)
(* provider is asked a fourth time, and only the router's answer about its *)
(* resource comes before the tries are over (fetchJsonWithRetry()).        *)
THEOREM ThreeTries == DiscoverySpec => []GivesUpAfterThree
<1>1. QueryInv => GivesUpAfterThree
  <2> SUFFICES ASSUME QueryInv, NEW q \in Queries, queries[q] # NoQuery
               PROVE  LET query == queries[q] IN
                      /\ query.fetched <= 3
                      /\ query.status = 502 => query.failed = 3 /\ query.fetched = 3
                      /\ query.step = "settled" =>
                           query.failed = 3 \/ query.fetched = query.failed + 1
                      /\ query.step # "settled" =>
                           query.status = (IF query.document = "routerResource"
                                           THEN 200 ELSE 0)
    BY DEF GivesUpAfterThree
  <2>1. queries[q] \in QueryState
    BY QueryServed
  <2> QED BY <2>1 DEF QueryState, QueryShape, QueryCounted, QuerySteps, Documents
<1> QED BY <1>1, QueryInvHolds, PTL

-----------------------------------------------------------------------------
(***************************************************************************)
(* The older copies of the log webhook implement the one of explicabl.     *)
(***************************************************************************)
(* A handler as that one would have it.                                    *)
Seen(h) == [h EXCEPT !.step = AbstractStep[@]]

AbstractSteps ==
  {"token", "lookup", "promote", "relookup", "repromote", "read", "write"}

SeenLanes ==
  [l \in Lanes |-> IF lanes[l] = NoApp THEN NoApp ELSE Seen(lanes[l])]

(* What a handler at its step relies on: after a 404 a call has failed,    *)
(* and the client it writes about is one.                                  *)
Relies(h) ==
  /\ h.step \in {"relist", "repromote"} => ~h.healthy
  /\ h.step = "repromote" => h.alt \in Apps
  /\ h.step \in {"promote", "relist", "repromote", "connection",
                "connectionBody", "patch"} => h.cid \in Apps

DcrInv ==
  /\ DcrTypeOK
  /\ \A l \in Lanes : lanes[l] # NoApp => Relies(lanes[l])

ALane(h) == h \in LanesAt(LaneSteps)

-----------------------------------------------------------------------------
LEMMA LaneFields ==
  ASSUME NEW h, ALane(h)
  PROVE  /\ h = [step |-> h.step, events |-> h.events, cid |-> h.cid,
                 alt |-> h.alt, read |-> h.read, owed |-> h.owed,
                 healthy |-> h.healthy]
         /\ h.step \in LaneSteps
         /\ h.events \in Seq(Apps \cup {Anonymous})
         /\ h.cid \in Apps \cup {NoApp} /\ h.alt \in Apps \cup {NoApp}
         /\ h.read \in SUBSET Apps /\ h.owed \in SUBSET Apps
         /\ h.healthy \in BOOLEAN
         /\ h # NoApp
<1>1. h # NoApp
  <2>1. h \in LanesAt(LaneSteps \cup OtherSteps)
    BY DEF ALane, LanesAt
  <2>. QED
    BY <2>1, ProxyablDcrAssumption
<1>. QED
  BY <1>1 DEF ALane, LanesAt

LEMMA AbstractSteps1 ==
  ASSUME NEW st \in LaneSteps
  PROVE  /\ AbstractStep[st] \in AbstractSteps
         /\ st \in {"token", "tokenBody"} <=> AbstractStep[st] = "token"
         /\ st = "list" <=> AbstractStep[st] = "lookup"
         /\ st = "promote" <=> AbstractStep[st] = "promote"
         /\ st = "relist" <=> AbstractStep[st] = "relookup"
         /\ st = "repromote" <=> AbstractStep[st] = "repromote"
         /\ st = "connection" <=> AbstractStep[st] = "read"
         /\ st \in {"connectionBody", "patch"} <=> AbstractStep[st] = "write"
BY DEF AbstractStep, LaneSteps, AbstractSteps

(* The fields of a handler seen so.                                        *)
LEMMA SeenFields ==
  ASSUME NEW h, ALane(h)
  PROVE  /\ Seen(h) = [step |-> AbstractStep[h.step], events |-> h.events,
                       cid |-> h.cid, alt |-> h.alt, read |-> h.read,
                       owed |-> h.owed, healthy |-> h.healthy]
         /\ Seen(h) # NoApp
<1>1. Seen(h) = [step |-> AbstractStep[h.step], events |-> h.events,
                 cid |-> h.cid, alt |-> h.alt, read |-> h.read,
                 owed |-> h.owed, healthy |-> h.healthy]
  BY LaneFields DEF Seen
<1>2. AbstractStep[h.step] \in LaneSteps \cup OtherSteps
  <2>1. AbstractStep[h.step] \in AbstractSteps
    BY LaneFields, AbstractSteps1
  <2>. QED
    BY <2>1 DEF AbstractSteps, LaneSteps, OtherSteps
<1>3. Seen(h) \in LanesAt(LaneSteps \cup OtherSteps)
  BY <1>1, <1>2, LaneFields DEF LanesAt
<1>. QED
  BY <1>1, <1>3, ProxyablDcrAssumption

LEMMA SeenForm ==
  ASSUME NEW h, ALane(h), NEW s, s = Seen(h)
  PROVE  /\ s = [step |-> s.step, events |-> s.events, cid |-> s.cid,
                 alt |-> s.alt, read |-> s.read, owed |-> s.owed,
                 healthy |-> s.healthy]
         /\ s.step = AbstractStep[h.step] /\ s.events = h.events
         /\ s.cid = h.cid /\ s.alt = h.alt /\ s.read = h.read
         /\ s.owed = h.owed /\ s.healthy = h.healthy
<1>1. s = [step |-> AbstractStep[h.step], events |-> h.events,
           cid |-> h.cid, alt |-> h.alt, read |-> h.read,
           owed |-> h.owed, healthy |-> h.healthy]
  BY SeenFields
<1>. QED
  BY <1>1

LEMMA LanesSeen ==
  ASSUME DcrTypeOK, NEW l \in Lanes
  PROVE  /\ lanes[l] # NoApp => ALane(lanes[l])
         /\ SeenLanes[l] = NoApp <=> lanes[l] = NoApp
         /\ lanes[l] # NoApp => SeenLanes[l] = Seen(lanes[l])
<1>1. lanes[l] # NoApp => ALane(lanes[l])
  BY DEF DcrTypeOK, ALane
<1>. QED
  BY <1>1, SeenFields DEF SeenLanes

LEMMA LaneChanges ==
  ASSUME DcrTypeOK, NEW l \in Lanes, NEW h, ALane(h),
         lanes' = [lanes EXCEPT ![l] = h]
  PROVE  SeenLanes' = [SeenLanes EXCEPT ![l] = Seen(h)]
<1>1. h # NoApp
  BY LaneFields
<1>. QED
  BY <1>1 DEF SeenLanes, DcrTypeOK

LEMMA LaneEnds ==
  ASSUME DcrTypeOK, NEW l \in Lanes, lanes' = [lanes EXCEPT ![l] = NoApp]
  PROVE  SeenLanes' = [SeenLanes EXCEPT ![l] = NoApp]
BY DEF SeenLanes, DcrTypeOK

(* Where a handler is, in both.                                            *)
LEMMA AtIsIn ==
  ASSUME DcrTypeOK, NEW l \in Lanes, NEW st, NEW ab,
         \A x \in LaneSteps : x = st => AbstractStep[x] = ab,
         In(l, st)
  PROVE  Explicabl!At(l, ab)
<1>1. ALane(lanes[l]) /\ SeenLanes[l] = Seen(lanes[l])
  BY LanesSeen DEF In
<1>2. SeenLanes[l].step = AbstractStep[lanes[l].step] /\ SeenLanes[l] # NoApp
  BY <1>1, SeenFields
<1>3. lanes[l].step \in LaneSteps /\ lanes[l].step = st
  BY <1>1, LaneFields DEF In
<1>4. SeenLanes[l].step = ab /\ SeenLanes[l] # NoApp
  BY <1>2, <1>3
<1>. QED
  BY <1>4 DEF Explicabl!At, SeenLanes, Seen

(* The three ways in which a step ends.                                    *)
LEMMA ThenIsGoto ==
  ASSUME DcrTypeOK, NEW l \in Lanes, NEW h, ALane(h), Then(l, h)
  PROVE  Explicabl!Goto(l, Seen(h))
<1>1. SeenLanes' = [SeenLanes EXCEPT ![l] = Seen(h)]
  BY LaneChanges DEF Then
<1>. QED
  BY <1>1 DEF Then, Explicabl!Goto, SeenLanes, Seen

LEMMA RespondIsReply ==
  ASSUME DcrTypeOK, NEW l \in Lanes, NEW status, NEW h, ALane(h), NEW g, ALane(g),
         h.healthy = g.healthy, h.owed = g.owed,
         Respond(l, status, h)
  PROVE  Explicabl!Reply(l, status, Seen(g))
<1>1. SeenLanes' = [SeenLanes EXCEPT ![l] = NoApp]
  BY LaneEnds DEF Respond
<1>2. Seen(g).healthy = h.healthy /\ Seen(g).owed = h.owed
  BY SeenFields
<1>3. told'.apps = IF status = 200 THEN told.apps \cup Seen(g).owed
                   ELSE told.apps
  BY <1>2 DEF Respond, DcrTypeOK
<1>4. replied' = [status |-> status, healthy |-> Seen(g).healthy]
  BY <1>2 DEF Respond
<1>. QED
  BY <1>1, <1>3, <1>4 DEF Explicabl!Reply, SeenLanes, Seen

LEMMA UnwellLane ==
  ASSUME NEW h, ALane(h)
  PROVE  /\ ALane([h EXCEPT !.healthy = FALSE])
         /\ [h EXCEPT !.healthy = FALSE].owed = h.owed
         /\ [h EXCEPT !.healthy = FALSE].healthy = FALSE
         /\ [h EXCEPT !.healthy = FALSE].step = h.step
         /\ Seen([h EXCEPT !.healthy = FALSE]) = Explicabl!Unwell(Seen(h))
<1>1. PICK u : u = [h EXCEPT !.healthy = FALSE]
  OBVIOUS
<1>2. u = [step |-> h.step, events |-> h.events, cid |-> h.cid,
           alt |-> h.alt, read |-> h.read, owed |-> h.owed, healthy |-> FALSE]
  <2>1. h = [step |-> h.step, events |-> h.events, cid |-> h.cid, alt |-> h.alt,
             read |-> h.read, owed |-> h.owed, healthy |-> h.healthy]
    BY LaneFields
  <2>. QED
    BY <1>1, <2>1
<1>3. ALane(u)
  BY <1>1 DEF ALane, LanesAt
<1>4. Seen(u) = [step |-> AbstractStep[h.step], events |-> h.events,
                 cid |-> h.cid, alt |-> h.alt, read |-> h.read,
                 owed |-> h.owed, healthy |-> FALSE]
  <2>1. Seen(u) = [step |-> AbstractStep[u.step], events |-> u.events,
                   cid |-> u.cid, alt |-> u.alt, read |-> u.read,
                   owed |-> u.owed, healthy |-> u.healthy]
    BY <1>3, SeenFields
  <2>. QED
    BY <1>2, <2>1
<1>5. PICK g : g = Seen(h)
  OBVIOUS
<1>6. Explicabl!Unwell(g)
        = [step |-> AbstractStep[h.step], events |-> h.events,
           cid |-> h.cid, alt |-> h.alt, read |-> h.read,
           owed |-> h.owed, healthy |-> FALSE]
  <2>1. g = [step |-> AbstractStep[h.step], events |-> h.events,
             cid |-> h.cid, alt |-> h.alt, read |-> h.read,
             owed |-> h.owed, healthy |-> h.healthy]
    BY <1>5, SeenFields
  <2>2. PICK v : v = [g EXCEPT !.healthy = FALSE]
    OBVIOUS
  <2>3. v = [step |-> g.step, events |-> g.events, cid |-> g.cid,
             alt |-> g.alt, read |-> g.read, owed |-> g.owed,
             healthy |-> FALSE]
    BY <2>1, <2>2
  <2>4. v = [step |-> AbstractStep[h.step], events |-> h.events,
             cid |-> h.cid, alt |-> h.alt, read |-> h.read,
             owed |-> h.owed, healthy |-> FALSE]
    BY <2>1, <2>3
  <2>. QED
    BY <2>2, <2>4 DEF Explicabl!Unwell
<1>. QED
  BY <1>1, <1>2, <1>3, <1>4, <1>5, <1>6

LEMMA ThrowIsFail ==
  ASSUME DcrTypeOK, NEW l \in Lanes, NEW h, ALane(h), Throw(l, h)
  PROVE  /\ Explicabl!Fail(l, Explicabl!Unwell(Seen(h)))
         /\ ~h.healthy => Explicabl!Fail(l, Seen(h))
<1>1. PICK u : u = [h EXCEPT !.healthy = FALSE]
  OBVIOUS
<1>2. /\ ALane(u) /\ u.owed = h.owed /\ u.healthy = FALSE
      /\ Seen(u) = Explicabl!Unwell(Seen(h))
  BY <1>1, UnwellLane
<1>3. Respond(l, 500, u)
  BY <1>1 DEF Throw
<1>4. Explicabl!Reply(l, 500, Seen(u))
  BY <1>2, <1>3, RespondIsReply
<1>5. ~h.healthy => Explicabl!Reply(l, 500, Seen(h))
  BY <1>2, <1>3, RespondIsReply, LaneFields
<1>. QED
  BY <1>2, <1>4, <1>5 DEF Explicabl!Fail

LEMMA MovedLane ==
  ASSUME NEW h, ALane(h), NEW st \in LaneSteps
  PROVE  /\ ALane([h EXCEPT !.step = st])
         /\ Seen([h EXCEPT !.step = st]) = [Seen(h) EXCEPT !.step = AbstractStep[st]]
         /\ [h EXCEPT !.step = st].step = st
<1>1. PICK g : g = [h EXCEPT !.step = st]
  OBVIOUS
<1>2. ALane(g)
  BY <1>1 DEF ALane, LanesAt
<1>3. g = [step |-> st, events |-> h.events, cid |-> h.cid, alt |-> h.alt,
           read |-> h.read, owed |-> h.owed, healthy |-> h.healthy]
  BY <1>1, LaneFields
<1>4. Seen(g) = [step |-> AbstractStep[st], events |-> h.events, cid |-> h.cid,
                 alt |-> h.alt, read |-> h.read, owed |-> h.owed,
                 healthy |-> h.healthy]
  BY <1>2, <1>3, SeenFields
<1>5. PICK a : a = AbstractStep[st]
  OBVIOUS
<1>6. [Seen(h) EXCEPT !.step = a]
        = [step |-> a, events |-> h.events, cid |-> h.cid, alt |-> h.alt,
           read |-> h.read, owed |-> h.owed, healthy |-> h.healthy]
  BY SeenFields
<1>. QED
  BY <1>1, <1>2, <1>3, <1>4, <1>5, <1>6

LEMMA PromoteIsPromoting ==
  ASSUME NEW h, ALane(h), NEW app \in Apps
  PROVE  /\ ALane(Promote(h, app))
         /\ Seen(Promote(h, app)) = Explicabl!Promoting(Seen(h), app)
         /\ Promote(h, app).step = "promote"
<1>1. PICK o : o = h.owed \cup {app}
  OBVIOUS
<1>2. o \in SUBSET Apps
  BY <1>1, LaneFields
<1>3. PICK g : g = Promote(h, app)
  OBVIOUS
<1>4. g = [h EXCEPT !.step = "promote", !.cid = app, !.owed = o]
  BY <1>1, <1>3 DEF Promote
<1>5. g = [step |-> "promote", events |-> h.events, cid |-> app,
           alt |-> h.alt, read |-> h.read, owed |-> o, healthy |-> h.healthy]
  <2>1. h = [step |-> h.step, events |-> h.events, cid |-> h.cid, alt |-> h.alt,
             read |-> h.read, owed |-> h.owed, healthy |-> h.healthy]
    BY LaneFields
  <2>. QED
    BY <1>4, <2>1
<1>6. ALane(g)
  BY <1>2, <1>5, LaneFields DEF ALane, LanesAt, LaneSteps
<1>7. AbstractStep["promote"] = "promote"
  BY DEF AbstractStep
<1>8. Seen(g) = [step |-> "promote", events |-> h.events, cid |-> app,
                 alt |-> h.alt, read |-> h.read, owed |-> o,
                 healthy |-> h.healthy]
  BY <1>5, <1>6, <1>7, SeenFields
<1>9. PICK s : s = Seen(h)
  OBVIOUS
<1>10. s = [step |-> AbstractStep[h.step], events |-> h.events, cid |-> h.cid,
            alt |-> h.alt, read |-> h.read, owed |-> h.owed,
            healthy |-> h.healthy]
  BY <1>9, SeenFields
<1>11. s.owed \cup {app} = o
  BY <1>1, <1>10
<1>12. Explicabl!Promoting(s, app)
         = [s EXCEPT !.step = "promote", !.cid = app, !.owed = o]
  BY <1>11 DEF Explicabl!Promoting
<1>13. Explicabl!Promoting(s, app)
         = [step |-> "promote", events |-> h.events, cid |-> app,
            alt |-> h.alt, read |-> h.read, owed |-> o, healthy |-> h.healthy]
  BY <1>10, <1>12
<1>. QED
  BY <1>3, <1>5, <1>6, <1>8, <1>9, <1>13

(* The loop over the events is the same in both.                           *)
LEMMA LoopIsNextEvent ==
  ASSUME DcrTypeOK, NEW l \in Lanes, NEW h, ALane(h), Loop(l, h)
  PROVE  Explicabl!NextEvent(l, Seen(h))
<1>1. PICK s : s = Seen(h)
  OBVIOUS
<1>2. /\ s.events = h.events
      /\ s = [step |-> AbstractStep[h.step], events |-> h.events,
              cid |-> h.cid, alt |-> h.alt, read |-> h.read,
              owed |-> h.owed, healthy |-> h.healthy]
  BY <1>1, SeenFields
<1>3. CASE h.events = <<>>
  <2>1. Respond(l, 200, h)
    BY <1>3 DEF Loop
  <2>2. Explicabl!Reply(l, 200, s)
    BY <1>1, <2>1, RespondIsReply
  <2>. QED
    BY <1>1, <1>2, <1>3, <2>2 DEF Explicabl!NextEvent
<1>4. CASE h.events # <<>>
  <2>1. PICK e, t : e = Head(h.events) /\ t = Tail(h.events)
    OBVIOUS
  <2>2. e \in Apps \cup {Anonymous} /\ t \in Seq(Apps \cup {Anonymous})
    BY <1>4, <2>1, LaneFields
  <2>3. PICK rest, seen : /\ rest = [h EXCEPT !.events = t]
                          /\ seen = [s EXCEPT !.events = t]
    OBVIOUS
  <2>4. ALane(rest)
    BY <2>2, <2>3 DEF ALane, LanesAt
  <2>5. Seen(rest) = seen
    <3>1. rest = [step |-> h.step, events |-> t, cid |-> h.cid,
                  alt |-> h.alt, read |-> h.read, owed |-> h.owed,
                  healthy |-> h.healthy]
      BY <2>3, LaneFields
    <3>2. seen = [step |-> AbstractStep[h.step], events |-> t, cid |-> h.cid,
                  alt |-> h.alt, read |-> h.read, owed |-> h.owed,
                  healthy |-> h.healthy]
      BY <1>2, <2>3
    <3>. QED
      BY <2>4, <3>1, <3>2, SeenFields
  <2>6. Then(l, IF e = Anonymous THEN [rest EXCEPT !.step = "list"]
                ELSE Promote(rest, e))
    BY <1>4, <2>1, <2>3 DEF Loop
  <2>7. Explicabl!Goto(l, IF e = Anonymous THEN [seen EXCEPT !.step = "lookup"]
                          ELSE Explicabl!Promoting(seen, e))
    <3>1. CASE e = Anonymous
      <4>1. "list" \in LaneSteps /\ AbstractStep["list"] = "lookup"
        BY DEF LaneSteps, AbstractStep
      <4>2. /\ ALane([rest EXCEPT !.step = "list"])
            /\ Seen([rest EXCEPT !.step = "list"]) = [seen EXCEPT !.step = "lookup"]
        BY <2>4, <2>5, <4>1, MovedLane
      <4>. QED
        BY <2>6, <3>1, <4>2, ThenIsGoto
    <3>2. CASE e # Anonymous
      <4>1. /\ ALane(Promote(rest, e))
            /\ Seen(Promote(rest, e)) = Explicabl!Promoting(seen, e)
        BY <2>2, <2>4, <2>5, <3>2, PromoteIsPromoting
      <4>. QED
        BY <2>6, <3>2, <4>1, ThenIsGoto
    <3>. QED
      BY <3>1, <3>2
  <2>8. /\ seen = [s EXCEPT !.events = Tail(s.events)] /\ e = Head(s.events)
        /\ s.events # <<>>
    BY <1>2, <1>4, <2>1, <2>3
  <2>9. Explicabl!NextEvent(l, s)
    BY <2>7, <2>8 DEF Explicabl!NextEvent
  <2>. QED
    BY <1>1, <2>9
<1>. QED
  BY <1>3, <1>4

(* Both filter a log by the same function.                                 *)
LEMMA SameEvents ==
  ASSUME NEW log
  PROVE  Explicabl!DcrEvents(log) = DcrEvents(log)
BY DEF Explicabl!DcrEvents, DcrEvents, Explicabl!Registrations, Registrations,
       Explicabl!FoldLeft, FoldLeft, Explicabl!MapThenFoldSet, MapThenFoldSet,
       Explicabl!Max, Max

-----------------------------------------------------------------------------
(* The step of a handler is one of that webhook's, or none.                *)
LEMMA HandlerSeen ==
  ASSUME DcrInv, NEW l \in Lanes, lanes[l] # NoApp
  PROVE  /\ ALane(lanes[l]) /\ SeenLanes[l] = Seen(lanes[l])
         /\ Relies(lanes[l])
BY LanesSeen DEF DcrInv

LEMMA FailsIsCallFails ==
  ASSUME DcrTypeOK, Fails
  PROVE  Explicabl!CallFails /\ taken'.logs = taken.logs
BY DEF Fails, Explicabl!CallFails, DcrTypeOK

LEMMA WorksIsCallWorks ==
  ASSUME DcrTypeOK, Works
  PROVE  Explicabl!CallWorks /\ taken'.logs = taken.logs
BY DEF Works, Explicabl!CallWorks

LEMMA NobodyRaces ==
  ASSUME DcrTypeOK, NEW l \in Lanes, NEW h,
         Then(l, h) \/ Loop(l, h) \/ Throw(l, h)
  PROVE  told'.raced = told.raced
BY DEF Then, Loop, Throw, Respond, DcrTypeOK

LEMMA StaysPut ==
  ASSUME DcrInv, NEW l \in Lanes, NEW st \in LaneSteps, lanes[l] # NoApp,
         AbstractStep[st] = AbstractStep[lanes[l].step],
         Then(l, [lanes[l] EXCEPT !.step = st]), Works,
         UNCHANGED <<managed, tenant>>
  PROVE  UNCHANGED Explicabl!vars
<1>1. ALane(lanes[l]) /\ SeenLanes[l] = Seen(lanes[l])
  BY HandlerSeen
<1>2. PICK g : g = [lanes[l] EXCEPT !.step = st]
  OBVIOUS
<1>3. /\ ALane(g)
      /\ Seen(g) = [Seen(lanes[l]) EXCEPT !.step = AbstractStep[st]]
  BY <1>1, <1>2, MovedLane
<1>4. Seen(g) = Seen(lanes[l])
  <2>1. PICK h, a : h = lanes[l] /\ a = AbstractStep[st]
    OBVIOUS
  <2>2. PICK s : s = Seen(h)
    OBVIOUS
  <2>3. s = [step |-> a, events |-> h.events, cid |-> h.cid, alt |-> h.alt,
             read |-> h.read, owed |-> h.owed, healthy |-> h.healthy]
    BY <1>1, <2>1, <2>2, SeenFields
  <2>4. [s EXCEPT !.step = a] = s
    BY <2>3
  <2>. QED
    BY <1>3, <2>1, <2>2, <2>4
<1>5. SeenLanes' = [SeenLanes EXCEPT ![l] = SeenLanes[l]]
  <2>1. SeenLanes' = [SeenLanes EXCEPT ![l] = Seen(g)]
    BY <1>2, <1>3, LaneChanges DEF Then, DcrInv
  <2>. QED
    BY <1>1, <1>4, <2>1, Zenon
<1>6. SeenLanes' = SeenLanes
  BY <1>5 DEF SeenLanes
<1>7. UNCHANGED <<managed, tenant, replied, taken, told>>
  BY DEF Works, Then
<1>. QED
  BY <1>6, <1>7 DEF Explicabl!vars, Explicabl!auth0, Explicabl!history,
                    SeenLanes, Seen

LEMMA TokenStatusMaps ==
  ASSUME DcrInv, NEW l \in Lanes, TokenStatus(l)
  PROVE  Explicabl!GetMgmtToken(l) \/ UNCHANGED Explicabl!vars
<1>1. /\ ALane(lanes[l]) /\ SeenLanes[l] = Seen(lanes[l])
      /\ lanes[l] # NoApp /\ lanes[l].step = "token"
  BY HandlerSeen DEF TokenStatus, In
<1>2. Explicabl!At(l, "token")
  <2>1. AbstractStep["token"] = "token"
    BY DEF AbstractStep
  <2>. QED
    BY <2>1, AtIsIn DEF TokenStatus, DcrInv
<1>3. CASE Works /\ Then(l, [lanes[l] EXCEPT !.step = "tokenBody"])
  <2>1. /\ AbstractStep["tokenBody"] = "token" /\ AbstractStep["token"] = "token"
        /\ "tokenBody" \in LaneSteps
    BY DEF AbstractStep, LaneSteps
  <2>. QED
    BY <1>1, <1>3, <2>1, StaysPut DEF TokenStatus
<1>4. CASE Fails /\ Throw(l, lanes[l])
  <2>1. /\ Explicabl!CallFails /\ taken'.logs = taken.logs
        /\ told'.raced = told.raced
        /\ Explicabl!Fail(l, Explicabl!Unwell(SeenLanes[l]))
    BY <1>1, <1>4, FailsIsCallFails, ThrowIsFail, NobodyRaces DEF DcrInv
  <2>2. UNCHANGED <<managed, tenant>>
    BY DEF TokenStatus
  <2>. QED
    BY <1>2, <2>1, <2>2 DEF Explicabl!GetMgmtToken, Explicabl!auth0,
                            SeenLanes, Seen
<1>. QED
  BY <1>3, <1>4 DEF TokenStatus

LEMMA TokenBodyMaps ==
  ASSUME DcrInv, NEW l \in Lanes, TokenBody(l)
  PROVE  Explicabl!GetMgmtToken(l)
<1>1. ALane(lanes[l]) /\ SeenLanes[l] = Seen(lanes[l])
  BY HandlerSeen DEF TokenBody, In
<1>2. Explicabl!At(l, "token")
  <2>1. AbstractStep["tokenBody"] = "token"
    BY DEF AbstractStep
  <2>. QED
    BY <2>1, AtIsIn DEF TokenBody, DcrInv
<1>3. UNCHANGED <<managed, tenant>>
  BY DEF TokenBody
<1>4. CASE Works /\ Loop(l, lanes[l])
  <2>1. /\ Explicabl!CallWorks /\ taken'.logs = taken.logs
        /\ told'.raced = told.raced
        /\ Explicabl!NextEvent(l, SeenLanes[l])
    BY <1>1, <1>4, WorksIsCallWorks, LoopIsNextEvent, NobodyRaces DEF DcrInv
  <2>. QED
    BY <1>2, <1>3, <2>1 DEF Explicabl!GetMgmtToken, Explicabl!auth0,
                            SeenLanes, Seen
<1>5. CASE Fails /\ Throw(l, lanes[l])
  <2>1. /\ Explicabl!CallFails /\ taken'.logs = taken.logs
        /\ told'.raced = told.raced
        /\ Explicabl!Fail(l, Explicabl!Unwell(SeenLanes[l]))
    BY <1>1, <1>5, FailsIsCallFails, ThrowIsFail, NobodyRaces DEF DcrInv
  <2>. QED
    BY <1>2, <1>3, <2>1 DEF Explicabl!GetMgmtToken, Explicabl!auth0,
                            SeenLanes, Seen
<1>. QED
  BY <1>4, <1>5 DEF TokenBody

LEMMA ListClientsMaps ==
  ASSUME DcrInv, NEW l \in Lanes, ListClients(l)
  PROVE  Explicabl!FindNewest(l)
<1>1. ALane(lanes[l]) /\ SeenLanes[l] = Seen(lanes[l])
  BY HandlerSeen DEF ListClients, In
<1>2. Explicabl!At(l, "lookup")
  <2>1. AbstractStep["list"] = "lookup"
    BY DEF AbstractStep
  <2>. QED
    BY <2>1, AtIsIn DEF ListClients, DcrInv
<1>3. UNCHANGED <<managed, tenant>>
  BY DEF ListClients
<1>4. PICK h, s : h = lanes[l] /\ s = SeenLanes[l]
  OBVIOUS
<1>5. CASE Works /\ tenant.newest # NoApp /\ Then(l, Promote(h, tenant.newest))
  <2>1. PICK n \in Apps : n = tenant.newest
    BY <1>5 DEF DcrInv, DcrTypeOK
  <2>2. PICK g : g = Promote(h, n)
    OBVIOUS
  <2>3. ALane(g) /\ Seen(g) = Explicabl!Promoting(s, n) /\ Then(l, g)
    BY <1>1, <1>4, <1>5, <2>1, <2>2, PromoteIsPromoting
  <2>4. /\ Explicabl!CallWorks /\ taken'.logs = taken.logs
        /\ told'.raced = told.raced
        /\ Explicabl!Goto(l, Explicabl!Promoting(s, n))
    BY <1>5, <2>3, WorksIsCallWorks, ThenIsGoto, NobodyRaces DEF DcrInv
  <2>5. Explicabl!Goto(l, Explicabl!Promoting(s, tenant.newest))
    BY <2>1, <2>4 DEF Explicabl!Goto, Explicabl!Promoting
  <2>. QED
    BY <1>2, <1>3, <1>4, <1>5, <2>4, <2>5
       DEF Explicabl!FindNewest, Explicabl!Goto, Explicabl!auth0, SeenLanes,
           Seen
<1>6. CASE Works /\ tenant.newest = NoApp /\ Loop(l, h)
  <2>1. /\ Explicabl!CallWorks /\ taken'.logs = taken.logs
        /\ told'.raced = told.raced /\ Explicabl!NextEvent(l, s)
    BY <1>1, <1>4, <1>6, WorksIsCallWorks, LoopIsNextEvent, NobodyRaces
       DEF DcrInv
  <2>. QED
    BY <1>2, <1>3, <1>4, <1>6, <2>1
       DEF Explicabl!FindNewest, Explicabl!auth0, SeenLanes, Seen
<1>7. CASE Fails /\ Loop(l, [h EXCEPT !.healthy = FALSE])
  <2>1. PICK u : u = [h EXCEPT !.healthy = FALSE]
    OBVIOUS
  <2>2. ALane(u) /\ Seen(u) = Explicabl!Unwell(s)
    BY <1>1, <1>4, <2>1, UnwellLane
  <2>3. /\ Explicabl!CallFails /\ taken'.logs = taken.logs
        /\ told'.raced = told.raced
        /\ Explicabl!NextEvent(l, Explicabl!Unwell(s))
    BY <1>7, <2>1, <2>2, FailsIsCallFails, LoopIsNextEvent, NobodyRaces
       DEF DcrInv
  <2>. QED
    BY <1>2, <1>3, <1>4, <2>3
       DEF Explicabl!FindNewest, Explicabl!auth0, SeenLanes, Seen
<1>8. CASE Fails /\ Throw(l, h)
  <2>1. /\ Explicabl!CallFails /\ taken'.logs = taken.logs
        /\ told'.raced = told.raced
        /\ Explicabl!Fail(l, Explicabl!Unwell(s))
    BY <1>1, <1>4, <1>8, FailsIsCallFails, ThrowIsFail, NobodyRaces DEF DcrInv
  <2>. QED
    BY <1>2, <1>3, <1>4, <2>1
       DEF Explicabl!FindNewest, Explicabl!auth0, SeenLanes, Seen
<1>. QED
  BY <1>4, <1>5, <1>6, <1>7, <1>8 DEF ListClients

LEMMA PatchClientMaps ==
  ASSUME DcrInv, NEW l \in Lanes, PatchClient(l)
  PROVE  Explicabl!PromoteClient(l)
<1>1. ALane(lanes[l]) /\ SeenLanes[l] = Seen(lanes[l])
  BY HandlerSeen DEF PatchClient, In
<1>2. Explicabl!At(l, "promote")
  <2>1. AbstractStep["promote"] = "promote"
    BY DEF AbstractStep
  <2>. QED
    BY <2>1, AtIsIn DEF PatchClient, DcrInv
<1>3. PICK h, s : h = lanes[l] /\ s = SeenLanes[l]
  OBVIOUS
<1>4. ALane(h) /\ s = Seen(h) /\ s.cid = h.cid
  BY <1>1, <1>3, SeenFields
<1>5. managed' = managed
  BY DEF PatchClient
<1>6. PICK patched :
        /\ patched = [tenant EXCEPT !.promoted = @ \cup ({h.cid} \cap tenant.known)]
        /\ patched.known = tenant.known /\ patched.newest = tenant.newest
        /\ patched.enabled = tenant.enabled
        /\ patched.promoted = tenant.promoted \cup ({s.cid} \cap tenant.known)
  <2>1. PICK p : p = tenant.promoted \cup ({h.cid} \cap tenant.known)
    OBVIOUS
  <2>2. PICK patched : patched = [tenant EXCEPT !.promoted = p]
    OBVIOUS
  <2>3. /\ patched.known = tenant.known /\ patched.newest = tenant.newest
        /\ patched.enabled = tenant.enabled /\ patched.promoted = p
    BY <2>2 DEF DcrInv, DcrTypeOK
  <2>. QED
    BY <1>4, <2>1, <2>2, <2>3
<1>7. CASE Works /\ h.cid \in tenant.known /\ tenant' = patched
             /\ Then(l, [h EXCEPT !.step = "connection"])
  <2>1. PICK g : g = [h EXCEPT !.step = "connection"]
    OBVIOUS
  <2>2. "connection" \in LaneSteps /\ AbstractStep["connection"] = "read"
    BY DEF LaneSteps, AbstractStep
  <2>3. ALane(g) /\ Seen(g) = [s EXCEPT !.step = "read"] /\ Then(l, g)
    BY <1>4, <1>7, <2>1, <2>2, MovedLane
  <2>4. /\ Explicabl!CallWorks /\ taken'.logs = taken.logs
        /\ told'.raced = told.raced
        /\ Explicabl!Goto(l, [s EXCEPT !.step = "read"])
    BY <1>7, <2>3, WorksIsCallWorks, ThenIsGoto, NobodyRaces DEF DcrInv
  <2>5. s.cid \in tenant.known /\ tenant'.promoted = tenant.promoted \cup {s.cid}
    BY <1>4, <1>6, <1>7
  <2>. QED
    BY <1>2, <1>3, <1>5, <1>6, <1>7, <2>4, <2>5
       DEF Explicabl!PromoteClient, Explicabl!Goto, SeenLanes, Seen
<1>8. CASE Works /\ h.cid \notin tenant.known /\ UNCHANGED tenant
             /\ Then(l, [h EXCEPT !.step = "relist", !.healthy = FALSE])
  <2>1. PICK u, g : /\ u = [h EXCEPT !.healthy = FALSE]
                    /\ g = [u EXCEPT !.step = "relist"]
    OBVIOUS
  <2>2. "relist" \in LaneSteps /\ AbstractStep["relist"] = "relookup"
    BY DEF LaneSteps, AbstractStep
  <2>3. ALane(u) /\ Seen(u) = Explicabl!Unwell(s)
    BY <1>4, <2>1, UnwellLane
  <2>4. ALane(g) /\ Seen(g) = [Explicabl!Unwell(s) EXCEPT !.step = "relookup"]
    <3>1. ALane(g) /\ Seen(g) = [Seen(u) EXCEPT !.step = AbstractStep["relist"]]
      BY <2>1, <2>2, <2>3, MovedLane
    <3>2. [Seen(u) EXCEPT !.step = AbstractStep["relist"]]
            = [Explicabl!Unwell(s) EXCEPT !.step = "relookup"]
      BY <2>2, <2>3, Zenon
    <3>. QED
      BY <3>1, <3>2
  <2>5. Then(l, g)
    <3>1. g = [h EXCEPT !.step = "relist", !.healthy = FALSE]
      <4>1. h = [step |-> h.step, events |-> h.events, cid |-> h.cid,
                 alt |-> h.alt, read |-> h.read, owed |-> h.owed,
                 healthy |-> h.healthy]
        BY <1>4, LaneFields
      <4>. QED
        BY <2>1, <4>1
    <3>. QED
      BY <1>8, <3>1
  <2>6. /\ Explicabl!CallWorks /\ taken'.logs = taken.logs
        /\ told'.raced = told.raced
        /\ Explicabl!Goto(l, [Explicabl!Unwell(s) EXCEPT !.step = "relookup"])
    BY <1>8, <2>4, <2>5, WorksIsCallWorks, ThenIsGoto, NobodyRaces DEF DcrInv
  <2>. QED
    BY <1>2, <1>3, <1>4, <1>5, <1>8, <2>6
       DEF Explicabl!PromoteClient, Explicabl!Goto, SeenLanes, Seen
<1>9. CASE Fails /\ tenant' \in {tenant, patched} /\ Throw(l, h)
  <2>1. /\ Explicabl!CallFails /\ taken'.logs = taken.logs
        /\ told'.raced = told.raced
        /\ Explicabl!Fail(l, Explicabl!Unwell(s))
    BY <1>4, <1>9, FailsIsCallFails, ThrowIsFail, NobodyRaces DEF DcrInv
  <2>. QED
    BY <1>2, <1>3, <1>5, <1>6, <1>9, <2>1
       DEF Explicabl!PromoteClient, Explicabl!Goto, SeenLanes, Seen
<1>. QED
  BY <1>3, <1>6, <1>7, <1>8, <1>9 DEF PatchClient

LEMMA ListAgainMaps ==
  ASSUME DcrInv, NEW l \in Lanes, ListAgain(l)
  PROVE  Explicabl!FindAlternative(l)
<1>1. /\ ALane(lanes[l]) /\ SeenLanes[l] = Seen(lanes[l])
      /\ ~lanes[l].healthy
  BY HandlerSeen DEF ListAgain, In, Relies
<1>2. Explicabl!At(l, "relookup")
  <2>1. AbstractStep["relist"] = "relookup"
    BY DEF AbstractStep
  <2>. QED
    BY <2>1, AtIsIn DEF ListAgain, DcrInv
<1>3. PICK h, s : h = lanes[l] /\ s = SeenLanes[l]
  OBVIOUS
<1>4. ALane(h) /\ s = Seen(h) /\ s.cid = h.cid
  BY <1>1, <1>3, SeenFields
<1>5. UNCHANGED <<managed, tenant>>
  BY DEF ListAgain
<1>6. CASE /\ Works /\ tenant.newest \notin {NoApp, h.cid}
           /\ Then(l, [h EXCEPT !.step = "repromote", !.alt = tenant.newest])
  <2>1. PICK n \in Apps : n = tenant.newest
    BY <1>6 DEF DcrInv, DcrTypeOK
  <2>2. PICK g : g = [h EXCEPT !.step = "repromote", !.alt = n]
    OBVIOUS
  <2>3. g = [step |-> "repromote", events |-> h.events, cid |-> h.cid,
             alt |-> n, read |-> h.read, owed |-> h.owed,
             healthy |-> h.healthy]
    <3>1. h = [step |-> h.step, events |-> h.events, cid |-> h.cid,
               alt |-> h.alt, read |-> h.read, owed |-> h.owed,
               healthy |-> h.healthy]
      BY <1>4, LaneFields
    <3>. QED
      BY <2>2, <3>1
  <2>4. ALane(g)
    BY <1>4, <2>3, LaneFields DEF ALane, LanesAt, LaneSteps
  <2>5. Seen(g) = [s EXCEPT !.step = "repromote", !.alt = n]
    <3>1. AbstractStep["repromote"] = "repromote"
      BY DEF AbstractStep
    <3>2. Seen(g) = [step |-> "repromote", events |-> h.events, cid |-> h.cid,
                     alt |-> n, read |-> h.read, owed |-> h.owed,
                     healthy |-> h.healthy]
      BY <2>3, <2>4, <3>1, SeenFields
    <3>3. PICK v : v = [s EXCEPT !.step = "repromote", !.alt = n]
      OBVIOUS
    <3>4. v = [step |-> "repromote", events |-> s.events, cid |-> s.cid,
               alt |-> n, read |-> s.read, owed |-> s.owed,
               healthy |-> s.healthy]
      <4>1. s = [step |-> s.step, events |-> s.events, cid |-> s.cid,
                 alt |-> s.alt, read |-> s.read, owed |-> s.owed,
                 healthy |-> s.healthy]
        BY <1>4, SeenForm
      <4>. QED
        BY <3>3, <4>1
    <3>5. Seen(g) = v
      BY <1>4, <3>2, <3>4, SeenForm
    <3>. QED
      BY <3>3, <3>5
  <2>6. /\ Explicabl!CallWorks /\ taken'.logs = taken.logs
        /\ told'.raced = told.raced
        /\ Explicabl!Goto(l, [s EXCEPT !.step = "repromote", !.alt = n])
    BY <1>6, <2>1, <2>2, <2>4, <2>5, WorksIsCallWorks, ThenIsGoto, NobodyRaces
       DEF DcrInv
  <2>. QED
    BY <1>2, <1>3, <1>4, <1>5, <1>6, <2>1, <2>6
       DEF Explicabl!FindAlternative, Explicabl!Goto, Explicabl!auth0,
           SeenLanes, Seen
<1>7. ASSUME Throw(l, h)
      PROVE  Explicabl!Fail(l, s) /\ told'.raced = told.raced
  BY <1>1, <1>3, <1>4, <1>7, ThrowIsFail, NobodyRaces DEF DcrInv
<1>8. CASE Works /\ tenant.newest \in {NoApp, h.cid} /\ Throw(l, h)
  <2>1. Explicabl!CallWorks /\ taken'.logs = taken.logs
    BY <1>8, WorksIsCallWorks DEF DcrInv
  <2>. QED
    BY <1>2, <1>3, <1>4, <1>5, <1>7, <1>8, <2>1
       DEF Explicabl!FindAlternative, Explicabl!auth0, SeenLanes, Seen
<1>9. CASE Fails /\ Throw(l, h)
  <2>1. Explicabl!CallFails /\ taken'.logs = taken.logs
    BY <1>9, FailsIsCallFails DEF DcrInv
  <2>. QED
    BY <1>2, <1>3, <1>5, <1>7, <1>9, <2>1
       DEF Explicabl!FindAlternative, Explicabl!auth0, SeenLanes, Seen
<1>. QED
  BY <1>3, <1>6, <1>8, <1>9 DEF ListAgain

LEMMA PatchAlternativeMaps ==
  ASSUME DcrInv, NEW l \in Lanes, PatchAlternative(l)
  PROVE  Explicabl!PromoteAlternative(l)
<1>1. /\ ALane(lanes[l]) /\ SeenLanes[l] = Seen(lanes[l])
      /\ ~lanes[l].healthy /\ lanes[l].alt \in Apps
  BY HandlerSeen DEF PatchAlternative, In, Relies
<1>2. Explicabl!At(l, "repromote")
  <2>1. AbstractStep["repromote"] = "repromote"
    BY DEF AbstractStep
  <2>. QED
    BY <2>1, AtIsIn DEF PatchAlternative, DcrInv
<1>3. PICK h, s : h = lanes[l] /\ s = SeenLanes[l]
  OBVIOUS
<1>4. ALane(h) /\ s = Seen(h) /\ s.alt = h.alt
  BY <1>1, <1>3, SeenFields
<1>5. managed' = managed
  BY DEF PatchAlternative
<1>6. PICK patched :
        /\ patched = [tenant EXCEPT !.promoted = @ \cup {h.alt}]
        /\ patched.known = tenant.known /\ patched.newest = tenant.newest
        /\ patched.enabled = tenant.enabled
        /\ patched.promoted = tenant.promoted \cup {s.alt}
  <2>1. PICK p : p = tenant.promoted \cup {h.alt}
    OBVIOUS
  <2>2. PICK patched : patched = [tenant EXCEPT !.promoted = p]
    OBVIOUS
  <2>3. /\ patched.known = tenant.known /\ patched.newest = tenant.newest
        /\ patched.enabled = tenant.enabled /\ patched.promoted = p
    BY <2>2 DEF DcrInv, DcrTypeOK
  <2>. QED
    BY <1>4, <2>1, <2>2, <2>3
<1>7. CASE Works /\ tenant' = patched /\ Then(l, Retry(h))
  <2>1. PICK g, o : g = Retry(h) /\ o = (h.owed \ {h.cid}) \cup {h.alt}
    OBVIOUS
  <2>2. o \in SUBSET Apps
    BY <1>1, <1>3, <1>4, <2>1, LaneFields
  <2>3. g = [step |-> "connection", events |-> h.events, cid |-> h.alt,
             alt |-> h.alt, read |-> h.read, owed |-> o,
             healthy |-> h.healthy]
    <3>1. g = [h EXCEPT !.step = "connection", !.cid = h.alt, !.owed = o]
      BY <2>1 DEF Retry
    <3>2. h = [step |-> h.step, events |-> h.events, cid |-> h.cid,
               alt |-> h.alt, read |-> h.read, owed |-> h.owed,
               healthy |-> h.healthy]
      BY <1>4, LaneFields
    <3>. QED
      BY <3>1, <3>2
  <2>4. ALane(g)
    BY <1>4, <2>2, <2>3, LaneFields DEF ALane, LanesAt, LaneSteps
  <2>5. Seen(g) = Explicabl!Retried(s)
    <3>1. AbstractStep["connection"] = "read"
      BY DEF AbstractStep
    <3>2. Seen(g) = [step |-> "read", events |-> h.events, cid |-> h.alt,
                     alt |-> h.alt, read |-> h.read, owed |-> o,
                     healthy |-> h.healthy]
      BY <2>3, <2>4, <3>1, SeenFields
    <3>3. s.owed = h.owed /\ s.cid = h.cid /\ s.alt = h.alt
      BY <1>4, SeenForm
    <3>4. PICK v : v = [s EXCEPT !.step = "read", !.cid = s.alt, !.owed = o]
      OBVIOUS
    <3>5. Explicabl!Retried(s) = v
      BY <2>1, <3>3, <3>4 DEF Explicabl!Retried
    <3>6. v = [step |-> "read", events |-> s.events, cid |-> s.alt,
               alt |-> s.alt, read |-> s.read, owed |-> o,
               healthy |-> s.healthy]
      <4>1. s = [step |-> s.step, events |-> s.events, cid |-> s.cid,
                 alt |-> s.alt, read |-> s.read, owed |-> s.owed,
                 healthy |-> s.healthy]
        BY <1>4, SeenForm
      <4>. QED
        BY <3>4, <4>1
    <3>7. Seen(g) = v
      BY <1>4, <3>2, <3>6, SeenForm
    <3>. QED
      BY <3>5, <3>7
  <2>6. /\ Explicabl!CallWorks /\ taken'.logs = taken.logs
        /\ told'.raced = told.raced
        /\ Explicabl!Goto(l, Explicabl!Retried(s))
    BY <1>7, <2>1, <2>4, <2>5, WorksIsCallWorks, ThenIsGoto, NobodyRaces
       DEF DcrInv
  <2>. QED
    BY <1>2, <1>3, <1>5, <1>6, <1>7, <2>6
       DEF Explicabl!PromoteAlternative, Explicabl!Goto, SeenLanes, Seen
<1>8. CASE Fails /\ tenant' \in {tenant, patched} /\ Throw(l, h)
  <2>1. /\ Explicabl!CallFails /\ taken'.logs = taken.logs
        /\ told'.raced = told.raced /\ Explicabl!Fail(l, s)
    BY <1>1, <1>3, <1>4, <1>8, FailsIsCallFails, ThrowIsFail, NobodyRaces
       DEF DcrInv
  <2>. QED
    BY <1>2, <1>3, <1>5, <1>6, <1>8, <2>1
       DEF Explicabl!PromoteAlternative, Explicabl!Goto, SeenLanes, Seen
<1>. QED
  BY <1>3, <1>6, <1>7, <1>8 DEF PatchAlternative

(* The race is noted alike: between read and write is between the first    *)
(* call's answer and the second call.                                      *)
LEMMA WritersAlike ==
  ASSUME DcrInv, NEW k \in Lanes
  PROVE  Explicabl!At(k, "write") <=> In(k, "connectionBody") \/ In(k, "patch")
<1>1. CASE lanes[k] = NoApp
  <2>1. SeenLanes[k] = NoApp
    BY <1>1, LanesSeen DEF DcrInv
  <2>. QED
    BY <1>1, <2>1 DEF In, Explicabl!At, SeenLanes, Seen
<1>2. CASE lanes[k] # NoApp
  <2>1. ALane(lanes[k]) /\ SeenLanes[k] = Seen(lanes[k])
    BY <1>2, HandlerSeen
  <2>2. /\ SeenLanes[k].step = AbstractStep[lanes[k].step]
        /\ SeenLanes[k] # NoApp
    BY <2>1, SeenFields
  <2>3. lanes[k].step \in LaneSteps
    BY <2>1, LaneFields
  <2>4. SeenLanes[k].step = "write"
          <=> lanes[k].step \in {"connectionBody", "patch"}
    BY <2>2, <2>3, AbstractSteps1
  <2>. QED
    BY <1>2, <2>2, <2>4 DEF In, Explicabl!At, SeenLanes, Seen
<1>. QED
  BY <1>1, <1>2

LEMMA ConnectionStatusMaps ==
  ASSUME DcrInv, NEW l \in Lanes, ConnectionStatus(l)
  PROVE  Explicabl!ReadConnection(l)
<1>1. ALane(lanes[l]) /\ SeenLanes[l] = Seen(lanes[l])
  BY HandlerSeen DEF ConnectionStatus, In
<1>2. Explicabl!At(l, "read")
  <2>1. AbstractStep["connection"] = "read"
    BY DEF AbstractStep
  <2>. QED
    BY <2>1, AtIsIn DEF ConnectionStatus, DcrInv
<1>3. PICK h, s : h = lanes[l] /\ s = SeenLanes[l]
  OBVIOUS
<1>4. ALane(h) /\ s = Seen(h)
  BY <1>1, <1>3
<1>5. UNCHANGED <<managed, tenant>>
  BY DEF ConnectionStatus
<1>6. CASE /\ Works /\ replied' = replied
           /\ lanes' = [lanes EXCEPT ![l] = [@ EXCEPT !.step = "connectionBody",
                                                      !.read = tenant.enabled]]
           /\ told' = [told EXCEPT !.raced =
                \/ @
                \/ \E k \in Lanes : In(k, "connectionBody") \/ In(k, "patch")]
  <2>1. PICK r \in SUBSET Apps : r = tenant.enabled
    BY DEF DcrInv, DcrTypeOK
  <2>2. PICK g : g = [h EXCEPT !.step = "connectionBody", !.read = r]
    OBVIOUS
  <2>3. g = [step |-> "connectionBody", events |-> h.events, cid |-> h.cid,
             alt |-> h.alt, read |-> r, owed |-> h.owed,
             healthy |-> h.healthy]
    <3>1. h = [step |-> h.step, events |-> h.events, cid |-> h.cid,
               alt |-> h.alt, read |-> h.read, owed |-> h.owed,
               healthy |-> h.healthy]
      BY <1>4, LaneFields
    <3>. QED
      BY <2>2, <3>1
  <2>4. ALane(g)
    BY <1>4, <2>3, LaneFields DEF ALane, LanesAt, LaneSteps
  <2>5. PICK v : v = [s EXCEPT !.step = "write", !.read = r]
    OBVIOUS
  <2>6. Seen(g) = v
    <3>1. AbstractStep["connectionBody"] = "write"
      BY DEF AbstractStep
    <3>2. Seen(g) = [step |-> "write", events |-> h.events, cid |-> h.cid,
                     alt |-> h.alt, read |-> r, owed |-> h.owed,
                     healthy |-> h.healthy]
      BY <2>3, <2>4, <3>1, SeenFields
    <3>3. v = [step |-> "write", events |-> s.events, cid |-> s.cid,
               alt |-> s.alt, read |-> r, owed |-> s.owed,
               healthy |-> s.healthy]
      <4>1. s = [step |-> s.step, events |-> s.events, cid |-> s.cid,
                 alt |-> s.alt, read |-> s.read, owed |-> s.owed,
                 healthy |-> s.healthy]
        BY <1>4, SeenForm
      <4>. QED
        BY <2>5, <4>1
    <3>. QED
      BY <1>4, <3>2, <3>3, SeenForm
  <2>7. SeenLanes' = [SeenLanes EXCEPT ![l] = v]
    <3>1. lanes' = [lanes EXCEPT ![l] = g]
      BY <1>3, <1>6, <2>1, <2>2 DEF DcrInv, DcrTypeOK
    <3>. QED
      BY <2>4, <2>6, <3>1, LaneChanges DEF DcrInv
  <2>8. Explicabl!CallWorks /\ taken'.logs = taken.logs
    BY <1>6, WorksIsCallWorks DEF DcrInv
  <2>9. /\ told'.apps = told.apps
        /\ told'.raced = IF \E k \in Lanes : Explicabl!At(k, "write") THEN TRUE
                         ELSE told.raced
    <3>1. PICK race \in BOOLEAN :
            race <=> \E k \in Lanes : In(k, "connectionBody") \/ In(k, "patch")
      OBVIOUS
    <3>2. PICK was \in BOOLEAN : was = told.raced
      BY DEF DcrInv, DcrTypeOK
    <3>3. told'.apps = told.apps /\ told'.raced = (was \/ race)
      BY <1>6, <3>1, <3>2 DEF DcrInv, DcrTypeOK
    <3>4. race <=> \E k \in Lanes : Explicabl!At(k, "write")
      BY <3>1, WritersAlike
    <3>. QED
      BY <3>2, <3>3, <3>4
  <2>10. Explicabl!Goto(l, v)
    BY <1>6, <2>7, <2>9 DEF Explicabl!Goto, SeenLanes, Seen
  <2>11. Explicabl!Goto(l, [SeenLanes[l] EXCEPT !.step = "write", !.read = tenant.enabled])
    BY <1>3, <2>1, <2>5, <2>10 DEF Explicabl!Goto
  <2>. QED
    BY <1>2, <1>5, <2>8, <2>9, <2>11
       DEF Explicabl!ReadConnection, Explicabl!Goto, Explicabl!auth0,
           SeenLanes, Seen
<1>7. CASE Fails /\ Throw(l, h)
  <2>1. /\ Explicabl!CallFails /\ taken'.logs = taken.logs
        /\ told'.raced = told.raced
        /\ Explicabl!Fail(l, Explicabl!Unwell(s))
    BY <1>4, <1>7, FailsIsCallFails, ThrowIsFail, NobodyRaces DEF DcrInv
  <2>. QED
    BY <1>2, <1>3, <1>5, <2>1
       DEF Explicabl!ReadConnection, Explicabl!auth0, SeenLanes, Seen
<1>. QED
  BY <1>3, <1>6, <1>7 DEF ConnectionStatus

LEMMA ConnectionBodyMaps ==
  ASSUME DcrInv, NEW l \in Lanes, ConnectionBody(l)
  PROVE  Explicabl!PatchConnection(l) \/ UNCHANGED Explicabl!vars
<1>1. /\ ALane(lanes[l]) /\ SeenLanes[l] = Seen(lanes[l])
      /\ lanes[l] # NoApp /\ lanes[l].step = "connectionBody"
  BY HandlerSeen DEF ConnectionBody, In
<1>2. Explicabl!At(l, "write")
  BY WritersAlike DEF ConnectionBody
<1>3. UNCHANGED <<managed, tenant>>
  BY DEF ConnectionBody
<1>4. CASE Works /\ Then(l, [lanes[l] EXCEPT !.step = "patch"])
  <2>1. /\ AbstractStep["connectionBody"] = "write"
        /\ AbstractStep["patch"] = "write" /\ "patch" \in LaneSteps
    BY DEF AbstractStep, LaneSteps
  <2>. QED
    BY <1>1, <1>3, <1>4, <2>1, StaysPut
<1>5. CASE Fails /\ Throw(l, lanes[l])
  <2>1. /\ Explicabl!CallFails /\ taken'.logs = taken.logs
        /\ told'.raced = told.raced
        /\ Explicabl!Fail(l, Explicabl!Unwell(SeenLanes[l]))
    BY <1>1, <1>5, FailsIsCallFails, ThrowIsFail, NobodyRaces DEF DcrInv
  <2>. QED
    BY <1>2, <1>3, <2>1 DEF Explicabl!PatchConnection, SeenLanes, Seen
<1>. QED
  BY <1>4, <1>5 DEF ConnectionBody

LEMMA PatchEnabledMaps ==
  ASSUME DcrInv, NEW l \in Lanes, PatchEnabled(l)
  PROVE  Explicabl!PatchConnection(l)
<1>1. ALane(lanes[l]) /\ SeenLanes[l] = Seen(lanes[l])
  BY HandlerSeen DEF PatchEnabled, In
<1>2. Explicabl!At(l, "write")
  BY WritersAlike DEF PatchEnabled
<1>3. PICK h, s : h = lanes[l] /\ s = SeenLanes[l]
  OBVIOUS
<1>4. ALane(h) /\ s = Seen(h) /\ s.cid = h.cid /\ s.read = h.read
  BY <1>1, <1>3, SeenForm
<1>5. managed' = managed
  BY DEF PatchEnabled
<1>6. PICK patched :
        /\ patched = [tenant EXCEPT !.enabled = h.read \cup {h.cid}]
        /\ patched.known = tenant.known /\ patched.newest = tenant.newest
        /\ patched.promoted = tenant.promoted
        /\ patched.enabled = Explicabl!WithClient(s)
  <2>1. PICK p : p = h.read \cup {h.cid}
    OBVIOUS
  <2>2. PICK patched : patched = [tenant EXCEPT !.enabled = p]
    OBVIOUS
  <2>3. /\ patched.known = tenant.known /\ patched.newest = tenant.newest
        /\ patched.promoted = tenant.promoted /\ patched.enabled = p
    BY <2>2 DEF DcrInv, DcrTypeOK
  <2>. QED
    BY <1>4, <2>1, <2>2, <2>3 DEF Explicabl!WithClient
<1>7. CASE Works /\ tenant' = patched /\ Loop(l, h)
  <2>1. /\ Explicabl!CallWorks /\ taken'.logs = taken.logs
        /\ told'.raced = told.raced /\ Explicabl!NextEvent(l, s)
    BY <1>4, <1>7, WorksIsCallWorks, LoopIsNextEvent, NobodyRaces DEF DcrInv
  <2>2. "grants" \notin IF managed THEN {"secret", "mgmt"} ELSE {"secret"}
    OBVIOUS
  <2>. QED
    BY <1>2, <1>3, <1>5, <1>6, <1>7, <2>1, <2>2
       DEF Explicabl!PatchConnection, SeenLanes, Seen
<1>8. CASE Fails /\ tenant' \in {tenant, patched} /\ Throw(l, h)
  <2>1. /\ Explicabl!CallFails /\ taken'.logs = taken.logs
        /\ told'.raced = told.raced
        /\ Explicabl!Fail(l, Explicabl!Unwell(s))
    BY <1>4, <1>8, FailsIsCallFails, ThrowIsFail, NobodyRaces DEF DcrInv
  <2>. QED
    BY <1>2, <1>3, <1>5, <1>6, <1>8, <2>1
       DEF Explicabl!PatchConnection, SeenLanes, Seen
<1>. QED
  BY <1>3, <1>6, <1>7, <1>8 DEF PatchEnabled

(* What begins and ends handlers, and what happens at Auth0.               *)
LEMMA HandleMaps ==
  ASSUME DcrInv, NEW l \in Lanes, NEW log \in Logs, Handle(l, log)
  PROVE  Explicabl!Deliver(l, log)
<1>1. PICK e, g : e = DcrEvents(log) /\ g = Lane(log)
  OBVIOUS
<1>2. e \in Seq(Apps \cup {Anonymous})
  <2>1. log \in Seq((Apps \cup {Anonymous}) \cup {Unrelated})
    <3>1. Apps \cup {Anonymous, Unrelated} = (Apps \cup {Anonymous}) \cup {Unrelated}
      OBVIOUS
    <3>. QED
      BY <3>1, ProxyablDcrAssumption
  <2>. QED
    BY <1>1, <2>1, RegistrationsAreEvents DEF DcrEvents
<1>3. g = [step |-> "token", events |-> e, cid |-> NoApp, alt |-> NoApp,
           read |-> {}, owed |-> {}, healthy |-> TRUE]
  BY <1>1 DEF Lane
<1>4. ALane(g)
  BY <1>2, <1>3 DEF ALane, LanesAt, LaneSteps
<1>5. Seen(g) = Explicabl!Handler(log)
  <2>1. AbstractStep["token"] = "token"
    BY DEF AbstractStep
  <2>2. Seen(g) = [step |-> "token", events |-> e, cid |-> NoApp,
                   alt |-> NoApp, read |-> {}, owed |-> {}, healthy |-> TRUE]
    BY <1>3, <1>4, <2>1, SeenFields
  <2>3. Explicabl!DcrEvents(log) = e
    BY <1>1, SameEvents
  <2>. QED
    BY <2>2, <2>3 DEF Explicabl!Handler
<1>6. SeenLanes' = [SeenLanes EXCEPT ![l] = Explicabl!Handler(log)]
  <2>1. lanes' = [lanes EXCEPT ![l] = g]
    BY <1>1 DEF Handle
  <2>2. SeenLanes' = [SeenLanes EXCEPT ![l] = Seen(g)]
    BY <1>4, <2>1, LaneChanges DEF DcrInv
  <2>. QED
    BY <1>5, <2>2, Zenon
<1>7. SeenLanes[l] = NoApp /\ Explicabl!DcrEvents(log) # <<>>
  BY SameEvents, LanesSeen DEF Handle, DcrInv
<1>8. /\ taken.logs < MaxLogs /\ taken'.logs = taken.logs + 1
      /\ taken'.failures = taken.failures
      /\ managed /\ UNCHANGED <<managed, tenant, replied, told>>
  BY DEF Handle, DcrInv, DcrTypeOK
<1>9. {"secret", "mgmt"}
        \subseteq IF managed THEN {"secret", "mgmt"} ELSE {"secret"}
  BY <1>8
<1>. QED
  BY <1>6, <1>7, <1>8, <1>9
     DEF Explicabl!Deliver, Explicabl!auth0, Explicabl!history, SeenLanes, Seen

LEMMA GateMaps ==
  ASSUME DcrInv, Gate
  PROVE  Explicabl!Refuse
<1>1. PICK status \in {200, 401, 429, 501} :
        /\ status = 501 => ~managed
        /\ status = 200 => managed /\ \E log \in Logs : DcrEvents(log) = <<>>
        /\ replied' = [status |-> status, healthy |-> TRUE]
  BY DEF Gate
<1>2. UNCHANGED <<managed, tenant, lanes, taken, told>>
  BY DEF Gate
<1>3. UNCHANGED SeenLanes
  BY <1>2 DEF SeenLanes, Seen
<1>4. status = 200 => \E log \in Logs : Explicabl!DcrEvents(log) = <<>>
  BY <1>1, SameEvents
<1>. DEFINE set == IF managed THEN {"secret", "mgmt"} ELSE {"secret"}
            Due(st) ==
              \/ st = 429
              \/ st = 503 /\ "secret" \notin set
              \/ st = 401 /\ "secret" \in set
              \/ st = 501 /\ "secret" \in set /\ "mgmt" \notin set
              \/ /\ st = 200 /\ {"secret", "mgmt"} \subseteq set
                 /\ \E log \in Logs : Explicabl!DcrEvents(log) = <<>>
<1>5. Due(status)
  <2>1. /\ "secret" \in set
        /\ managed => {"secret", "mgmt"} \subseteq set
        /\ ~managed => "mgmt" \notin set
    OBVIOUS
  <2>. HIDE DEF set
  <2>. QED
    BY <1>1, <1>4, <2>1
<1>6. \E st \in {200, 401, 429, 501, 503} :
        replied' = [status |-> st, healthy |-> TRUE] /\ Due(st)
  <2>1. status \in {200, 401, 429, 501, 503}
    OBVIOUS
  <2>2. replied' = [status |-> status, healthy |-> TRUE]
    BY <1>1
  <2>3. replied' = [status |-> status, healthy |-> TRUE] /\ Due(status)
    BY <1>5, <2>2
  <2>. HIDE DEF Due
  <2>. QED
    BY <2>1, <2>3, Zenon
<1>7. UNCHANGED <<set, tenant.known, tenant.newest, tenant.promoted,
                  tenant.enabled, SeenLanes, taken.logs, taken.failures,
                  told.apps, told.raced>>
  BY <1>2, <1>3
<1>8. UNCHANGED <<set, Explicabl!auth0, SeenLanes, taken.logs, taken.failures,
                  Explicabl!history>>
  BY <1>7 DEF Explicabl!auth0, Explicabl!history
<1>. QED
  BY <1>6, <1>8 DEF Explicabl!Refuse, SeenLanes, Seen

LEMMA RegisterMaps ==
  ASSUME DcrInv, NEW app \in Apps, RegisterApp(app)
  PROVE  Explicabl!Register(app)
<1>1. PICK newest \in {tenant.newest, app} :
        tenant' = [tenant EXCEPT !.known = @ \cup {app}, !.newest = newest]
  BY DEF RegisterApp
<1>2. PICK known : known = tenant.known \cup {app}
  OBVIOUS
<1>3. tenant' = [tenant EXCEPT !.known = known, !.newest = newest]
  BY <1>1, <1>2
<1>4. /\ tenant'.known = known /\ tenant'.newest = newest
      /\ tenant'.promoted = tenant.promoted /\ tenant'.enabled = tenant.enabled
  BY <1>3 DEF DcrInv, DcrTypeOK
<1>5. UNCHANGED <<managed, lanes, replied, taken, told>> /\ app \notin tenant.known
  BY DEF RegisterApp
<1>. QED
  BY <1>1, <1>2, <1>4, <1>5 DEF Explicabl!Register, Explicabl!history

LEMMA AgeMaps ==
  ASSUME DcrInv, AgeApp
  PROVE  Explicabl!Age
<1>1. /\ tenant'.known = tenant.known /\ tenant'.newest = NoApp
      /\ tenant'.promoted = tenant.promoted /\ tenant'.enabled = tenant.enabled
  BY DEF AgeApp, DcrInv, DcrTypeOK
<1>. QED
  BY <1>1 DEF AgeApp, Explicabl!Age, Explicabl!history

LEMMA CrashMaps ==
  ASSUME DcrInv, DcrCrash
  PROVE  Explicabl!Crash
<1>1. SeenLanes' = [l \in Lanes |-> NoApp]
  BY DEF DcrCrash, SeenLanes
<1>2. \E l \in Lanes : SeenLanes[l] # NoApp
  BY LanesSeen DEF DcrCrash, DcrInv
<1>. QED
  BY <1>1, <1>2 DEF DcrCrash, Explicabl!Crash, Explicabl!auth0,
                    Explicabl!history, SeenLanes, Seen

LEMMA StepMaps ==
  DcrInv /\ [DcrNext]_dcrVars => [Explicabl!Next]_(Explicabl!vars)
<1>. SUFFICES ASSUME DcrInv, [DcrNext]_dcrVars
              PROVE  Explicabl!Next \/ UNCHANGED Explicabl!vars
  OBVIOUS
<1>1. ASSUME NEW app \in Apps, RegisterApp(app) PROVE Explicabl!Next
  BY <1>1, RegisterMaps DEF Explicabl!Next
<1>2. CASE AgeApp
  BY <1>2, AgeMaps DEF Explicabl!Next
<1>3. CASE Gate
  BY <1>3, GateMaps DEF Explicabl!Next
<1>4. CASE DcrCrash
  BY <1>4, CrashMaps DEF Explicabl!Next
<1>5. ASSUME NEW l \in Lanes, NEW log \in Logs, Handle(l, log)
      PROVE  Explicabl!Next
  BY <1>5, HandleMaps DEF Explicabl!Next
<1>6. ASSUME NEW l \in Lanes,
             \/ TokenStatus(l) \/ TokenBody(l) \/ ListClients(l)
             \/ PatchClient(l) \/ ListAgain(l) \/ PatchAlternative(l)
             \/ ConnectionStatus(l) \/ ConnectionBody(l) \/ PatchEnabled(l)
      PROVE  Explicabl!Next \/ UNCHANGED Explicabl!vars
  <2>1. Explicabl!Step(l) \/ UNCHANGED Explicabl!vars
    BY <1>6, TokenStatusMaps, TokenBodyMaps, ListClientsMaps, PatchClientMaps,
       ListAgainMaps, PatchAlternativeMaps, ConnectionStatusMaps,
       ConnectionBodyMaps, PatchEnabledMaps DEF Explicabl!Step
  <2>. QED
    BY <2>1 DEF Explicabl!Next
<1>7. CASE UNCHANGED dcrVars
  BY <1>7 DEF dcrVars, Explicabl!vars, Explicabl!auth0, Explicabl!history
<1>. QED
  BY <1>1, <1>2, <1>3, <1>4, <1>5, <1>6, <1>7 DEF DcrNext

LEMMA InitMaps == DcrInit => Explicabl!Init
<1>. SUFFICES ASSUME DcrInit PROVE Explicabl!Init
  OBVIOUS
<1>1. SeenLanes = [l \in Lanes |-> NoApp]
  BY DEF DcrInit, SeenLanes
<1>2. (IF managed THEN {"secret", "mgmt"} ELSE {"secret"})
        \in {{"secret", "mgmt"}, {"secret"}}
  OBVIOUS
<1>3. /\ tenant.known = {} /\ tenant.newest = NoApp /\ tenant.promoted = {}
      /\ tenant.enabled = {} /\ taken.logs = 0 /\ taken.failures = 0
      /\ told.apps = {} /\ told.raced = FALSE /\ replied = NoApp
  BY DEF DcrInit, Tenant
<1>. QED
  BY <1>1, <1>2, <1>3 DEF Explicabl!Init, SeenLanes, Seen

-----------------------------------------------------------------------------
(* What handlers rely on is kept by every step.                            *)
World ==
  /\ managed \in BOOLEAN
  /\ tenant \in [known : SUBSET Apps, newest : Apps \cup {NoApp},
                 promoted : SUBSET Apps, enabled : SUBSET Apps]
  /\ taken \in [logs : 0..MaxLogs, failures : 0..MaxFailures]

Sound(h) == ALane(h) /\ Relies(h)

LEMMA LaneKept ==
  ASSUME DcrInv, World', NEW l \in Lanes, NEW h, h = NoApp \/ Sound(h),
         lanes' = [lanes EXCEPT ![l] = h],
         replied' = replied
           \/ replied' \in [status : {200, 401, 429, 500, 501},
                            healthy : BOOLEAN],
         told' \in [apps : SUBSET Apps, raced : BOOLEAN]
  PROVE  DcrInv'
<1>1. lanes' \in [Lanes -> LanesAt(LaneSteps) \cup {NoApp}]
  BY DEF DcrInv, DcrTypeOK, Sound, ALane
<1>2. replied' \in [status : {200, 401, 429, 500, 501}, healthy : BOOLEAN]
                   \cup {NoApp}
  BY DEF DcrInv, DcrTypeOK
<1>3. DcrTypeOK'
  BY <1>1, <1>2 DEF DcrTypeOK, World
<1>4. ASSUME NEW k \in Lanes, lanes'[k] # NoApp PROVE Relies(lanes'[k])
  <2>1. CASE k = l
    BY <1>4, <2>1 DEF DcrInv, DcrTypeOK, Sound
  <2>2. CASE k # l
    BY <1>4, <2>2 DEF DcrInv, DcrTypeOK
  <2>. QED
    BY <2>1, <2>2
<1>. QED
  BY <1>3, <1>4 DEF DcrInv, Relies

LEMMA ThenKeeps ==
  ASSUME DcrInv, World', NEW l \in Lanes, NEW h, Sound(h), Then(l, h)
  PROVE  DcrInv'
<1>1. told' \in [apps : SUBSET Apps, raced : BOOLEAN]
  BY DEF Then, DcrInv, DcrTypeOK
<1>. QED
  BY <1>1, LaneKept DEF Then

LEMMA RespondKeeps ==
  ASSUME DcrInv, World', NEW l \in Lanes, NEW h, ALane(h),
         NEW status \in {200, 500}, Respond(l, status, h)
  PROVE  DcrInv'
<1>1. h.owed \in SUBSET Apps /\ h.healthy \in BOOLEAN
  BY LaneFields
<1>2. told' \in [apps : SUBSET Apps, raced : BOOLEAN]
  BY <1>1 DEF Respond, DcrInv, DcrTypeOK
<1>3. replied' \in [status : {200, 401, 429, 500, 501}, healthy : BOOLEAN]
  BY <1>1 DEF Respond
<1>4. lanes' = [lanes EXCEPT ![l] = NoApp]
  BY DEF Respond
<1>. QED
  BY <1>2, <1>3, <1>4, LaneKept

LEMMA ThrowKeeps ==
  ASSUME DcrInv, World', NEW l \in Lanes, NEW h, ALane(h), Throw(l, h)
  PROVE  DcrInv'
<1>1. PICK u : u = [h EXCEPT !.healthy = FALSE]
  OBVIOUS
<1>2. ALane(u) /\ Respond(l, 500, u)
  BY <1>1, UnwellLane DEF Throw
<1>. QED
  BY <1>2, RespondKeeps

LEMMA SoundMove ==
  ASSUME NEW h, ALane(h),
         NEW st \in {"tokenBody", "list", "connection", "patch"},
         st \in {"connection", "patch"} => h.cid \in Apps
  PROVE  Sound([h EXCEPT !.step = st])
<1>1. PICK g : g = [h EXCEPT !.step = st]
  OBVIOUS
<1>2. g = [step |-> st, events |-> h.events, cid |-> h.cid, alt |-> h.alt,
           read |-> h.read, owed |-> h.owed, healthy |-> h.healthy]
  BY <1>1, LaneFields
<1>3. ALane(g)
  BY <1>1, MovedLane DEF LaneSteps
<1>4. g.step = st /\ g.cid = h.cid
  BY <1>2
<1>5. Relies(g)
  BY <1>4 DEF Relies
<1>. QED
  BY <1>1, <1>3, <1>5 DEF Sound

LEMMA SoundPromote ==
  ASSUME NEW h, ALane(h), NEW app \in Apps
  PROVE  Sound(Promote(h, app))
<1>1. PICK g : g = Promote(h, app)
  OBVIOUS
<1>2. ALane(g) /\ g.step = "promote"
  BY <1>1, PromoteIsPromoting
<1>3. g.cid = app
  <2>1. PICK o : o = h.owed \cup {app}
    OBVIOUS
  <2>2. g = [h EXCEPT !.step = "promote", !.cid = app, !.owed = o]
    BY <1>1, <2>1 DEF Promote
  <2>3. h = [step |-> h.step, events |-> h.events, cid |-> h.cid,
             alt |-> h.alt, read |-> h.read, owed |-> h.owed,
             healthy |-> h.healthy]
    BY LaneFields
  <2>. QED
    BY <2>2, <2>3
<1>4. Relies(g)
  BY <1>2, <1>3 DEF Relies
<1>. QED
  BY <1>1, <1>2, <1>4 DEF Sound

LEMMA LoopKeeps ==
  ASSUME DcrInv, World', NEW l \in Lanes, NEW h, ALane(h), Loop(l, h)
  PROVE  DcrInv'
<1>1. CASE h.events = <<>>
  <2>1. Respond(l, 200, h)
    BY <1>1 DEF Loop
  <2>. QED
    BY <2>1, RespondKeeps
<1>2. CASE h.events # <<>>
  <2>1. PICK e, t, rest :
          /\ e = Head(h.events) /\ t = Tail(h.events)
          /\ rest = [h EXCEPT !.events = t]
    OBVIOUS
  <2>2. e \in Apps \cup {Anonymous} /\ t \in Seq(Apps \cup {Anonymous})
    BY <1>2, <2>1, LaneFields
  <2>3. ALane(rest)
    BY <2>1, <2>2 DEF ALane, LanesAt
  <2>4. Then(l, IF e = Anonymous THEN [rest EXCEPT !.step = "list"]
                ELSE Promote(rest, e))
    BY <1>2, <2>1 DEF Loop
  <2>5. CASE e = Anonymous
    <3>1. PICK g : g = [rest EXCEPT !.step = "list"]
      OBVIOUS
    <3>2. Sound(g) /\ Then(l, g)
      BY <2>3, <2>4, <2>5, <3>1, SoundMove
    <3>. QED
      BY <3>2, ThenKeeps
  <2>6. CASE e # Anonymous
    <3>1. Sound(Promote(rest, e)) /\ Then(l, Promote(rest, e))
      BY <2>2, <2>3, <2>4, <2>6, SoundPromote
    <3>. QED
      BY <3>1, ThenKeeps
  <2>. QED
    BY <2>5, <2>6
<1>. QED
  BY <1>1, <1>2

LEMMA WorldKept ==
  ASSUME DcrInv, Works \/ Fails, managed' = managed,
         tenant' = tenant
           \/ tenant' \in [known : SUBSET Apps, newest : Apps \cup {NoApp},
                           promoted : SUBSET Apps, enabled : SUBSET Apps]
  PROVE  World'
<1>1. taken' \in [logs : 0..MaxLogs, failures : 0..MaxFailures]
  <2>1. CASE Works
    BY <2>1 DEF Works, DcrInv, DcrTypeOK
  <2>2. CASE Fails
    BY <2>2, ProxyablDcrAssumption DEF Fails, DcrInv, DcrTypeOK
  <2>. QED
    BY <2>1, <2>2
<1>2. tenant' \in [known : SUBSET Apps, newest : Apps \cup {NoApp},
                   promoted : SUBSET Apps, enabled : SUBSET Apps]
  BY DEF DcrInv, DcrTypeOK
<1>. QED
  BY <1>1, <1>2 DEF World, DcrInv, DcrTypeOK

LEMMA CallsKeep ==
  ASSUME DcrInv, NEW l \in Lanes,
         TokenStatus(l) \/ TokenBody(l) \/ ListClients(l)
  PROVE  DcrInv'
<1>1. ALane(lanes[l])
  BY HandlerSeen DEF TokenStatus, TokenBody, ListClients, In
<1>2. World'
  BY WorldKept DEF TokenStatus, TokenBody, ListClients
<1>3. PICK h : h = lanes[l]
  OBVIOUS
<1>4. CASE Throw(l, h) \/ Loop(l, h)
  BY <1>1, <1>2, <1>3, <1>4, ThrowKeeps, LoopKeeps
<1>5. CASE Then(l, [h EXCEPT !.step = "tokenBody"])
  <2>1. PICK g : g = [h EXCEPT !.step = "tokenBody"]
    OBVIOUS
  <2>2. Sound(g) /\ Then(l, g)
    BY <1>1, <1>3, <1>5, <2>1, SoundMove
  <2>. QED
    BY <1>2, <2>2, ThenKeeps
<1>6. CASE tenant.newest # NoApp /\ Then(l, Promote(h, tenant.newest))
  <2>1. PICK n \in Apps : n = tenant.newest
    BY <1>6 DEF DcrInv, DcrTypeOK
  <2>2. Sound(Promote(h, n)) /\ Then(l, Promote(h, n))
    BY <1>1, <1>3, <1>6, <2>1, SoundPromote
  <2>. QED
    BY <1>2, <2>2, ThenKeeps
<1>7. CASE Loop(l, [h EXCEPT !.healthy = FALSE])
  <2>1. PICK u : u = [h EXCEPT !.healthy = FALSE]
    OBVIOUS
  <2>2. ALane(u) /\ Loop(l, u)
    BY <1>1, <1>3, <1>7, <2>1, UnwellLane
  <2>. QED
    BY <1>2, <2>2, LoopKeeps
<1>. QED
  BY <1>3, <1>4, <1>5, <1>6, <1>7 DEF TokenStatus, TokenBody, ListClients

LEMMA PatchClientKeeps ==
  ASSUME DcrInv, NEW l \in Lanes, PatchClient(l)
  PROVE  DcrInv'
<1>1. ALane(lanes[l]) /\ Relies(lanes[l])
  BY HandlerSeen DEF PatchClient, In
<1>2. PICK h : h = lanes[l]
  OBVIOUS
<1>3. h.cid \in Apps
  BY <1>1, <1>2 DEF PatchClient, In, Relies
<1>4. PICK patched :
        patched = [tenant EXCEPT !.promoted = @ \cup ({h.cid} \cap tenant.known)]
  OBVIOUS
<1>5. World'
  <2>1. PICK p : p = tenant.promoted \cup ({h.cid} \cap tenant.known)
    OBVIOUS
  <2>2. p \in SUBSET Apps
    BY <1>3, <2>1 DEF DcrInv, DcrTypeOK
  <2>3. patched \in [known : SUBSET Apps, newest : Apps \cup {NoApp},
                     promoted : SUBSET Apps, enabled : SUBSET Apps]
    <3>1. patched = [tenant EXCEPT !.promoted = p]
      BY <1>4, <2>1 DEF DcrInv, DcrTypeOK
    <3>. QED
      BY <2>2, <3>1 DEF DcrInv, DcrTypeOK
  <2>4. (Works \/ Fails) /\ tenant' \in {tenant, patched} /\ managed' = managed
    BY <1>2, <1>4 DEF PatchClient
  <2>. QED
    BY <2>3, <2>4, WorldKept
<1>6. CASE Throw(l, h)
  BY <1>1, <1>2, <1>5, <1>6, ThrowKeeps
<1>7. CASE Then(l, [h EXCEPT !.step = "connection"])
  <2>1. PICK g : g = [h EXCEPT !.step = "connection"]
    OBVIOUS
  <2>2. Sound(g) /\ Then(l, g)
    BY <1>1, <1>2, <1>3, <1>7, <2>1, SoundMove
  <2>. QED
    BY <1>5, <2>2, ThenKeeps
<1>8. CASE Then(l, [h EXCEPT !.step = "relist", !.healthy = FALSE])
  <2>1. PICK g : g = [h EXCEPT !.step = "relist", !.healthy = FALSE]
    OBVIOUS
  <2>2. g = [step |-> "relist", events |-> h.events, cid |-> h.cid,
             alt |-> h.alt, read |-> h.read, owed |-> h.owed,
             healthy |-> FALSE]
    <3>1. h = [step |-> h.step, events |-> h.events, cid |-> h.cid,
               alt |-> h.alt, read |-> h.read, owed |-> h.owed,
               healthy |-> h.healthy]
      BY <1>1, <1>2, LaneFields
    <3>. QED
      BY <2>1, <3>1
  <2>3. ALane(g)
    BY <1>1, <1>2, <2>2, LaneFields DEF ALane, LanesAt, LaneSteps
  <2>4. Relies(g)
    BY <1>3, <2>2 DEF Relies
  <2>. QED
    BY <1>5, <1>8, <2>1, <2>3, <2>4, ThenKeeps DEF Sound
<1>. QED
  BY <1>2, <1>6, <1>7, <1>8 DEF PatchClient

LEMMA ListAgainKeeps ==
  ASSUME DcrInv, NEW l \in Lanes, ListAgain(l)
  PROVE  DcrInv'
<1>1. ALane(lanes[l]) /\ Relies(lanes[l]) /\ lanes[l].step = "relist"
  BY HandlerSeen DEF ListAgain, In
<1>2. PICK h : h = lanes[l]
  OBVIOUS
<1>3. h.cid \in Apps /\ ~h.healthy
  BY <1>1, <1>2 DEF Relies
<1>4. World'
  BY WorldKept DEF ListAgain
<1>5. CASE Throw(l, h)
  BY <1>1, <1>2, <1>4, <1>5, ThrowKeeps
<1>6. CASE /\ tenant.newest \notin {NoApp, h.cid}
           /\ Then(l, [h EXCEPT !.step = "repromote", !.alt = tenant.newest])
  <2>1. PICK n \in Apps : n = tenant.newest
    BY <1>6 DEF DcrInv, DcrTypeOK
  <2>2. PICK g : g = [h EXCEPT !.step = "repromote", !.alt = n]
    OBVIOUS
  <2>3. g = [step |-> "repromote", events |-> h.events, cid |-> h.cid,
             alt |-> n, read |-> h.read, owed |-> h.owed,
             healthy |-> h.healthy]
    <3>1. h = [step |-> h.step, events |-> h.events, cid |-> h.cid,
               alt |-> h.alt, read |-> h.read, owed |-> h.owed,
               healthy |-> h.healthy]
      BY <1>1, <1>2, LaneFields
    <3>. QED
      BY <2>2, <3>1
  <2>4. ALane(g)
    BY <1>1, <1>2, <2>3, LaneFields DEF ALane, LanesAt, LaneSteps
  <2>5. Relies(g)
    BY <1>3, <2>3 DEF Relies
  <2>. QED
    BY <1>4, <1>6, <2>1, <2>2, <2>4, <2>5, ThenKeeps DEF Sound
<1>. QED
  BY <1>2, <1>5, <1>6 DEF ListAgain

LEMMA PatchAlternativeKeeps ==
  ASSUME DcrInv, NEW l \in Lanes, PatchAlternative(l)
  PROVE  DcrInv'
<1>1. ALane(lanes[l]) /\ Relies(lanes[l]) /\ lanes[l].step = "repromote"
  BY HandlerSeen DEF PatchAlternative, In
<1>2. PICK h : h = lanes[l]
  OBVIOUS
<1>3. h.alt \in Apps
  BY <1>1, <1>2 DEF Relies
<1>4. PICK p : p = tenant.promoted \cup {h.alt}
  OBVIOUS
<1>5. World'
  <2>1. PICK patched : patched = [tenant EXCEPT !.promoted = p]
    OBVIOUS
  <2>2. patched \in [known : SUBSET Apps, newest : Apps \cup {NoApp},
                     promoted : SUBSET Apps, enabled : SUBSET Apps]
    BY <1>3, <1>4, <2>1 DEF DcrInv, DcrTypeOK
  <2>3. (Works \/ Fails) /\ tenant' \in {tenant, patched} /\ managed' = managed
    BY <1>2, <1>4, <2>1 DEF PatchAlternative, DcrInv, DcrTypeOK
  <2>. QED
    BY <2>2, <2>3, WorldKept
<1>6. CASE Throw(l, h)
  BY <1>1, <1>2, <1>5, <1>6, ThrowKeeps
<1>7. CASE Then(l, Retry(h))
  <2>1. PICK o, g : o = (h.owed \ {h.cid}) \cup {h.alt} /\ g = Retry(h)
    OBVIOUS
  <2>2. o \in SUBSET Apps
    BY <1>1, <1>2, <1>3, <2>1, LaneFields
  <2>3. g = [h EXCEPT !.step = "connection", !.cid = h.alt, !.owed = o]
    BY <2>1 DEF Retry
  <2>4. g = [step |-> "connection", events |-> h.events, cid |-> h.alt,
             alt |-> h.alt, read |-> h.read, owed |-> o,
             healthy |-> h.healthy]
    <3>1. h = [step |-> h.step, events |-> h.events, cid |-> h.cid,
               alt |-> h.alt, read |-> h.read, owed |-> h.owed,
               healthy |-> h.healthy]
      BY <1>1, <1>2, LaneFields
    <3>. QED
      BY <2>3, <3>1
  <2>5. ALane(g)
    BY <1>1, <1>2, <2>2, <2>4, LaneFields DEF ALane, LanesAt, LaneSteps
  <2>6. Relies(g)
    BY <1>3, <2>4 DEF Relies
  <2>. QED
    BY <1>5, <1>7, <2>1, <2>5, <2>6, ThenKeeps DEF Sound
<1>. QED
  BY <1>2, <1>6, <1>7 DEF PatchAlternative

LEMMA ConnectionKeeps ==
  ASSUME DcrInv, NEW l \in Lanes, ConnectionStatus(l) \/ ConnectionBody(l)
  PROVE  DcrInv'
<1>1. /\ ALane(lanes[l]) /\ Relies(lanes[l])
      /\ lanes[l].step \in {"connection", "connectionBody"}
  BY HandlerSeen DEF ConnectionStatus, ConnectionBody, In
<1>2. PICK h : h = lanes[l]
  OBVIOUS
<1>3. h.cid \in Apps
  BY <1>1, <1>2 DEF Relies
<1>4. World'
  BY WorldKept DEF ConnectionStatus, ConnectionBody
<1>5. CASE Throw(l, h)
  BY <1>1, <1>2, <1>4, <1>5, ThrowKeeps
<1>6. CASE Then(l, [h EXCEPT !.step = "patch"])
  <2>1. PICK g : g = [h EXCEPT !.step = "patch"]
    OBVIOUS
  <2>2. Sound(g) /\ Then(l, g)
    BY <1>1, <1>2, <1>3, <1>6, <2>1, SoundMove
  <2>. QED
    BY <1>4, <2>2, ThenKeeps
<1>7. CASE /\ replied' = replied
           /\ lanes' = [lanes EXCEPT ![l] = [@ EXCEPT !.step = "connectionBody",
                                                      !.read = tenant.enabled]]
           /\ told' = [told EXCEPT !.raced =
                \/ @
                \/ \E k \in Lanes : In(k, "connectionBody") \/ In(k, "patch")]
  <2>1. PICK r \in SUBSET Apps : r = tenant.enabled
    BY DEF DcrInv, DcrTypeOK
  <2>2. PICK g : g = [h EXCEPT !.step = "connectionBody", !.read = r]
    OBVIOUS
  <2>3. g = [step |-> "connectionBody", events |-> h.events, cid |-> h.cid,
             alt |-> h.alt, read |-> r, owed |-> h.owed,
             healthy |-> h.healthy]
    <3>1. h = [step |-> h.step, events |-> h.events, cid |-> h.cid,
               alt |-> h.alt, read |-> h.read, owed |-> h.owed,
               healthy |-> h.healthy]
      BY <1>1, <1>2, LaneFields
    <3>. QED
      BY <2>2, <3>1
  <2>4. ALane(g)
    BY <1>1, <1>2, <2>3, LaneFields DEF ALane, LanesAt, LaneSteps
  <2>5. Relies(g)
    BY <1>3, <2>3 DEF Relies
  <2>6. lanes' = [lanes EXCEPT ![l] = g]
    BY <1>2, <1>7, <2>1, <2>2 DEF DcrInv, DcrTypeOK
  <2>7. told' \in [apps : SUBSET Apps, raced : BOOLEAN]
    <3>1. PICK race \in BOOLEAN :
            race <=> \E k \in Lanes : In(k, "connectionBody") \/ In(k, "patch")
      OBVIOUS
    <3>2. told'.apps = told.apps /\ told' = [told EXCEPT !.raced = @ \/ race]
      BY <1>7, <3>1 DEF DcrInv, DcrTypeOK
    <3>. QED
      BY <3>2 DEF DcrInv, DcrTypeOK
  <2>. QED
    BY <1>4, <1>7, <2>4, <2>5, <2>6, <2>7, LaneKept DEF Sound
<1>. QED
  BY <1>2, <1>5, <1>6, <1>7 DEF ConnectionStatus, ConnectionBody

LEMMA PatchEnabledKeeps ==
  ASSUME DcrInv, NEW l \in Lanes, PatchEnabled(l)
  PROVE  DcrInv'
<1>1. ALane(lanes[l]) /\ Relies(lanes[l]) /\ lanes[l].step = "patch"
  BY HandlerSeen DEF PatchEnabled, In
<1>2. PICK h : h = lanes[l]
  OBVIOUS
<1>3. h.cid \in Apps /\ h.read \in SUBSET Apps
  BY <1>1, <1>2, LaneFields DEF Relies
<1>4. World'
  <2>1. PICK p, patched : /\ p = h.read \cup {h.cid}
                          /\ patched = [tenant EXCEPT !.enabled = p]
    OBVIOUS
  <2>2. patched \in [known : SUBSET Apps, newest : Apps \cup {NoApp},
                     promoted : SUBSET Apps, enabled : SUBSET Apps]
    BY <1>3, <2>1 DEF DcrInv, DcrTypeOK
  <2>3. (Works \/ Fails) /\ tenant' \in {tenant, patched} /\ managed' = managed
    BY <1>2, <2>1 DEF PatchEnabled
  <2>. QED
    BY <2>2, <2>3, WorldKept
<1>. QED
  BY <1>1, <1>2, <1>4, ThrowKeeps, LoopKeeps DEF PatchEnabled

LEMMA HandleKeeps ==
  ASSUME DcrInv, NEW l \in Lanes, NEW log \in Logs, Handle(l, log)
  PROVE  DcrInv'
<1>1. PICK e, g : e = DcrEvents(log) /\ g = Lane(log)
  OBVIOUS
<1>2. e \in Seq(Apps \cup {Anonymous})
  <2>1. log \in Seq((Apps \cup {Anonymous}) \cup {Unrelated})
    <3>1. Apps \cup {Anonymous, Unrelated} = (Apps \cup {Anonymous}) \cup {Unrelated}
      OBVIOUS
    <3>. QED
      BY <3>1, ProxyablDcrAssumption
  <2>. QED
    BY <1>1, <2>1, RegistrationsAreEvents DEF DcrEvents
<1>3. g = [step |-> "token", events |-> e, cid |-> NoApp, alt |-> NoApp,
           read |-> {}, owed |-> {}, healthy |-> TRUE]
  BY <1>1 DEF Lane
<1>4. Sound(g)
  <2>1. ALane(g)
    BY <1>2, <1>3 DEF ALane, LanesAt, LaneSteps
  <2>2. Relies(g)
    BY <1>3 DEF Relies
  <2>. QED
    BY <2>1, <2>2 DEF Sound
<1>5. World'
  <2>1. taken' \in [logs : 0..MaxLogs, failures : 0..MaxFailures]
    BY ProxyablDcrAssumption DEF Handle, DcrInv, DcrTypeOK
  <2>. QED
    BY <2>1 DEF Handle, World, DcrInv, DcrTypeOK
<1>6. lanes' = [lanes EXCEPT ![l] = g]
  BY <1>1 DEF Handle
<1>7. replied' = replied /\ told' \in [apps : SUBSET Apps, raced : BOOLEAN]
  BY DEF Handle, DcrInv, DcrTypeOK
<1>. QED
  BY <1>4, <1>5, <1>6, <1>7, LaneKept

LEMMA TenantKeeps ==
  ASSUME DcrInv, AgeApp \/ \E app \in Apps : RegisterApp(app)
  PROVE  DcrInv'
<1>1. tenant' \in [known : SUBSET Apps, newest : Apps \cup {NoApp},
                   promoted : SUBSET Apps, enabled : SUBSET Apps]
  <2>1. CASE AgeApp
    BY <2>1 DEF AgeApp, DcrInv, DcrTypeOK
  <2>2. ASSUME NEW app \in Apps, RegisterApp(app)
        PROVE  tenant' \in [known : SUBSET Apps, newest : Apps \cup {NoApp},
                            promoted : SUBSET Apps, enabled : SUBSET Apps]
    <3>1. PICK newest \in {tenant.newest, app} :
            tenant' = [tenant EXCEPT !.known = @ \cup {app}, !.newest = newest]
      BY <2>2 DEF RegisterApp
    <3>2. PICK known \in SUBSET Apps : known = tenant.known \cup {app}
      BY DEF DcrInv, DcrTypeOK
    <3>3. tenant' = [tenant EXCEPT !.known = known, !.newest = newest]
      BY <3>1, <3>2 DEF DcrInv, DcrTypeOK
    <3>. QED
      BY <3>3 DEF DcrInv, DcrTypeOK
  <2>. QED
    BY <2>1, <2>2
<1>2. UNCHANGED <<managed, lanes, replied, taken, told>>
  BY DEF AgeApp, RegisterApp
<1>. QED
  BY <1>1, <1>2 DEF DcrInv, DcrTypeOK, Relies

LEMMA DcrInvNext == DcrInv /\ [DcrNext]_dcrVars => DcrInv'
<1>. SUFFICES ASSUME DcrInv, [DcrNext]_dcrVars PROVE DcrInv'
  OBVIOUS
<1>1. CASE AgeApp \/ \E app \in Apps : RegisterApp(app)
  BY <1>1, TenantKeeps
<1>2. CASE Gate
  <2>1. replied' \in [status : {200, 401, 429, 500, 501}, healthy : BOOLEAN]
    BY <1>2 DEF Gate
  <2>2. UNCHANGED <<managed, tenant, lanes, taken, told>>
    BY <1>2 DEF Gate
  <2>. QED
    BY <2>1, <2>2 DEF DcrInv, DcrTypeOK, Relies
<1>3. CASE DcrCrash
  BY <1>3 DEF DcrCrash, DcrInv, DcrTypeOK
<1>4. ASSUME NEW l \in Lanes, NEW log \in Logs, Handle(l, log)
      PROVE  DcrInv'
  BY <1>4, HandleKeeps
<1>5. ASSUME NEW l \in Lanes,
             \/ TokenStatus(l) \/ TokenBody(l) \/ ListClients(l)
             \/ PatchClient(l) \/ ListAgain(l) \/ PatchAlternative(l)
             \/ ConnectionStatus(l) \/ ConnectionBody(l) \/ PatchEnabled(l)
      PROVE  DcrInv'
  BY <1>5, CallsKeep, PatchClientKeeps, ListAgainKeeps, PatchAlternativeKeeps,
     ConnectionKeeps, PatchEnabledKeeps
<1>6. CASE UNCHANGED dcrVars
  BY <1>6 DEF dcrVars, DcrInv, DcrTypeOK, Relies
<1>. QED
  BY <1>1, <1>2, <1>3, <1>4, <1>5, <1>6 DEF DcrNext

LEMMA DcrInvInit == DcrInit => DcrInv
<1>. SUFFICES ASSUME DcrInit PROVE DcrInv
  OBVIOUS
<1>1. taken \in [logs : 0..MaxLogs, failures : 0..MaxFailures]
  BY ProxyablDcrAssumption DEF DcrInit
<1>2. tenant \in [known : SUBSET Apps, newest : Apps \cup {NoApp},
                  promoted : SUBSET Apps, enabled : SUBSET Apps]
  BY DEF DcrInit, Tenant
<1>3. /\ managed \in BOOLEAN
      /\ lanes \in [Lanes -> LanesAt(LaneSteps) \cup {NoApp}]
      /\ \A l \in Lanes : lanes[l] = NoApp
      /\ replied = NoApp
      /\ told \in [apps : SUBSET Apps, raced : BOOLEAN]
  BY DEF DcrInit
<1>. QED
  BY <1>1, <1>2, <1>3 DEF DcrInv, DcrTypeOK

LEMMA DcrInvHolds == DcrSpec => []DcrInv
BY DcrInvInit, DcrInvNext, PTL DEF DcrSpec

(* Both copies hold in their variables what they are said to hold: a       *)
(* handler past the 404 branch always has a client to write about, so that *)
(* Auth0 never comes to list what is not a client.                         *)
THEOREM CopiesTyped == DcrSpec => []DcrTypeOK
<1>1. DcrInv => DcrTypeOK
  BY DEF DcrInv
<1>. QED
  BY <1>1, DcrInvHolds, PTL

(* What DcrWebhook assumes of its constants holds of what stands for them. *)
LEMMA CopiesMeetAssumption ==
  /\ NoApp \notin Apps /\ Anonymous \notin Apps
  /\ Logs \subseteq Seq(Apps \cup {Anonymous, Unrelated})
  /\ {{"secret", "mgmt"}, {"secret"}} \subseteq SUBSET {"secret", "mgmt", "grants"}
  /\ MaxLogs \in Nat /\ MaxFailures \in Nat
BY ProxyablDcrAssumption

(* Every behaviour of a copy is one of the webhook of explicabl without    *)
(* grants: whatever is shown of that webhook holds of both copies.         *)
THEOREM CopiesImplementWebhook == DcrSpec => ImplementsExplicabl
<1>1. DcrSpec => DcrInit /\ [][DcrNext]_dcrVars
  BY DEF DcrSpec
<1>. QED
  BY <1>1, DcrInvHolds, InitMaps, StepMaps, PTL
     DEF ImplementsExplicabl, Explicabl!Spec

-----------------------------------------------------------------------------
(***************************************************************************)
(* Progress: whatever is done with a request leaves less to be done.       *)
(***************************************************************************)
One(b) == IF b THEN 1 ELSE 0

(* What is ahead of a governed call: its awaits, and the name's rebinding. *)
CallAwaits ==
  [transform |-> 6, validate |-> 5, resolve |-> 4, lookup |-> 3, fetch |-> 2,
   body |-> 1, done |-> 0]

CallAhead == 2 * CallAwaits[call.step] + One(~rebound)

LEMMA CallMovesOn ==
  ASSUME NEW from, NEW to, call.step = from, call'.step = to, rebound' = rebound,
         <<from, to>> \in
           {<<"transform", "validate">>, <<"validate", "resolve">>,
            <<"resolve", "lookup">>, <<"resolve", "fetch">>, <<"lookup", "fetch">>,
            <<"fetch", "body">>}
           \cup ({"transform", "validate", "resolve", "lookup", "fetch", "body"}
                   \X {"done"})
  PROVE  CallAhead' < CallAhead
BY DEF CallAhead, CallAwaits, One

LEMMA CallGetsOn ==
  ASSUME CallInv, GovernedNext
  PROVE  CallAhead' < CallAhead
<1> USE DEF CallInv
<1>1. ASSUME NEW outcome, call' = Ended(outcome), rebound' = rebound,
             call.step \in {"transform", "validate", "resolve", "lookup", "fetch", "body"}
      PROVE  CallAhead' < CallAhead
  <2>1. call'.step = "done"
    BY <1>1, EndedIs
  <2> QED BY <1>1, <2>1, CallMovesOn
<1>2. CASE Transform
  <2>1. call.step = "transform" /\ rebound' = rebound
    BY <1>2 DEF Transform, Waiting
  <2>2. PICK result :
          call' = IF job.blockThreshold # None /\ result.riskScore >= job.blockThreshold
                  THEN [Ended(403) EXCEPT !.transformabl = result]
                  ELSE [call EXCEPT !.step = "validate", !.transformabl = result,
                                    !.body = BodyAfter(result)]
    BY Zenon, <1>2 DEF Transform
  <2>3. call'.step \in {"done", "validate"}
    <3>1. CASE call' = [Ended(403) EXCEPT !.transformabl = result]
      BY <3>1, EndedIs
    <3>2. CASE call' = [call EXCEPT !.step = "validate", !.transformabl = result,
                                    !.body = BodyAfter(result)]
      BY <3>2 DEF Fields
    <3> QED BY <2>2, <3>1, <3>2
  <2> QED BY <2>1, <2>3, CallMovesOn
<1>3. CASE Validate
  <2>1. call.step = "validate" /\ rebound' = rebound
    BY <1>3 DEF Validate, Waiting
  <2>2. PICK decision : decision = Decision(PolicyRequest, job.options)
    OBVIOUS
  <2>3. call' = CASE decision = "throw" -> Ended(500)
                  [] decision = "deny"  -> Ended(403)
                  [] decision = "allow" -> Goto("resolve")
    BY <1>3, <2>2 DEF Validate
  <2>4. decision \in {"throw", "deny", "allow"}
    BY <2>2 DEF Decision
  <2>5. CASE call' = Goto("resolve")
    <3>1. call'.step = "resolve"
      BY <2>5, GotoIs
    <3> QED BY <2>1, <3>1, CallMovesOn
  <2> QED BY <1>1, <2>1, <2>3, <2>4, <2>5
<1>4. CASE Resolve
  <2>1. call.step = "resolve" /\ rebound' = rebound
    BY <1>4 DEF Resolve, Waiting
  <2>2. \/ \E outcome : call' = Ended(outcome)
        \/ \E step \in {"lookup", "fetch"} : \E headers :
             call' = [call EXCEPT !.step = step, !.headers = headers]
    <3> DEFINE step == IF ResolveProvider.isName THEN "lookup" ELSE "fetch"
               headers == Headers(ResolveProvider, ResolveAuth(ResolveProvider.auth))
    <3>1. \/ \E outcome \in {"no-provider", "no-credential", "bad-path", "unsafe-url"} :
               call' = Ended(outcome)
          \/ call' = [call EXCEPT !.step = step, !.headers = headers]
      BY Zenon, <1>4 DEF Resolve
    <3>2. step \in {"lookup", "fetch"}
      OBVIOUS
    <3> HIDE DEF step, headers
    <3> QED BY <3>1, <3>2
  <2>3. ASSUME NEW step \in {"lookup", "fetch"}, NEW headers,
               call' = [call EXCEPT !.step = step, !.headers = headers]
        PROVE  CallAhead' < CallAhead
    <3>1. call'.step = step
      BY <2>3 DEF Fields
    <3> QED BY <2>1, <3>1, CallMovesOn
  <2> QED BY <1>1, <2>1, <2>2, <2>3
<1>5. CASE Lookup
  <2>1. call.step = "lookup" /\ rebound' = rebound
    BY <1>5 DEF Lookup, Waiting
  <2>2. call' = Goto("fetch") \/ \E outcome : call' = Ended(outcome)
    BY <1>5 DEF Lookup
  <2>3. CASE call' = Goto("fetch")
    <3>1. call'.step = "fetch"
      BY <2>3, GotoIs
    <3> QED BY <2>1, <3>1, CallMovesOn
  <2> QED BY <1>1, <2>1, <2>2, <2>3
<1>6. CASE Headed
  <2>1. call.step = "fetch" /\ rebound' = rebound
    BY <1>6 DEF Headed, Waiting
  <2>2. call' = Goto("body") \/ call' = Ended("redirect")
    BY <1>6 DEF Headed
  <2>3. CASE call' = Goto("body")
    <3>1. call'.step = "body"
      BY <2>3, GotoIs
    <3> QED BY <2>1, <3>1, CallMovesOn
  <2> QED BY <1>1, <2>1, <2>2, <2>3
<1>7. CASE Unreachable \/ TimeOut \/ Bodied
  <2>1. \E outcome : call' = Ended(outcome)
    BY <1>7 DEF Unreachable, TimeOut, Bodied
  <2>2. call.step \in {"fetch", "body"} /\ rebound' = rebound
    BY <1>7 DEF Unreachable, TimeOut, Bodied, TimerIsSet, Waiting
  <2> QED BY <1>1, <2>1, <2>2
<1>8. CASE Rebind
  <2>1. call'.step = call.step /\ ~rebound /\ rebound'
    BY <1>8 DEF Rebind
  <2>2. CallAwaits[call.step] \in Int
    BY <1>8 DEF Rebind, Waiting, CallAwaits
  <2> QED BY <2>1, <2>2 DEF CallAhead, One
<1> QED BY <1>2, <1>3, <1>4, <1>5, <1>6, <1>7, <1>8 DEF GovernedNext

(* A governed call takes at most thirteen steps, each of which leaves less *)
(* ahead: there is no redirect it follows, no retry and no way back to the *)
(* decision, so that a timer or an answer anywhere ends it for good        *)
(* (the middlewares in their order and proxy.ts).                          *)
THEOREM CallsOnlyGoOn ==
  /\ GovernedSpec => [][CallAhead' < CallAhead]_governedVars
  /\ GovernedSpec => [](CallAhead \in 0..13)
<1>1. CallInv /\ [GovernedNext]_governedVars => [CallAhead' < CallAhead]_governedVars
  BY CallGetsOn
<1>2. GovernedSpec => [][CallAhead' < CallAhead]_governedVars
  BY <1>1, CallInvHolds, PTL DEF GovernedSpec
<1>3. GovernedTypeOK => CallAhead \in 0..13
  BY DEF GovernedTypeOK, Steps, CallAhead, CallAwaits, One
<1>4. GovernedSpec => [](CallAhead \in 0..13)
  BY <1>3, CallTyped, PTL
<1> QED BY <1>2, <1>4

-----------------------------------------------------------------------------
(* What is ahead of a request for a well-known document: the tries left,   *)
(* and of this one its awaits and its timer.                               *)
QueryAwaits == [headers |-> 3, body |-> 2, pause |-> 1, settled |-> 0]

QueryAhead(query) ==
  8 * (2 - query.i) + 2 * QueryAwaits[query.step] + One(query.timer)

QueryStep(q) ==
  \/ DocumentHeaders(q) \/ FetchFails(q) \/ TryTimesOut(q)
  \/ DocumentBody(q) \/ PauseEnds(q) \/ QueryLeaves(q)

(* The request of the slot has left, or has less ahead.                    *)
QueryNears(q) ==
  queries'[q] = NoQuery \/ QueryAhead(queries'[q]) < QueryAhead(queries[q])

QueryAdvances(q) ==
  /\ QueryNears(q)
  /\ \A p \in Queries \ {q} : queries'[p] = queries[p]

LEMMA QueryGetsOn ==
  ASSUME QueryInv, NEW q \in Queries, queries[q] # NoQuery,
         NEW query, Proceed(q, query),
         \/ /\ query.i = queries[q].i
            /\ <<queries[q].step, query.step>> \in
                 {<<"headers", "body">>, <<"headers", "pause">>, <<"body", "pause">>,
                  <<"body", "settled">>, <<"pause", "settled">>}
            /\ query.timer \in {queries[q].timer, FALSE}
         \/ query.i = queries[q].i /\ query.step = queries[q].step
              /\ queries[q].timer /\ query.timer = FALSE
         \/ query.i = queries[q].i + 1 /\ queries[q].step = "pause"
              /\ query.step = "headers"
  PROVE  QueryAdvances(q)
<1>1. queries'[q] = query /\ \A p \in Queries \ {q} : queries'[p] = queries[p]
  BY DEF QueryInv, Proceed
<1>2. PICK r : r = queries[q]
  OBVIOUS
<1>3. r.i \in Int /\ r.timer \in BOOLEAN /\ r.step \in QuerySteps
  BY <1>2, QueryServed DEF QueryState, QueryShape
<1>4. QueryAwaits[r.step] \in Int
  BY <1>3 DEF QueryAwaits, QuerySteps
<1>5. QueryAhead(query) < QueryAhead(r)
  <2>1. CASE /\ query.i = r.i
             /\ QueryAwaits[query.step] \in Int
             /\ QueryAwaits[query.step] < QueryAwaits[r.step]
             /\ query.timer \in {r.timer, FALSE}
    BY <1>3, <1>4, <2>1 DEF QueryAhead, One
  <2>2. CASE query.i = r.i /\ query.step = r.step /\ r.timer /\ query.timer = FALSE
    BY <1>3, <1>4, <2>2 DEF QueryAhead, One
  <2>3. CASE query.i = r.i + 1 /\ r.step = "pause" /\ query.step = "headers"
    BY <1>3, <2>3 DEF QueryAhead, QueryAwaits, One
  <2>4. ASSUME <<r.step, query.step>> \in
                 {<<"headers", "body">>, <<"headers", "pause">>, <<"body", "pause">>,
                  <<"body", "settled">>, <<"pause", "settled">>}
        PROVE  /\ QueryAwaits[query.step] \in Int
               /\ QueryAwaits[query.step] < QueryAwaits[r.step]
    BY <2>4 DEF QueryAwaits
  <2> QED BY <1>2, <2>1, <2>2, <2>3, <2>4
<1> QED BY <1>1, <1>2, <1>5 DEF QueryAdvances, QueryNears

(* What the updates of a request leave of it.                              *)
LEMMA CaughtLeaves ==
  ASSUME NEW query \in QueryShape
  PROVE  /\ Caught(query).step = "pause" /\ Caught(query).i = query.i
         /\ Caught(query).timer = query.timer
BY DEF QueryShape, Caught

LEMMA SettledLeaves ==
  ASSUME NEW query \in QueryShape, NEW status
  PROVE  /\ Settled(query, status).step = "settled"
         /\ Settled(query, status).i = query.i
         /\ Settled(query, status).timer = query.timer
<1>1. PICK a : a = Answer(query, status)
  OBVIOUS
<1>2. a = [document |-> query.document, step |-> query.step, i |-> query.i,
           timer |-> query.timer, status |-> a.status,
           fetched |-> query.fetched, failed |-> query.failed]
  BY <1>1 DEF Answer, QueryShape
<1>3. Settled(query, status) = [a EXCEPT !.step = "settled"]
  BY <1>1 DEF Settled
<1> QED BY <1>2, <1>3

LEMMA QueryStepAdvances ==
  ASSUME QueryInv, NEW q \in Queries, QueryStep(q)
  PROVE  QueryAdvances(q)
<1> DEFINE r == queries[q]
           query == [queries[q] EXCEPT !.timer = FALSE]
<1>1. queries[q] # NoQuery
  BY DEF QueryStep, DocumentHeaders, FetchFails, TryTimesOut, DocumentBody,
         PauseEnds, QueryLeaves, Doing
<1>2. r \in QueryShape /\ r.i \in 0..2 /\ r.timer \in BOOLEAN
  BY <1>1, QueryServed DEF QueryState, QueryShape
<1>3. /\ query \in QueryShape /\ query.step = r.step /\ query.i = r.i
      /\ query.timer = FALSE
  BY <1>2 DEF QueryShape
<1>4. CASE DocumentHeaders(q)
  <2>1. r.step = "headers"
    BY <1>4 DEF DocumentHeaders, Doing
  <2>2. Proceed(q, [query EXCEPT !.step = "body"]) \/ Proceed(q, Caught(query))
    BY <1>4 DEF DocumentHeaders
  <2> HIDE DEF query
  <2>3. PICK b : b = [query EXCEPT !.step = "body"]
    OBVIOUS
  <2>4. b.step = "body" /\ b.i = r.i /\ b.timer = FALSE
    BY <1>3, <2>3 DEF QueryShape
  <2>5. CASE Proceed(q, b)
    BY <1>1, <2>1, <2>4, <2>5, QueryGetsOn
  <2>6. CASE Proceed(q, Caught(query))
    BY <1>1, <1>3, <2>1, <2>6, CaughtLeaves, QueryGetsOn
  <2> QED BY <2>2, <2>3, <2>5, <2>6
<1>5. CASE FetchFails(q)
  <2>1. r.step = "headers" /\ Proceed(q, Caught(r))
    BY <1>5 DEF FetchFails, Doing
  <2> QED BY <1>1, <1>2, <2>1, CaughtLeaves, QueryGetsOn
<1>6. CASE TryTimesOut(q)
  <2>1. r.timer /\ Proceed(q, IF query.step = "headers" THEN Caught(query) ELSE query)
    BY <1>6 DEF TryTimesOut
  <2> HIDE DEF query
  <2>2. CASE query.step = "headers" /\ Proceed(q, Caught(query))
    BY <1>1, <1>3, <2>1, <2>2, CaughtLeaves, QueryGetsOn
  <2>3. CASE Proceed(q, query)
    BY <1>1, <1>3, <2>1, <2>3, QueryGetsOn
  <2> QED BY <2>1, <2>2, <2>3
<1>7. CASE DocumentBody(q)
  <2>1. r.step = "body" /\ (Proceed(q, Settled(r, 200)) \/ Proceed(q, Caught(r)))
    BY <1>7 DEF DocumentBody, Doing
  <2>2. CASE Proceed(q, Settled(r, 200))
    BY <1>1, <1>2, <2>1, <2>2, SettledLeaves, QueryGetsOn
  <2>3. CASE Proceed(q, Caught(r))
    BY <1>1, <1>2, <2>1, <2>3, CaughtLeaves, QueryGetsOn
  <2> QED BY <2>1, <2>2, <2>3
<1>8. CASE PauseEnds(q)
  <2>1. r.step = "pause"
    BY <1>8 DEF PauseEnds, Doing
  <2>2. Proceed(q, NextTry(query)) \/ Proceed(q, Settled(query, 502))
    BY <1>8 DEF PauseEnds
  <2> HIDE DEF query
  <2>3. PICK n : n = NextTry(query)
    OBVIOUS
  <2>4. n.step = "headers" /\ n.i = r.i + 1
    BY <1>3, <2>3 DEF NextTry, QueryShape
  <2>5. CASE Proceed(q, n)
    BY <1>1, <2>1, <2>4, <2>5, QueryGetsOn
  <2>6. CASE Proceed(q, Settled(query, 502))
    <3>1. PICK z : z = Settled(query, 502)
      OBVIOUS
    <3>2. z.step = "settled" /\ z.i = r.i /\ z.timer = FALSE
      BY <1>3, <3>1, SettledLeaves
    <3> QED BY <1>1, <2>1, <2>6, <3>1, <3>2, QueryGetsOn
  <2> QED BY <2>2, <2>3, <2>5, <2>6
<1>9. CASE QueryLeaves(q)
  BY <1>9 DEF QueryLeaves, Proceed, QueryInv, QueryAdvances, QueryNears
<1> QED BY <1>4, <1>5, <1>6, <1>7, <1>8, <1>9 DEF QueryStep

LEMMA QueriesAdvance ==
  ASSUME QueryInv, [DiscoveryNext]_queries, NEW q \in Queries, queries[q] # NoQuery
  PROVE  (queries'[q] = queries[q] /\ ~QueryStep(q)) \/ QueryNears(q)
<1>1. CASE QueryStep(q)
  BY <1>1, QueryStepAdvances DEF QueryAdvances
<1> SUFFICES ASSUME ~QueryStep(q) PROVE queries'[q] = queries[q]
  BY <1>1
<1>2. ASSUME NEW p \in Queries, QueryArrives(p) PROVE queries'[q] = queries[q]
  BY <1>2 DEF QueryArrives, Proceed, QueryInv
<1>3. ASSUME NEW p \in Queries, QueryStep(p) PROVE queries'[q] = queries[q]
  BY <1>3, QueryStepAdvances DEF QueryAdvances
<1> QED BY <1>2, <1>3 DEF DiscoveryNext, QueryStep

(* However the identity provider answers, or does not, each step of a      *)
(* request leaves less of its three tries ahead, whatever other requests   *)
(* do: a try that has failed, timed out or been paused for is never made   *)
(* again (fetchJsonWithRetry()).                                           *)
THEOREM TriesRunOut ==
  DiscoverySpec =>
    /\ [](\A q \in Queries : queries[q] # NoQuery => QueryAhead(queries[q]) \in 0..23)
    /\ [][\A q \in Queries : queries[q] # NoQuery =>
            (queries'[q] = queries[q] /\ ~QueryStep(q)) \/ QueryNears(q)]_queries
<1>1. QueryInv /\ [DiscoveryNext]_queries =>
        [\A q \in Queries : queries[q] # NoQuery =>
           (queries'[q] = queries[q] /\ ~QueryStep(q)) \/ QueryNears(q)]_queries
  BY QueriesAdvance
<1>2. QueryInv =>
        \A q \in Queries : queries[q] # NoQuery => QueryAhead(queries[q]) \in 0..23
  <2> SUFFICES ASSUME QueryInv, NEW q \in Queries, queries[q] # NoQuery
               PROVE  QueryAhead(queries[q]) \in 0..23
    OBVIOUS
  <2>1. PICK query \in QueryShape : query = queries[q]
    BY DEF QueryInv, QueryState
  <2>2. query.i \in 0..2 /\ query.timer \in BOOLEAN /\ query.step \in QuerySteps
    BY DEF QueryShape
  <2>3. QueryAwaits[query.step] \in 0..3 /\ One(query.timer) \in 0..1
    BY <2>2 DEF QueryAwaits, QuerySteps, One
  <2> QED BY <2>1, <2>2, <2>3 DEF QueryAhead
<1> QED BY <1>1, <1>2, QueryInvHolds, PTL DEF DiscoverySpec

-----------------------------------------------------------------------------
(* What is ahead of a request at the tool gateway: its awaits and its      *)
(* timer.                                                                  *)
SocketAwaits(step) ==
  CASE step = "dispatch" -> 4
    [] step = "verify"   -> 3
    [] step = "headers"  -> 2
    [] step = "body"     -> 1
    [] step \in {"answered", "handed-over"} -> 0

SocketAhead(r) == 2 * SocketAwaits(r.step) + One(r.timer)

SocketStep(s) ==
  \/ Dispatch(s) \/ Verify(s) \/ ToolHeaders(s) \/ ToolBody(s)
  \/ ToolFails(s) \/ ProxyTimeout(s) \/ Disconnect(s)

(* The request of the slot has left, or has less ahead.                    *)
SocketNears(s) == sockets'[s] = Nil \/ SocketAhead(sockets'[s]) < SocketAhead(sockets[s])

(* The others are where they were, or went down with the process.          *)
SocketAdvances(s) ==
  /\ SocketNears(s)
  /\ \A t \in Sockets \ {s} : sockets'[t] \in {sockets[t], Nil}

LEMMA SocketTurns ==
  ASSUME GatewayInv, NEW s \in Sockets, NEW r, Turn(s, r),
         SocketAhead(r) < SocketAhead(sockets[s])
  PROVE  SocketAdvances(s)
BY DEF GatewayInv, Turn, SocketAdvances, SocketNears

(* A request that has come further has less ahead, if only verifying it    *)
(* has armed its timer.                                                    *)
LEMMA FurtherOn ==
  ASSUME NEW r \in Requests, NEW next,
         <<r.step, next.step>> \in
           {<<"dispatch", "verify">>, <<"verify", "headers">>, <<"headers", "body">>}
           \cup ({"dispatch", "verify", "headers", "body"}
                   \X {"answered", "handed-over"}),
         next.timer \in BOOLEAN, next.timer => r.timer \/ next.step = "headers"
  PROVE  SocketAhead(next) < SocketAhead(r)
<1>1. r.timer \in BOOLEAN
  BY DEF Requests
<1> QED BY <1>1 DEF SocketAhead, SocketAwaits, One

LEMMA SendLeaves ==
  ASSUME NEW r \in Requests, NEW status
  PROVE  Send(r, status).step = "answered" /\ Send(r, status).timer = r.timer
BY DEF Send, Requests

LEMMA VerifyingLeaves ==
  ASSUME NEW r \in Requests
  PROVE  Verifying(r).step = "verify" /\ Verifying(r).timer = r.timer
BY DEF Verifying, Requests

(* Sending an answer that was not sent, whatever its status.               *)
LEMMA SendAdvances ==
  ASSUME GatewayInv, NEW s \in Sockets, sockets[s] # Nil,
         NEW r \in Requests, r.step = sockets[s].step,
         r.step \in {"dispatch", "verify", "headers", "body"},
         r.timer => sockets[s].timer,
         NEW status, Turn(s, Send(r, status))
  PROVE  SocketAdvances(s)
<1>1. PICK x : x = Send(r, status)
  OBVIOUS
<1>2. x.step = "answered" /\ x.timer = r.timer /\ r.timer \in BOOLEAN
  BY <1>1, SendLeaves DEF Requests
<1>3. sockets[s] \in Requests
  BY InSlot DEF Served
<1>4. SocketAhead(x) < SocketAhead(sockets[s])
  BY <1>2, <1>3, FurtherOn
<1> QED BY <1>1, <1>4, SocketTurns

LEMMA DispatchAdvances ==
  ASSUME GatewayInv, NEW s \in Sockets, Dispatch(s)
  PROVE  SocketAdvances(s)
<1>1. PICK r : r = sockets[s]
  OBVIOUS
<1>2. r # Nil /\ r.step = "dispatch" /\ r \in Requests /\ r.timer \in BOOLEAN
  BY <1>1, InSlot DEF Dispatch, On, Served, Requests
<1>3. ASSUME NEW x, Turn(s, x), x.step \in {"verify", "answered", "handed-over"},
             x.timer = r.timer
      PROVE  SocketAdvances(s)
  <2>1. SocketAhead(x) < SocketAhead(r)
    BY <1>2, <1>3, FurtherOn
  <2> QED BY <1>1, <1>3, <2>1, SocketTurns
<1>4. PICK x : Turn(s, x) /\
        \/ \E status : x = Send(r, status)
        \/ x = [r EXCEPT !.step = "handed-over"]
        \/ x = HandleMcp(r)
        \/ x = HandleBearer(r)
  <2> DEFINE kind == Kind(r.asked)
  <2>1. Turn(s, CASE kind = "preflight"         -> Send(r, 204)
                  [] kind = "elsewhere"         -> [r EXCEPT !.step = "handed-over"]
                  [] kind = "mcp"               -> HandleMcp(r)
                  [] kind = "health"            -> Send(r, 200)
                  [] kind = "other-method"      -> Send(r, 405)
                  [] kind \in {"rest", "proxy"} -> HandleBearer(r))
    BY <1>1 DEF Dispatch
  <2>2. kind \in {"proxy", "preflight", "elsewhere", "mcp", "health",
                  "other-method", "rest"}
    BY KindOf
  <2> HIDE DEF kind
  <2> QED BY <2>1, <2>2
<1>5. CASE \E status : x = Send(r, status)
  BY <1>2, <1>3, <1>4, <1>5, SendLeaves
<1>6. CASE x = [r EXCEPT !.step = "handed-over"]
  <2>1. x.step = "handed-over" /\ x.timer = r.timer
    BY <1>2, <1>6 DEF Requests
  <2> QED BY <1>3, <1>4, <2>1
<1>7. CASE x = HandleMcp(r) \/ x = HandleBearer(r)
  <2>1. r.asked \in Asked
    BY <1>2 DEF Requests
  <2>2. (\E status : x = Send(r, status)) \/ x = Verifying(r)
    BY <1>7, <2>1, GatewayAssumption DEF HandleMcp, HandleBearer, RpcMethods
  <2> QED BY <1>2, <1>3, <1>4, <1>5, <2>2, VerifyingLeaves
<1> QED BY <1>4, <1>5, <1>6, <1>7

LEMMA VerifyAdvances ==
  ASSUME GatewayInv, NEW s \in Sockets, Verify(s)
  PROVE  SocketAdvances(s)
<1>1. PICK r : r = sockets[s]
  OBVIOUS
<1>2. r # Nil /\ r.step = "verify" /\ r \in Requests /\ r.timer \in BOOLEAN
  BY <1>1, InSlot DEF Verify, On, Served, Requests
<1>3. PICK x : Turn(s, x) /\ (x = Verified(r) \/ \E status : x = Send(r, status))
  BY <1>1 DEF Verify, VerifyFailed
<1>4. \/ \E status : x = Send(r, status)
      \/ x = [r EXCEPT !.step = "headers", !.timer = TRUE]
      \/ x = CallTool(r)
  BY <1>3 DEF Verified
<1>5. CASE \E status : x = Send(r, status)
  BY <1>1, <1>2, <1>3, <1>5, SendAdvances
<1>6. CASE x = [r EXCEPT !.step = "headers", !.timer = TRUE] \/ x = CallTool(r)
  <2>1. x.step = "headers" /\ x.timer \in BOOLEAN
    BY <1>2, <1>6 DEF CallTool, Requests
  <2>2. SocketAhead(x) < SocketAhead(r)
    BY <1>2, <2>1, FurtherOn
  <2> QED BY <1>1, <1>3, <2>2, SocketTurns
<1> QED BY <1>4, <1>5, <1>6

LEMMA ToolAdvances ==
  ASSUME GatewayInv, NEW s \in Sockets,
         ToolHeaders(s) \/ ToolBody(s) \/ ToolFails(s) \/ ProxyTimeout(s)
  PROVE  SocketAdvances(s)
<1>1. PICK r : r = sockets[s]
  OBVIOUS
<1>2. r # Nil /\ r \in Requests /\ r.timer \in BOOLEAN
  BY <1>1, InSlot
     DEF ToolHeaders, ToolBody, ToolFails, ProxyTimeout, Armed, On, Served, Requests
<1>3. CASE ToolHeaders(s)
  <2>1. r.step = "headers"
    BY <1>1, <1>3 DEF ToolHeaders, On
  <2> DEFINE read == [r EXCEPT !.step = "body", !.timer = FALSE]
  <2>2. PICK status \in {200, 503} :
          Turn(s, IF Kind(read.asked) = "proxy" THEN [read EXCEPT !.status = status]
                  ELSE read)
    BY Zenon, <1>1, <1>3 DEF ToolHeaders
  <2>3. read \in Requests /\ read.step = "body" /\ read.timer = FALSE
    BY <1>2 DEF Requests, RequestSteps
  <2> HIDE DEF read
  <2>4. PICK marked : marked = [read EXCEPT !.status = status]
    OBVIOUS
  <2>5. marked.step = "body" /\ marked.timer = FALSE
    BY <2>3, <2>4 DEF Requests
  <2>6. PICK x \in {read, marked} : Turn(s, x)
    BY <2>2, <2>4
  <2>7. x.step = "body" /\ x.timer = FALSE
    BY <2>3, <2>5, <2>6
  <2>8. SocketAhead(x) < SocketAhead(r)
    BY <1>2, <2>1, <2>7, FurtherOn
  <2> QED BY <1>1, <2>6, <2>8, SocketTurns
<1>4. CASE ToolBody(s)
  <2>1. r.step = "body" /\ \E status : Turn(s, Send(r, status))
    BY <1>1, <1>4 DEF ToolBody, On
  <2> QED BY <1>1, <1>2, <2>1, SendAdvances
<1>5. CASE ToolFails(s)
  <2>1. /\ r.step \in {"headers", "body"}
        /\ ProcessDies \/ \E status : Turn(s, Send(r, status))
    BY <1>1, <1>5 DEF ToolFails, RestFails, On
  <2>2. CASE ProcessDies
    BY <2>2 DEF ProcessDies, SocketAdvances, SocketNears
  <2> QED BY <1>1, <1>2, <2>1, <2>2, SendAdvances
<1>6. CASE ProxyTimeout(s)
  <2> DEFINE x == [r EXCEPT !.timer = FALSE]
  <2>1. r.timer /\ Turn(s, IF x.step = "headers" THEN Send(x, 502) ELSE x)
    BY <1>1, <1>6 DEF ProxyTimeout, Armed
  <2>2. x \in Requests /\ x.step = r.step /\ x.timer = FALSE
    BY <1>2 DEF Requests
  <2> HIDE DEF x
  <2>3. CASE x.step = "headers" /\ Turn(s, Send(x, 502))
    BY <1>1, <1>2, <2>2, <2>3, SendAdvances
  <2>4. CASE Turn(s, x)
    <3>1. SocketAwaits(r.step) \in Int
      BY <1>2 DEF Requests, RequestSteps, SocketAwaits
    <3>2. SocketAhead(x) < SocketAhead(r)
      BY <2>1, <2>2, <3>1 DEF SocketAhead, One
    <3> QED BY <1>1, <2>4, <3>2, SocketTurns
  <2> QED BY <2>1, <2>3, <2>4
<1> QED BY <1>3, <1>4, <1>5, <1>6

LEMMA SocketStepAdvances ==
  ASSUME GatewayInv, NEW s \in Sockets, SocketStep(s)
  PROVE  SocketAdvances(s)
<1>1. CASE Disconnect(s)
  BY <1>1 DEF Disconnect, Turn, GatewayInv, SocketAdvances, SocketNears
<1> QED BY <1>1, DispatchAdvances, VerifyAdvances, ToolAdvances DEF SocketStep

LEMMA SocketsAdvance ==
  ASSUME GatewayInv, [GatewayNext]_gatewayVars, NEW s \in Sockets, sockets[s] # Nil
  PROVE  (sockets'[s] = sockets[s] /\ ~SocketStep(s)) \/ SocketNears(s)
<1>1. CASE SocketStep(s)
  BY <1>1, SocketStepAdvances DEF SocketAdvances
<1> SUFFICES ASSUME ~SocketStep(s), sockets'[s] # Nil
             PROVE  sockets'[s] = sockets[s]
  BY <1>1 DEF SocketNears
<1>2. ASSUME NEW t \in Sockets, Ask(t) PROVE sockets'[s] = sockets[s]
  BY <1>2 DEF Ask, Turn, GatewayInv
<1>3. ASSUME NEW t \in Sockets, SocketStep(t) PROVE sockets'[s] = sockets[s]
  BY <1>3, SocketStepAdvances DEF SocketAdvances
<1>4. CASE UNCHANGED gatewayVars
  BY <1>4 DEF gatewayVars
<1> QED BY <1>2, <1>3, <1>4 DEF GatewayNext, SocketStep

(* Whatever tools and servers do, each step of a request at the tool       *)
(* gateway leaves less ahead of it, and no other request's adds to it: an  *)
(* answer is sent once, nothing is verified or called a second time, and a *)
(* timer that fires late finds nothing to undo (toolGatewayImpl(),         *)
(* handleMcp(), the proxy route).                                          *)
THEOREM SocketsOnlyGoOn ==
  GatewaySpec =>
    /\ [](\A s \in Sockets : sockets[s] # Nil => SocketAhead(sockets[s]) \in 0..9)
    /\ [][\A s \in Sockets : sockets[s] # Nil =>
            (sockets'[s] = sockets[s] /\ ~SocketStep(s)) \/ SocketNears(s)]_gatewayVars
<1>1. GatewayInv /\ [GatewayNext]_gatewayVars =>
        [\A s \in Sockets : sockets[s] # Nil =>
           (sockets'[s] = sockets[s] /\ ~SocketStep(s)) \/ SocketNears(s)]_gatewayVars
  BY SocketsAdvance
<1>2. GatewayTypeOK =>
        \A s \in Sockets : sockets[s] # Nil => SocketAhead(sockets[s]) \in 0..9
  <2> SUFFICES ASSUME GatewayTypeOK, NEW s \in Sockets, sockets[s] # Nil
               PROVE  SocketAhead(sockets[s]) \in 0..9
    OBVIOUS
  <2>1. PICK r \in Requests : r = sockets[s]
    BY DEF GatewayTypeOK
  <2>2. r.step \in RequestSteps /\ r.timer \in BOOLEAN
    BY DEF Requests
  <2>3. SocketAwaits(r.step) \in 0..4 /\ One(r.timer) \in 0..1
    BY <2>2 DEF SocketAwaits, RequestSteps, One
  <2> QED BY <2>1, <2>3 DEF SocketAhead
<1> QED BY <1>1, <1>2, GatewayInvHolds, GatewayTyped, PTL DEF GatewaySpec

-----------------------------------------------------------------------------
(* The awaits a copy's handler may still come to before it is at its next  *)
(* event, by the one it is at.                                             *)
LaneAwaits ==
  [token |-> 2, tokenBody |-> 1, list |-> 7, promote |-> 6, relist |-> 5,
   repromote |-> 4, connection |-> 3, connectionBody |-> 2, patch |-> 1]

LaneAhead(h) == LaneAwaits[h.step] + 7 * Len(h.events)

LaneStep(l) ==
  \/ TokenStatus(l) \/ TokenBody(l) \/ ListClients(l) \/ PatchClient(l)
  \/ ListAgain(l) \/ PatchAlternative(l)
  \/ ConnectionStatus(l) \/ ConnectionBody(l) \/ PatchEnabled(l)

(* The handler of the lane has answered, or has fewer awaits ahead.        *)
LaneNears(l) == lanes'[l] = NoApp \/ LaneAhead(lanes'[l]) < LaneAhead(lanes[l])

LaneAdvances(l) ==
  /\ LaneNears(l)
  /\ \A k \in Lanes \ {l} : lanes'[k] = lanes[k]

LEMMA LaneAheadIs ==
  ASSUME NEW h, ALane(h)
  PROVE  /\ Len(h.events) \in Nat
         /\ LaneAwaits[h.step] \in 1..7
         /\ LaneAhead(h) \in Nat
<1>1. Len(h.events) \in Nat
  BY LaneFields
<1>2. LaneAwaits[h.step] \in 1..7
  <2>1. h.step \in LaneSteps
    BY LaneFields
  <2> QED BY <2>1 DEF LaneSteps, LaneAwaits
<1> QED BY <1>1, <1>2 DEF LaneAhead

LEMMA LaneTurns ==
  ASSUME DcrInv, NEW l \in Lanes, ALane(lanes[l]),
         NEW g, lanes' = [lanes EXCEPT ![l] = g], g.events = lanes[l].events,
         NEW n \in Nat, NEW m \in Nat, n < m,
         LaneAwaits[g.step] = n, LaneAwaits[lanes[l].step] = m
  PROVE  LaneAdvances(l)
<1>1. lanes'[l] = g /\ \A k \in Lanes \ {l} : lanes'[k] = lanes[k]
  BY DEF DcrInv, DcrTypeOK
<1>2. Len(lanes[l].events) \in Nat
  BY LaneAheadIs
<1>3. LaneAhead(g) < LaneAhead(lanes[l])
  BY <1>2 DEF LaneAhead
<1> QED BY <1>1, <1>3 DEF LaneAdvances, LaneNears

LEMMA RespondAdvances ==
  ASSUME DcrInv, NEW l \in Lanes, NEW status, NEW h, Respond(l, status, h)
  PROVE  LaneAdvances(l)
BY DEF Respond, LaneAdvances, LaneNears, DcrInv, DcrTypeOK

LEMMA ThrowAdvances ==
  ASSUME DcrInv, NEW l \in Lanes, NEW h, Throw(l, h)
  PROVE  LaneAdvances(l)
BY RespondAdvances DEF Throw

LEMMA LoopAdvances ==
  ASSUME DcrInv, NEW l \in Lanes, ALane(lanes[l]), NEW h, ALane(h),
         h.events = lanes[l].events, Loop(l, h)
  PROVE  LaneAdvances(l)
<1>1. CASE h.events = <<>>
  <2>1. Respond(l, 200, h)
    BY <1>1 DEF Loop
  <2> QED BY <2>1, RespondAdvances
<1>2. CASE h.events # <<>>
  <2>1. PICK e, t, rest :
          /\ e = Head(h.events) /\ t = Tail(h.events)
          /\ rest = [h EXCEPT !.events = t]
    OBVIOUS
  <2>2. /\ e \in Apps \cup {Anonymous} /\ t \in Seq(Apps \cup {Anonymous})
        /\ Len(t) \in Nat /\ Len(h.events) = Len(t) + 1
    BY <1>2, <2>1, LaneFields
  <2>3. ALane(rest) /\ rest.events = t
    BY <2>1, <2>2 DEF ALane, LanesAt
  <2>4. PICK g : g = IF e = Anonymous THEN [rest EXCEPT !.step = "list"]
                     ELSE Promote(rest, e)
    OBVIOUS
  <2>5. Then(l, g)
    BY <1>2, <2>1, <2>4 DEF Loop
  <2>6. g.events = t /\ g.step \in {"list", "promote"}
    <3>1. CASE e = Anonymous
      BY <2>3, <2>4, <3>1 DEF ALane, LanesAt
    <3>2. CASE e # Anonymous
      BY <2>3, <2>4, <3>2 DEF ALane, LanesAt, Promote
    <3> QED BY <3>1, <3>2
  <2>7. LaneAhead(g) <= 7 + 7 * Len(t) /\ LaneAhead(g) \in Int
    BY <2>2, <2>6 DEF LaneAhead, LaneAwaits
  <2>8. LaneAhead(lanes[l]) >= 1 + 7 * (Len(t) + 1)
    <3>1. LaneAhead(lanes[l]) = LaneAwaits[lanes[l].step] + 7 * (Len(t) + 1)
      BY <2>2 DEF LaneAhead
    <3>2. LaneAwaits[lanes[l].step] \in 1..7
      BY LaneAheadIs
    <3> QED BY <3>1, <3>2, <2>2
  <2>9. LaneAhead(lanes[l]) \in Int
    BY LaneAheadIs
  <2>10. LaneAhead(g) < LaneAhead(lanes[l])
    BY <2>2, <2>7, <2>8, <2>9
  <2>11. lanes'[l] = g /\ \A k \in Lanes \ {l} : lanes'[k] = lanes[k]
    BY <2>5 DEF Then, DcrInv, DcrTypeOK
  <2> QED BY <2>10, <2>11 DEF LaneAdvances, LaneNears
<1> QED BY <1>1, <1>2

(* Going on within an event, by the awaits on the way.                     *)
LEMMA MoveAdvances ==
  ASSUME DcrInv, NEW l \in Lanes, ALane(lanes[l]),
         NEW g, lanes' = [lanes EXCEPT ![l] = g], g.events = lanes[l].events,
         <<lanes[l].step, g.step>> \in
           {<<"token", "tokenBody">>, <<"list", "promote">>,
            <<"promote", "connection">>, <<"promote", "relist">>,
            <<"relist", "repromote">>, <<"repromote", "connection">>,
            <<"connection", "connectionBody">>, <<"connectionBody", "patch">>}
  PROVE  LaneAdvances(l)
<1>1. /\ LaneAwaits[lanes[l].step] \in Nat /\ LaneAwaits[g.step] \in Nat
      /\ LaneAwaits[g.step] < LaneAwaits[lanes[l].step]
  BY DEF LaneAwaits
<1> QED BY <1>1, LaneTurns

LEMMA LaneStepAdvances ==
  ASSUME DcrInv, NEW l \in Lanes, LaneStep(l)
  PROVE  LaneAdvances(l)
<1>1. lanes[l] # NoApp
  BY DEF LaneStep, TokenStatus, TokenBody, ListClients, PatchClient, ListAgain,
         PatchAlternative, ConnectionStatus, ConnectionBody, PatchEnabled, In
<1>2. ALane(lanes[l])
  BY <1>1, HandlerSeen
<1>3. PICK h : h = lanes[l]
  OBVIOUS
<1>4. ALane(h)
  BY <1>2, <1>3
<1>5. ASSUME NEW g, Then(l, g), g.events = h.events,
             <<h.step, g.step>> \in
               {<<"token", "tokenBody">>, <<"list", "promote">>,
                <<"promote", "connection">>, <<"promote", "relist">>,
                <<"relist", "repromote">>, <<"repromote", "connection">>,
                <<"connectionBody", "patch">>}
      PROVE  LaneAdvances(l)
  BY <1>2, <1>3, <1>5, MoveAdvances DEF Then
<1>6. ASSUME NEW st, [h EXCEPT !.step = st].step # st PROVE FALSE
  BY <1>4, <1>6 DEF ALane, LanesAt
<1>7. ASSUME NEW st PROVE [h EXCEPT !.step = st].events = h.events
  BY <1>4 DEF ALane, LanesAt
<1>8. CASE TokenStatus(l)
  <2>1. h.step = "token"
    BY <1>3, <1>8 DEF TokenStatus, In
  <2>2. PICK g : g = [h EXCEPT !.step = "tokenBody"]
    OBVIOUS
  <2>3. Then(l, g) \/ Throw(l, h)
    BY <1>3, <1>8, <2>2 DEF TokenStatus
  <2>4. g.step = "tokenBody" /\ g.events = h.events
    BY <1>6, <1>7, <2>2
  <2> QED BY <1>5, <2>1, <2>3, <2>4, ThrowAdvances
<1>9. CASE TokenBody(l)
  BY <1>2, <1>9, LoopAdvances, ThrowAdvances DEF TokenBody
<1>10. CASE ListClients(l)
  <2>1. h.step = "list"
    BY <1>3, <1>10 DEF ListClients, In
  <2>2. PICK g, u : g = Promote(h, tenant.newest) /\ u = [h EXCEPT !.healthy = FALSE]
    OBVIOUS
  <2>3. Then(l, g) \/ Loop(l, h) \/ Loop(l, u) \/ Throw(l, h)
    BY <1>3, <1>10, <2>2 DEF ListClients
  <2>4. g.step = "promote" /\ g.events = h.events
    BY <1>4, <2>2 DEF Promote, ALane, LanesAt
  <2>5. ALane(u) /\ u.events = h.events
    BY <1>4, <2>2 DEF ALane, LanesAt
  <2> QED BY <1>2, <1>3, <1>5, <2>1, <2>3, <2>4, <2>5, LoopAdvances, ThrowAdvances
<1>11. CASE PatchClient(l)
  <2>1. h.step = "promote"
    BY <1>3, <1>11 DEF PatchClient, In
  <2>2. PICK g, u : /\ g = [h EXCEPT !.step = "connection"]
                    /\ u = [h EXCEPT !.step = "relist", !.healthy = FALSE]
    OBVIOUS
  <2>3. Then(l, g) \/ Then(l, u) \/ Throw(l, h)
    BY <1>3, <1>11, <2>2 DEF PatchClient
  <2>4. g.step = "connection" /\ g.events = h.events
    BY <1>6, <1>7, <2>2
  <2>5. u.step = "relist" /\ u.events = h.events
    BY <1>4, <2>2 DEF ALane, LanesAt
  <2> QED BY <1>5, <2>1, <2>3, <2>4, <2>5, ThrowAdvances
<1>12. CASE ListAgain(l)
  <2>1. h.step = "relist"
    BY <1>3, <1>12 DEF ListAgain, In
  <2>2. PICK g : g = [h EXCEPT !.step = "repromote", !.alt = tenant.newest]
    OBVIOUS
  <2>3. Then(l, g) \/ Throw(l, h)
    BY <1>3, <1>12, <2>2 DEF ListAgain
  <2>4. g.step = "repromote" /\ g.events = h.events
    BY <1>4, <2>2 DEF ALane, LanesAt
  <2> QED BY <1>5, <2>1, <2>3, <2>4, ThrowAdvances
<1>13. CASE PatchAlternative(l)
  <2>1. h.step = "repromote"
    BY <1>3, <1>13 DEF PatchAlternative, In
  <2>2. PICK g : g = Retry(h)
    OBVIOUS
  <2>3. Then(l, g) \/ Throw(l, h)
    BY <1>3, <1>13, <2>2 DEF PatchAlternative
  <2>4. g.step = "connection" /\ g.events = h.events
    BY <1>4, <2>2 DEF Retry, ALane, LanesAt
  <2> QED BY <1>5, <2>1, <2>3, <2>4, ThrowAdvances
<1>14. CASE ConnectionStatus(l)
  <2>1. h.step = "connection"
    BY <1>3, <1>14 DEF ConnectionStatus, In
  <2>2. PICK g : g = [h EXCEPT !.step = "connectionBody", !.read = tenant.enabled]
    OBVIOUS
  <2>3. lanes' = [lanes EXCEPT ![l] = g] \/ Throw(l, h)
    BY <1>3, <1>14, <2>2 DEF ConnectionStatus, DcrInv, DcrTypeOK
  <2>4. g.step = "connectionBody" /\ g.events = h.events
    BY <1>4, <2>2 DEF ALane, LanesAt
  <2> QED BY <1>2, <1>3, <2>1, <2>3, <2>4, MoveAdvances, ThrowAdvances
<1>15. CASE ConnectionBody(l)
  <2>1. h.step = "connectionBody"
    BY <1>3, <1>15 DEF ConnectionBody, In
  <2>2. PICK g : g = [h EXCEPT !.step = "patch"]
    OBVIOUS
  <2>3. Then(l, g) \/ Throw(l, h)
    BY <1>3, <1>15, <2>2 DEF ConnectionBody
  <2>4. g.step = "patch" /\ g.events = h.events
    BY <1>6, <1>7, <2>2
  <2> QED BY <1>5, <2>1, <2>3, <2>4, ThrowAdvances
<1>16. CASE PatchEnabled(l)
  BY <1>2, <1>16, LoopAdvances, ThrowAdvances DEF PatchEnabled
<1> QED BY <1>8, <1>9, <1>10, <1>11, <1>12, <1>13, <1>14, <1>15, <1>16 DEF LaneStep

LEMMA LanesAdvance ==
  ASSUME DcrInv, [DcrNext]_dcrVars, NEW l \in Lanes, lanes[l] # NoApp
  PROVE  (lanes'[l] = lanes[l] /\ ~LaneStep(l)) \/ LaneNears(l)
<1>1. CASE LaneStep(l)
  BY <1>1, LaneStepAdvances DEF LaneAdvances
<1> SUFFICES ASSUME ~LaneStep(l), lanes'[l] # NoApp
             PROVE  lanes'[l] = lanes[l]
  BY <1>1 DEF LaneNears
<1>2. CASE (\E app \in Apps : RegisterApp(app)) \/ AgeApp \/ Gate
  BY <1>2 DEF RegisterApp, AgeApp, Gate
<1>3. CASE DcrCrash
  BY <1>3 DEF DcrCrash
<1>4. ASSUME NEW k \in Lanes, \E log \in Logs : Handle(k, log)
      PROVE  lanes'[l] = lanes[l]
  BY <1>4 DEF Handle, DcrInv, DcrTypeOK
<1>5. ASSUME NEW k \in Lanes, LaneStep(k) PROVE lanes'[l] = lanes[l]
  BY <1>5, LaneStepAdvances DEF LaneAdvances
<1>6. CASE UNCHANGED dcrVars
  BY <1>6 DEF dcrVars
<1> QED BY <1>2, <1>3, <1>4, <1>5, <1>6 DEF DcrNext, LaneStep

(* The copies' handlers come to an end as the webhook's of explicabl does, *)
(* with a status and a body to wait for where that one has a call: each    *)
(* step leaves fewer awaits, and no other handler's adds any (the two DCR  *)
(* webhooks of packages/proxyabl/src).                                     *)
THEOREM LanesOnlyGoOn ==
  DcrSpec =>
    /\ [](\A l \in Lanes : lanes[l] # NoApp => LaneAhead(lanes[l]) \in Nat)
    /\ [][\A l \in Lanes : lanes[l] # NoApp =>
            (lanes'[l] = lanes[l] /\ ~LaneStep(l)) \/ LaneNears(l)]_dcrVars
<1>1. DcrInv /\ [DcrNext]_dcrVars =>
        [\A l \in Lanes : lanes[l] # NoApp =>
           (lanes'[l] = lanes[l] /\ ~LaneStep(l)) \/ LaneNears(l)]_dcrVars
  BY LanesAdvance
<1>2. DcrInv => \A l \in Lanes : lanes[l] # NoApp => LaneAhead(lanes[l]) \in Nat
  <2> SUFFICES ASSUME DcrInv, NEW l \in Lanes, lanes[l] # NoApp
               PROVE  LaneAhead(lanes[l]) \in Nat
    OBVIOUS
  <2>1. ALane(lanes[l])
    BY DEF DcrInv, DcrTypeOK, ALane
  <2> QED BY <2>1, LaneAheadIs
<1> QED BY <1>1, <1>2, DcrInvHolds, PTL DEF DcrSpec

-----------------------------------------------------------------------------
(***************************************************************************)
(* What is proved of each part by itself holds of the parts side by side.  *)
(***************************************************************************)
LEMMA StepsOfParts ==
  [Next]_allVars => /\ [GovernedNext]_governedVars
                    /\ [GatewayNext]_gatewayVars
                    /\ [DiscoveryNext]_queries
                    /\ [DcrNext]_dcrVars
                    /\ UNCHANGED deployment
<1> SUFFICES ASSUME [Next]_allVars
             PROVE  /\ [GovernedNext]_governedVars
                    /\ [GatewayNext]_gatewayVars
                    /\ [DiscoveryNext]_queries
                    /\ [DcrNext]_dcrVars
                    /\ UNCHANGED deployment
  OBVIOUS
<1>1. CASE UNCHANGED allVars
  BY <1>1 DEF allVars
<1>2. CASE Next
  BY Zenon, <1>2 DEF Next
<1> QED BY <1>1, <1>2

(* Where no governed call is made, there is none.                          *)
NoCall == ~Runs("call") /\ IdleGoverned

LEMMA NoCallStays == NoCall /\ [Next]_allVars => NoCall'
<1> SUFFICES ASSUME NoCall, [Next]_allVars PROVE NoCall'
  OBVIOUS
<1>1. UNCHANGED governedVars /\ UNCHANGED deployment
  BY Zenon DEF NoCall, Next, Runs, allVars
<1>2. Received' = Received
  BY <1>1 DEF Received, Original, governedVars
<1> QED BY <1>1, <1>2 DEF NoCall, IdleGoverned, Runs, governedVars

LEMMA NoCallIsIdle ==
  NoCall => /\ call.step = "done" /\ call.outcome = None
            /\ call.transformabl = None /\ connected = None
            /\ dns \in Addresses /\ rebound \in BOOLEAN
<1> SUFFICES ASSUME NoCall
             PROVE  /\ call.step = "done" /\ call.outcome = None
                    /\ call.transformabl = None /\ connected = None
                    /\ dns \in Addresses /\ rebound \in BOOLEAN
  OBVIOUS
<1>1. dns \in Parked.addresses
  BY PlaneAssumption DEF NoCall, IdleGoverned
<1> QED BY <1>1, PlaneAssumption DEF NoCall, IdleGoverned, Received

(* Every other part runs by itself, its fairness included.                 *)
THEOREM PartsRun == Spec => GatewaySpec /\ DiscoverySpec /\ DcrSpec
<1>1. Init => GatewayInit /\ DiscoveryInit /\ DcrInit
  BY DEF Init
<1> QED BY <1>1, StepsOfParts, PTL DEF Spec, GatewaySpec, DiscoverySpec, DcrSpec

Deployed == deployment \in Deployments

(* The types of all parts, side by side.                                   *)
THEOREM PlaneTyped == Spec => []TypeOK
<1>1. Init /\ Runs("call") => GovernedInit
  BY DEF Init
<1>2. Init /\ ~Runs("call") => NoCall
  BY DEF Init, NoCall
<1>3. NoCall => GovernedTypeOK
  BY NoCallIsIdle DEF GovernedTypeOK, Steps
<1>4. Spec => []GovernedTypeOK
  BY <1>1, <1>2, <1>3, StepsOfParts, NoCallStays, CallTyped, PTL
     DEF Spec, GovernedSpec
<1>5. Spec => []Deployed
  <2>1. Init => Deployed
    BY DEF Init, Deployed
  <2>2. Deployed /\ [Next]_allVars => Deployed'
    BY StepsOfParts DEF Deployed
  <2> QED BY <2>1, <2>2, PTL DEF Spec
<1>6. /\ Deployed
      /\ GovernedTypeOK /\ GatewayTypeOK /\ DiscoveryTypeOK /\ DcrTypeOK
      => TypeOK
  BY DEF TypeOK, Deployed
<1> QED BY <1>4, <1>5, <1>6, PartsRun, GatewayTyped, QueriesTyped, CopiesTyped, PTL

Safe ==
  /\ ForwardedIsEntitled /\ PrivateOnlyIfRebound /\ PriorityDecides
  /\ CredentialWins
  /\ Covers(job.how) => RedactionCovers /\ RedactionIsExact
  /\ SignedForEntitled
  /\ GivesUpAfterThree

(* And so do the invariants of all parts hold of them side by side, and    *)
(* what only a step can violate.                                           *)
THEOREM PlaneIsSafe == Spec => []Safe /\ OnlyMcpIsFatal /\ ImplementsExplicabl
<1>1. Init /\ Runs("call") => GovernedInit
  BY DEF Init
<1>2. Init /\ ~Runs("call") => NoCall
  BY DEF Init, NoCall
<1>3. NoCall => /\ ForwardedIsEntitled /\ PrivateOnlyIfRebound /\ PriorityDecides
                /\ CredentialWins
                /\ RedactionCovers /\ RedactionIsExact
  <2> SUFFICES ASSUME NoCall
               PROVE  /\ ForwardedIsEntitled /\ PrivateOnlyIfRebound
                      /\ PriorityDecides /\ CredentialWins
                      /\ RedactionCovers /\ RedactionIsExact
    OBVIOUS
  <2>1. ~Called /\ ~Analysed /\ ~Waiting("validate") /\ connected = None
    BY NoCallIsIdle DEF Called, Analysed, Waiting
  <2>2. ForwardedIsEntitled
    BY Zenon, <2>1 DEF ForwardedIsEntitled
  <2>3. PrivateOnlyIfRebound
    BY <2>1 DEF PrivateOnlyIfRebound
  <2>4. PriorityDecides
    BY Zenon, <2>1 DEF PriorityDecides
  <2>5. CredentialWins
    BY Zenon, <2>1 DEF CredentialWins
  <2>6. RedactionCovers
    BY Zenon, <2>1 DEF RedactionCovers
  <2>7. RedactionIsExact
    BY Zenon, <2>1 DEF RedactionIsExact
  <2> QED BY <2>2, <2>3, <2>4, <2>5, <2>6, <2>7
<1>4. /\ ForwardedIsEntitled /\ PrivateOnlyIfRebound /\ PriorityDecides
      /\ CredentialWins
      /\ Covers(job.how) => RedactionCovers
      /\ Covers(job.how) => RedactionIsExact
      /\ SignedForEntitled
      /\ GivesUpAfterThree
      => Safe
  BY DEF Safe
<1> QED
  BY <1>1, <1>2, <1>3, <1>4, StepsOfParts, NoCallStays, PartsRun, Entitlement,
     PublicCalls, OrderIsIrrelevant, Credentials, NothingDetectedStays,
     NothingElseGoes, Signatures, ThreeTries, Losses, CopiesImplementWebhook, PTL
     DEF Spec, GovernedSpec
==============================================================================
