----------------------------- MODULE GovernedCall -----------------------------
(***************************************************************************)
(* One call of a tool through the layers transformabl, validatabl and      *)
(* proxyabl-core, in the order their documents give: the middleware of     *)
(* packages/transformabl analyses and redacts the body, the middleware of  *)
(* packages/validatabl decides on what is left, and the integrator's       *)
(* handler resolves a provider and its credentials and has                 *)
(* executeProxyRequest() of packages/proxyabl-core make the call.          *)
(*                                                                         *)
(* The handler, the resolver and the upstream server are external.  An     *)
(* IPv4 address is the sequence of its four bytes, an IPv6 address that of *)
(* its eight groups.                                                       *)
(***************************************************************************)
EXTENDS Redaction, Policy

CONSTANTS
  Jobs,        \* what a request and its configuration may be
  Texts,       \* what its text may be
  Providers,   \* the registry: a function from keys to ProviderConfigs
  DefaultProvider,  \* ... and the key for a call that names none, or None
  Addresses,   \* what host names may resolve to: a set of sets of addresses
  Redacted     \* the word a redacted name is

(* An IPv4 or an IPv6 address.                                             *)
IsIp(ip) ==
  /\ ip \in Seq(Nat)
  /\ \/ Len(ip) = 4 /\ \A i \in 1..4 : ip[i] < 256
     \/ Len(ip) = 8 /\ \A i \in 1..8 : ip[i] < 65536

(* A RedactionConfig.                                                      *)
IsRedaction(how) ==
  /\ how.mode \in {"mask", "remove", "placeholder"}
  /\ how.keep \in Nat

(* A PolicySet.                                                            *)
IsPolicySet(policy) ==
  /\ {"rules", "defaultEffect"} \subseteq DOMAIN policy
  /\ DOMAIN policy.rules \subseteq Nat
  /\ \A i \in DOMAIN policy.rules : policy.rules[i].priority \in Int \cup {Absent}

(* The modes in which one of the tokens of the request is sent.            *)
TokenModes == {"forward_bearer", "service_oauth", "user_oauth"}

AuthModes == {"api_key", "none"} \cup TokenModes

ASSUME GovernedAssumption ==
  /\ \A text \in Texts : text.length \in Nat
  /\ \A addresses \in Addresses : \A ip \in addresses : IsIp(ip)
  /\ \A k \in DOMAIN Providers :
       /\ Providers[k].isName \/ IsIp(Providers[k].host)
       /\ Providers[k].auth.mode \in AuthModes
  /\ \A j \in Jobs :
       /\ {"options", "addresses", "tokens", "how"} \subseteq DOMAIN j
       /\ IsRedaction(j.how)
       /\ j.addresses \subseteq Addresses
       /\ j.options.policies # Absent => IsPolicySet(j.options.policies)
       /\ DOMAIN j.tokens = TokenModes
  /\ None \notin Seq(Nat) /\ None # "authorization"

VARIABLES
  job,        \* the request, its text and what the patterns find in it
  call,       \* how far the call has come
  dns,        \* external: what the provider's name resolves to now
  rebound,    \* history: the name has come to resolve to something else
  connected   \* history: the address the call was made to, or None

governedVars == <<job, call, dns, rebound, connected>>

-----------------------------------------------------------------------------
(* The body after the middleware of transformabl: its characters, the name *)
(* and the arguments in it.  A body that does not parse any more is set as *)
(* a string, which has neither; a name or an argument that is redacted, in *)
(* full or in part, is one other word.                                     *)
Original == [chars |-> Chars(job.text), name |-> job.tool, input |-> job.input]

Touches(result, chars) == \E c \in chars : c \notin ToSet(result.content)

RedactedBody(result) ==
  IF Touches(result, job.syntax)
  THEN [chars |-> result.content, name |-> Absent, input |-> String(<<Redacted>>)]
  ELSE [chars |-> result.content,
        name  |-> IF Touches(result, job.nameAt) THEN String(<<Redacted>>)
                  ELSE job.tool,
        input |-> IF job.input = Absent THEN Absent
                  ELSE Object([f \in DOMAIN job.input.fields |->
                         IF Touches(result, job.fieldAt[f])
                         THEN String(<<Redacted>>) ELSE job.input.fields[f]])]

BodyAfter(result) ==
  IF job.redactBody /\ result.transformed THEN RedactedBody(result) ELSE Original

(* The request decision() is asked about: without arguments its input is   *)
(* the body itself, in which there is nothing but the name.                *)
InputOf(body) ==
  IF body.input = Absent THEN Object([name |-> body.name]) ELSE body.input

RequestFor(body) ==
  [claims |-> job.claims, tool |-> body.name, model |-> Absent,
   input  |-> InputOf(body)]

-----------------------------------------------------------------------------
(* resolveProvider(); None if it throws.                                   *)
ResolveProvider ==
  LET key == IF job.provider = None THEN DefaultProvider ELSE job.provider
  IN  IF key \in DOMAIN Providers THEN Providers[key] ELSE None

(* resolveAuth(): the credential, or None if it throws; `header` is where  *)
(* it goes.                                                                *)
ResolveAuth(auth) ==
  CASE auth.mode = "api_key" ->
         IF auth.header = None \/ auth.value = None THEN None
         ELSE [header |-> auth.header, value |-> auth.value]
    [] auth.mode = "none" -> [header |-> None, value |-> None]
    [] auth.mode \in TokenModes ->
         IF job.tokens[auth.mode] = None THEN None
         ELSE [header |-> "authorization", value |-> job.tokens[auth.mode]]

BlockedHeaders ==
  {"host", "connection", "keep-alive", "transfer-encoding", "te", "trailer",
   "upgrade", "proxy-authorization", "proxy-connection"}

Only(headers, names) == [n \in DOMAIN headers \cap names |-> headers[n]]

(* Later headers take the place of earlier ones.                           *)
Over(later, earlier) ==
  [n \in DOMAIN later \cup DOMAIN earlier |->
     IF n \in DOMAIN later THEN later[n] ELSE earlier[n]]

Injected(auth) ==
  IF auth.header = None THEN <<>> ELSE [n \in {auth.header} |-> auth.value]

Unblocked(custom) == Only(custom, DOMAIN custom \ BlockedHeaders)

(* Slip: the custom headers are merged last.                               *)
HeadersCustomLast(provider, auth) ==
  Over(Unblocked(provider.headers), Injected(auth))

Headers(provider, auth) ==
  Over(Injected(auth), Unblocked(provider.headers))

-----------------------------------------------------------------------------
(* isPrivateIpv4()                                                         *)
IsPrivateIpv4(ip) ==
  \/ ip[1] \in {0, 10, 127}
  \/ ip[1] = 169 /\ ip[2] = 254
  \/ ip[1] = 172 /\ ip[2] \in 16..31
  \/ ip[1] = 192 /\ ip[2] = 168

(* isPrivateIpv6(): ::1, or the first group is written fc.., fd.. or       *)
(* fe8. to feb., whatever the number of its digits.                        *)
IsPrivateIpv6(ip) ==
  \/ ip = <<0, 0, 0, 0, 0, 0, 0, 1>>
  \/ ip[1] \in {252, 253} \cup 4032..4063 \cup 64512..65023
  \/ ip[1] \in 4072..4075 \cup 65152..65215

(* extractIpv4MappedIpv6()                                                 *)
IsMapped(ip) == SubSeq(ip, 1, 6) = <<0, 0, 0, 0, 0, 65535>>

Mapped(ip) == <<ip[7] \div 256, ip[7] % 256, ip[8] \div 256, ip[8] % 256>>

(* assertIpNotPrivate() throws.                                            *)
IpIsPrivate(ip) ==
  IF Len(ip) = 4 THEN IsPrivateIpv4(ip)
  ELSE \/ IsPrivateIpv6(ip)
       \/ IsMapped(ip) /\ IsPrivateIpv4(Mapped(ip))

(* assertUrlSafe() up to the lookup; a host is a name or an address.       *)
UrlAllowed(provider) ==
  /\ \/ provider.protocol = "https:"
     \/ provider.protocol = "http:" /\ provider.allowHttp
  /\ provider.host \in provider.allowedHosts
  /\ provider.isName \/ ~IpIsPrivate(provider.host)

(* ... and after it.  Slip: one public address is enough.                  *)
ResolvedSafeAny(addresses) == \E a \in addresses : ~IpIsPrivate(a)

ResolvedSafe(addresses) == \A a \in addresses : ~IpIsPrivate(a)

-----------------------------------------------------------------------------
(* What the patterns may find in a text: at most maxHits of them, a bound. *)
PossibleHits(text) ==
  LET n == Len(Scanned(text))
      hit == {h \in [pattern : DOMAIN Patterns, start : 0..n, end : 0..n] :
                h.start < h.end}
  IN  {hits \in {{}} \cup {ToSet(f) : f \in [1..text.maxHits -> hit]} :
         Disjoint(hits)}

Waiting(step) == call.step = step

Goto(step) == [call EXCEPT !.step = step]

(* An answer, or an error the handler has caught.  Slip: the call goes on. *)
EndedInPlace(outcome) == [call EXCEPT !.outcome = outcome]

Ended(outcome) == [call EXCEPT !.step = "done", !.outcome = outcome]

Received == [step |-> "transform", transformabl |-> None, body |-> Original,
             headers |-> <<>>, outcome |-> None]

(* With options that it refuses to mount, validatabl() serves no call.     *)
GovernedInit ==
  /\ \E j \in Jobs, text \in Texts : \E hits \in PossibleHits(text) :
       /\ text \in j.texts
       /\ Mounts(j.options)
       /\ job = Over([text |-> text, hits |-> hits], j)
  /\ call = Received
  /\ dns \in job.addresses
  /\ rebound = FALSE
  /\ connected = None

(* transformabl(); transformContent() detects before it redacts.           *)
Transform ==
  /\ Waiting("transform")
  /\ \E matches \in {DetectPii(job.text, job.hits)} :
     \E content \in {RedactPii(Chars(job.text), matches, job.how)} :
       LET result == TransformResult(job.text, matches, content, job.classify) IN
       call' = IF job.blockThreshold # None /\ result.riskScore >= job.blockThreshold
               THEN [Ended(403) EXCEPT !.transformabl = result]
               ELSE [call EXCEPT !.step = "validate", !.transformabl = result,
                                 !.body = BodyAfter(result)]
  /\ UNCHANGED <<job, dns, rebound, connected>>

(* Slip: the request as it was received.                                   *)
PolicyRequestReceived == RequestFor(Original)

PolicyRequest == RequestFor(call.body)

(* validatabl(); Express answers a throw with 500.                         *)
Validate ==
  /\ Waiting("validate")
  /\ LET decision == Decision(PolicyRequest, job.options) IN
     call' = CASE decision = "throw" -> Ended(500)
               [] decision = "deny"  -> Ended(403)
               [] decision = "allow" -> Goto("resolve")
  /\ UNCHANGED <<job, dns, rebound, connected>>

(* The handler, up to the await of the lookup, if there is one.  The path  *)
(* is any: buildUrl() throws if it does not begin with a slash.            *)
Resolve ==
  /\ Waiting("resolve")
  /\ LET provider == ResolveProvider IN
     call' \in
       IF provider = None THEN {Ended("no-provider")}
       ELSE IF ResolveAuth(provider.auth) = None THEN {Ended("no-credential")}
       ELSE {Ended("bad-path"),
             IF ~UrlAllowed(provider) THEN Ended("unsafe-url")
             ELSE [call EXCEPT
                    !.step = IF provider.isName THEN "lookup" ELSE "fetch",
                    !.headers = Headers(provider, ResolveAuth(provider.auth))]}
  /\ UNCHANGED <<job, dns, rebound, connected>>

Lookup ==
  /\ Waiting("lookup")
  /\ call' \in {IF ResolvedSafe(dns) THEN Goto("fetch") ELSE Ended("unsafe-url"),
                Ended("lookup-failed")}
  /\ UNCHANGED <<job, dns, rebound, connected>>

(* fetch() looks the name up again.  Headers have come: the timer is       *)
(* cleared, a redirect is refused, anything else has a body to wait for.   *)
Headed ==
  /\ Waiting("fetch")
  /\ connected' \in IF ResolveProvider.isName THEN dns ELSE {ResolveProvider.host}
  /\ call' \in {Ended("redirect"), Goto("body")}
  /\ UNCHANGED <<job, dns, rebound>>

(* The connection fails, or the timer fires first.                         *)
Unreachable ==
  /\ Waiting("fetch")
  /\ call' = Ended("unreachable")
  /\ UNCHANGED <<job, dns, rebound, connected>>

(* Slip: the timer is not set.                                             *)
NeverFires == FALSE

TimerIsSet == Waiting("fetch")

TimeOut ==
  /\ TimerIsSet
  /\ call' = Ended("timeout")
  /\ UNCHANGED <<job, dns, rebound, connected>>

(* The body ends or breaks off; an error status is thrown with it.         *)
Bodied ==
  /\ Waiting("body")
  /\ call' \in {Ended("answered"), Ended("upstream-error"), Ended("body-failed")}
  /\ UNCHANGED <<job, dns, rebound, connected>>

(* Between the check and the connection.  A change before the check makes  *)
(* no difference to it: dns is any of the job's address sets anyway.       *)
Rebind ==
  /\ Waiting("fetch")
  /\ ~rebound
  /\ dns' \in job.addresses \ {dns}
  /\ rebound' = TRUE
  /\ UNCHANGED <<job, call, connected>>

GovernedNext ==
  \/ Transform \/ Validate \/ Resolve \/ Lookup
  \/ Headed \/ Unreachable \/ TimeOut \/ Bodied \/ Rebind

(* The gateway's own steps come in their turn, a lookup ends one way or    *)
(* another, and timers fire.  The upstream server owes nothing.            *)
GovernedFairness ==
  /\ WF_governedVars(Transform) /\ WF_governedVars(Validate)
  /\ WF_governedVars(Resolve) /\ WF_governedVars(Lookup)
  /\ WF_governedVars(TimeOut)

GovernedSpec == GovernedInit /\ [][GovernedNext]_governedVars /\ GovernedFairness

-----------------------------------------------------------------------------
Steps ==
  {"transform", "validate", "resolve", "lookup", "fetch", "body", "done"}

(* The shape of the state: a call that is done has an outcome, and only a  *)
(* call that got as far as fetch() has been connected.                     *)
GovernedTypeOK ==
  /\ call.step \in Steps
  /\ call.outcome # None => call.step = "done"
  /\ dns \in Addresses
  /\ rebound \in BOOLEAN
  /\ connected # None => call.step \in {"body", "done"}

Analysed == call.transformabl # None

(* Of what a hit covers nothing is left in the redacted text, or in mask   *)
(* mode at most maskKeep characters from each end of what is masked in one *)
(* piece: with overlapping, nested and touching hits, with invisible       *)
(* characters in them and with some types left alone (detect.ts,           *)
(* redact.ts).                                                             *)
RedactionCovers ==
  Analysed =>
    \A c \in Covered(job.text, job.hits, job.how) :
      c \in ToSet(call.transformabl.content) =>
        /\ job.how.mode = "mask"
        /\ NearAnEnd(job.text, job.hits, job.how, c)

(* And redaction takes nothing else: the characters that no wanted hit     *)
(* covers are all there, in their order, and masking moves none.           *)
RedactionIsExact ==
  Analysed =>
    LET content == call.transformabl.content
        free == 1..job.text.length \ Covered(job.text, job.hits, job.how)
    IN  /\ free \subseteq ToSet(content)
        /\ \A i, j \in DOMAIN content :
             {content[i], content[j]} \subseteq free /\ i < j => content[i] < content[j]
        /\ job.how.mode = "mask" => Len(content) = job.text.length

Called == call.step \in {"fetch", "body"} \/ connected # None

(* A call that is made satisfies every configured check, of the body that  *)
(* is forwarded and not of the one received: the permissions are granted,  *)
(* every rule has conditions, some allow rule matches ahead of every deny  *)
(* rule that does (or nothing matches and the default is to allow), and    *)
(* the schema holds, also of a body without arguments (decision()).        *)
ForwardedIsEntitled ==
  Called =>
    LET request == RequestFor(BodyAfter(call.transformabl))
        policy == job.options.policies
        schema == job.options.inputSchema
        first(i, j) ==
          LET p == Priority(policy.rules[i])
              q == Priority(policy.rules[j])
          IN  \/ p < q
              \/ p = q /\ i < j
        rules(effect) == {i \in Matching(policy, request) :
                            policy.rules[i].effect = effect}
    IN  /\ \/ job.options.requiredPermissions # {}
           \/ policy # Absent /\ policy.rules # <<>>
           \/ schema # Absent
        /\ job.options.requiredPermissions \subseteq Grants(job.claims)
        /\ policy # Absent =>
             /\ IsValid(policy)
             /\ \/ \E i \in rules("allow") : \A j \in rules("deny") : first(i, j)
                \/ /\ rules("allow") \cup rules("deny") = {}
                   /\ policy.defaultEffect = "allow"
        /\ schema # Absent => CheckSchema(request.input, schema)
        /\ call.body = BodyAfter(call.transformabl)

Reordered(policy, p) ==
  [policy EXCEPT !.rules = [i \in DOMAIN @ |-> @[p[i]]]]

(* A reordering in which rules of one priority keep their order.           *)
KeepsTies(policy, p) ==
  \A i, j \in DOMAIN policy.rules :
    /\ i < j
    /\ Priority(policy.rules[p[i]]) = Priority(policy.rules[p[j]])
    => p[i] < p[j]

(* Only priorities decide: writing the rules down in another order, those  *)
(* of one priority left as they are, changes no decision, with or without  *)
(* the default priority of 100 (applyPolicies()).                          *)
PriorityDecides ==
  (Waiting("validate") /\ job.options.policies # Absent) =>
    LET policy == job.options.policies
        request == PolicyRequest
    IN  \A p \in Bijection(DOMAIN policy.rules, DOMAIN policy.rules) :
          KeepsTies(policy, p) =>
            (ApplyPolicies(Reordered(policy, p), request)
               = ApplyPolicies(policy, request))

High(ip) == ip[1] * 256 + ip[2]

(* The blocks of private IPv4 addresses by their first two bytes.          *)
PrivateBlock ==
  0..255 \cup 2560..2815 \cup 32512..32767 \cup {43518} \cup 44048..44063
    \cup {49320}

(* The address that is called is public, an IPv4 address inside an IPv6    *)
(* one included, unless the name has come to resolve to something else     *)
(* after the check (assertUrlSafe()).                                      *)
PrivateOnlyIfRebound ==
  connected # None =>
    \/ rebound
    \/ Len(connected) = 4 /\ High(connected) \notin PrivateBlock
    \/ /\ Len(connected) = 8
       /\ connected # <<0, 0, 0, 0, 0, 0, 0, 1>>
       /\ connected[1] \notin 64512..65023 \cup 65152..65215
       /\ IsMapped(connected) => High(Mapped(connected)) \notin PrivateBlock

(* What may be sent to a provider that is not to have the caller's token:  *)
(* what is configured for it, and the request's other tokens.              *)
Sendable(provider) ==
  {provider.auth.value} \cup {provider.headers[n] : n \in DOMAIN provider.headers}
    \cup {job.tokens[mode] : mode \in TokenModes \ {"forward_bearer"}}

(* The credential of the provider that is called goes where it belongs,    *)
(* whatever custom headers the provider has; a provider that is not to     *)
(* have the caller's own token is sent it only if somebody configured the  *)
(* very same value; and of the headers that are not to be forwarded none   *)
(* is, unless the provider's key is to go there.                           *)
CredentialWins ==
  Called =>
    LET auth == ResolveProvider.auth
        sent == call.headers
    IN  /\ auth.mode = "api_key" => sent[auth.header] = auth.value
        /\ auth.mode \in TokenModes =>
             sent["authorization"] = job.tokens[auth.mode]
        /\ auth.mode # "forward_bearer" =>
             \A n \in DOMAIN sent : sent[n] \in Sendable(ResolveProvider)
        /\ \A n \in DOMAIN sent \cap BlockedHeaders :
             auth.mode = "api_key" /\ n = auth.header

(* Every call ends, unless it waits for a body whose headers have come:    *)
(* the timer covers no more than them.                                     *)
CallEnds == Waiting("transform") ~> (Waiting("done") \/ Waiting("body"))
===============================================================================
