---------------------------- MODULE MCProxyPlane ----------------------------
(* The proxy plane with everything its parts are to be tried with.         *)
EXTENDS ProxyPlane

CONSTANTS ssn, note, ada, bob, app1, app2

-----------------------------------------------------------------------------
(* A governed call.  Texts are short enough for the caps to matter; the    *)
(* second pattern's type has no regulation.                                *)
MCPatterns == <<ssn, note>>

MCAnchored(p) == p = <<"^send">>

MCFinds(p, s) ==
  \E i \in DOMAIN s :
    <<p[1], s[i]>> \in {<<"^send", "send">>, <<"^send", "send-all">>}

MCIs(p, s) == p = s

PublicAddress == <<8, 8, 8, 8>>

(* An address of each kind of block, the mapped one included.              *)
PrivateAddresses ==
  {<<172, 31, 0, 1>>, <<169, 254, 169, 254>>,
   <<0, 0, 0, 0, 0, 65535, 2560, 1>>, <<65152, 0, 0, 0, 0, 0, 0, 1>>}

MCAddresses ==
  {{PublicAddress}} \cup {{PublicAddress, a} : a \in PrivateAddresses}

Provider(host, isName, auth, headers) ==
  [host |-> host, isName |-> isName, protocol |-> "https:", allowHttp |-> FALSE,
   allowedHosts |-> {host}, auth |-> auth, headers |-> headers]

Auth(mode) == [mode |-> mode, header |-> None, value |-> None]

MCProviders ==
  [named  |-> Provider("api", TRUE, Auth("forward_bearer"),
                       [authorization |-> "custom", host |-> "other"]),
   keyed  |-> Provider(PublicAddress, FALSE,
                       [mode |-> "api_key", header |-> "x-key", value |-> "key"],
                       [accept |-> "all"]),
   mapped |-> Provider(<<0, 0, 0, 0, 0, 65535, 49320, 1>>, FALSE, Auth("none"), <<>>),
   owned  |-> Provider("api", TRUE, Auth("user_oauth"), <<>>),
   plain  |-> [Provider("api", TRUE, Auth("none"), <<>>) EXCEPT !.protocol = "http:"]]

MCClaims ==
  [scope |-> <<"tool:send">>, scopes |-> <<"tool:all">>, permissions |-> Absent,
   roles |-> <<"agent">>, org_id |-> <<"acme">>, sub |-> <<"u1">>]

If(field, operator, value) ==
  [field |-> field, operator |-> operator, value |-> value]

Rule(effect, priority, conditions) ==
  [effect |-> effect, priority |-> priority, conditions |-> conditions]

AnySend == If(<<"tool">>, "matches", String(<<"^send">>))
SendOnly == If(<<"tool">>, "matches", String(<<"send">>))
Agent == If(<<"roles">>, "contains", String(<<"agent">>))
Acme == If(<<"identity", "org_id">>, "in", Strings(<<"acme", "other">>))
Slow == If(<<"input", "how">>, "equals", String(<<"slow">>))
NoModel == If(<<"model">>, "exists", [kind |-> "flag", flag |-> FALSE])

(* Priorities against the order written, ties, the default priority, rules *)
(* without conditions, no rules.                                           *)
MCPolicies ==
  [defaultEffect : {"deny", "allow"},
   rules : {<<>>,
            <<Rule("allow", Absent, {AnySend, Agent}), Rule("deny", 50, {Slow}),
              Rule("deny", 100, {NoModel, SendOnly})>>,
            <<Rule("allow", 1, {Acme}), Rule("deny", Absent, {AnySend})>>,
            <<Rule("allow", 1, {}), Rule("deny", Absent, {AnySend})>>,
            <<Rule("deny", 0, {Slow}), Rule("allow", Absent, {SendOnly})>>}]

MCSchema ==
  [type |-> "object", enum |-> Absent, required |-> {"how"},
   properties |-> [how |-> [type |-> "string", enum |-> {<<"fast">>, <<"slow">>}]]]

MCOptions ==
  [requiredPermissions : {{}, {"tool:send", "agent"}},
   policies : MCPolicies \cup {Absent}, inputSchema : {MCSchema, Absent}]

Redaction(mode, keep, types) == [mode |-> mode, keep |-> keep, types |-> types]
Removing == Redaction("remove", 1, None)

Needing(permission) ==
  [requiredPermissions |-> {permission}, policies |-> Absent,
   inputSchema |-> Absent]

Text(n, invisible, unsafe, hits) ==
  [length |-> n, invisible |-> invisible, unsafe |-> unsafe, maxHits |-> hits]

ShortText == Text(3, {}, TRUE, 1)

(* One that is too long to be normalised, one that is not scanned to its   *)
(* end, and invisible characters.                                          *)
LongTexts ==
  {Text(5, {2}, FALSE, 3), Text(6, {2}, FALSE, 3), Text(4, {3}, FALSE, 3)}

MCTexts == LongTexts \cup {ShortText}

SlowInput == Object([how |-> String(<<"slow">>)])

BasicJob ==
  [texts |-> LongTexts, how |-> Removing, classify |-> TRUE,
   blockThreshold |-> None, redactBody |-> TRUE,
   syntax |-> {1}, nameAt |-> {2}, fieldAt |-> [how |-> {3}],
   tool |-> String(<<"send">>), input |-> SlowInput, claims |-> MCClaims,
   options |-> Needing("admin"), provider |-> "named",
   addresses |-> {{PublicAddress}},
   tokens |-> [forward_bearer |-> "caller", service_oauth |-> None,
               user_oauth |-> "user"]]

(* Long texts with every way to redact them, in a call that is denied; a   *)
(* short one before all policies; and before all providers.                *)
RedactedJobs ==
  {[BasicJob EXCEPT !.how = h] :
     h \in {Removing, Redaction("mask", 1, None),
            Redaction("placeholder", 1, {ssn})}}

DecidedJobs ==
  {[BasicJob EXCEPT !.texts = {ShortText}, !.options = o, !.tool = String(<<t>>),
                    !.input = i, !.redactBody = b] :
     o \in MCOptions, t \in {"send", "send-all"}, i \in {Absent, SlowInput},
     b \in BOOLEAN}

ProvidedJobs ==
  {[BasicJob EXCEPT !.texts = {ShortText}, !.provider = p, !.classify = c,
                    !.blockThreshold = IF c THEN None ELSE 70,
                    !.addresses = MCAddresses,
                    !.options = Needing("agent"), !.tokens.user_oauth = u] :
     p \in DOMAIN MCProviders \cup {"none", None}, c \in BOOLEAN, u \in {None, "user"}}
  \cup {[BasicJob EXCEPT !.texts = {ShortText}, !.blockThreshold = 70,
                         !.options = Needing("agent")]}

MCJobs == RedactedJobs \cup DecidedJobs \cup ProvidedJobs

(* The number of characters the option says is kept.                       *)
KeepZeroJobs == {[BasicJob EXCEPT !.how = Redaction("mask", 0, None)]}

MCParked == Over([text |-> ShortText, hits |-> {}], BasicJob)

-----------------------------------------------------------------------------
(* The tool gateway: two users, one tool each of them lacks a scope for,   *)
(* one tool that needs none, one whose name is not legal.                  *)
MCNeeds ==
  [read |-> {"r"}, write |-> {"r", "w"}, ping |-> {}] @@ ("odd name" :> {"r"})

MCGranted == (ada :> {"r", "w"}) @@ (bob :> {"r"}) @@ (Nobody :> {"r", "w"})

Plain(method, path, rpc, tool, token) ==
  [method |-> method, path |-> path, rpc |-> rpc, tool |-> tool, token |-> token,
   tail |-> <<>>]

MCOpenPaths == {<<"api">>}

MCAsked ==
  {Plain("POST", "mcp", "tools/call", tool, token) :
     tool \in {"write", "ping"}, token \in {ada, bob}}
  \cup {Plain("POST", "root", "tools/call", tool, ada) :
          tool \in {"odd name", "gone", Nil}}
  \cup {Plain("POST", "mcp", "tools/call", "write", token) :
          token \in {Nobody, Forged, Opaque}}
  \cup {Plain("POST", "mcp", "tools/list", Nil, token) : token \in {ada, Dotted, Nil}}
  \cup {Plain("POST", "mcp", rpc, Nil, Nil) :
          rpc \in {Nil, "initialize", "notifications/initialized", "unknown"}}
  \cup {Plain("POST", "tool", Nil, "write", token) :
          token \in {ada, bob, Nobody, Forged, Dotted}}
  \cup {Plain("POST", "tool", Nil, tool, ada) : tool \in {"odd name", "gone"}}
  \cup {Plain("POST", "root", Nil, Nil, ada), Plain("POST", "webhook", Nil, Nil, Nil),
        Plain("OPTIONS", "mcp", Nil, Nil, Nil), Plain("PUT", "tool", Nil, "write", Nil)}
  \cup {Plain(method, path, Nil, Nil, Nil) :
          method \in {"GET", "HEAD"}, path \in {"root", "well-known"}}
  \cup {[Plain("GET", "proxy", Nil, Nil, bob) EXCEPT !.tail = tail] :
          tail \in {<<"api", "x">>, <<"api", "..">>, <<"admin">>}}
  \cup {[Plain("GET", "proxy", Nil, Nil, token) EXCEPT !.tail = <<"api">>] :
          token \in {Nobody, Forged}}

-----------------------------------------------------------------------------
(* The copies of the webhook: two apps, an event without one.              *)
MCLogs == {<<app1>>, <<Anonymous, app2>>, <<Anonymous>>, <<Unrelated>>}
=============================================================================
