-------------------------------- MODULE Policy --------------------------------
(***************************************************************************)
(* packages/validatabl-core/src: permissions, policies and schemas, and    *)
(* the decision() that runs them in this order.                            *)
(*                                                                         *)
(* A string is the sequence of the words between its spaces.  A JavaScript *)
(* value is Absent (undefined; null does not occur) or a record:           *)
(*   [kind |-> "string", text |-> s]    [kind |-> "list", items |-> seq]   *)
(*   [kind |-> "object", fields |-> f]  [kind |-> "flag", flag |-> b]      *)
(*   [kind |-> "number"]                                                   *)
(* The regular expression engine is external.                              *)
(***************************************************************************)
EXTENDS Integers, Sequences, SequencesExt

CONSTANTS
  Absent,             \* an absent field, claim, option or priority
  Anchored(_),        \* the pattern begins with ^ or ends with $
  RegExpFinds(_, _),  \* RegExpFinds(pattern, s): it matches somewhere in s
  RegExpIs(_, _)      \* RegExpIs(pattern, s): ^(?:pattern)$ matches s

String(s) == [kind |-> "string", text |-> s]
Strings(seq) == [kind |-> "list", items |-> seq]
Object(f) == [kind |-> "object", fields |-> f]

IsKind(v, kind) == v # Absent /\ v.kind = kind

-----------------------------------------------------------------------------
(* getScopeStringFromClaims(): an array is joined with spaces, so that its *)
(* words are those of its members.                                         *)
ScopeString(claims) ==
  IF claims.scope # Absent THEN claims.scope
  ELSE IF claims.scopes # Absent THEN claims.scopes
  ELSE <<>>

Listed(claim) == IF claim = Absent THEN <<>> ELSE claim

(* getAllGrants()                                                          *)
Grants(claims) ==
  ToSet(ScopeString(claims)) \cup ToSet(Listed(claims.permissions))
    \cup ToSet(Listed(claims.roles))

(* checkPermissions(); `required` is a set.                                *)
CheckPermissions(claims, required) == required \subseteq Grants(claims)

-----------------------------------------------------------------------------
ShorthandFields ==
  {<<"scope">>, <<"permission">>, <<"permissions">>, <<"role">>, <<"roles">>,
   <<"org_id">>, <<"sub">>, <<"tool">>, <<"model">>}

Member(v, name) ==
  IF IsKind(v, "object") /\ name \in DOMAIN v.fields THEN v.fields[name]
  ELSE Absent

OrAbsent(s) == IF s = Absent THEN Absent ELSE String(s)

ListOrAbsent(claim) == IF claim = Absent THEN Absent ELSE Strings(claim)

(* The identity of a request; its scope claim is a string, the other one a *)
(* list.                                                                   *)
Identity(claims) ==
  Object([sub |-> OrAbsent(claims.sub), org_id |-> OrAbsent(claims.org_id),
          scope |-> OrAbsent(claims.scope), scopes |-> ListOrAbsent(claims.scopes),
          permissions |-> ListOrAbsent(claims.permissions),
          roles |-> ListOrAbsent(claims.roles)])

(* resolveField(); a field is the sequence of the parts between its dots.  *)
ResolveField(field, request) ==
  LET claims == request.claims IN
  CASE field = <<"scope">>                           -> String(ScopeString(claims))
    [] field \in {<<"permission">>, <<"permissions">>} -> Strings(Listed(claims.permissions))
    [] field \in {<<"role">>, <<"roles">>}           -> Strings(Listed(claims.roles))
    [] field = <<"org_id">>                          -> OrAbsent(claims.org_id)
    [] field = <<"sub">>                             -> OrAbsent(claims.sub)
    [] field = <<"tool">>                            -> request.tool
    [] field = <<"model">>                           -> request.model
    [] field \notin ShorthandFields ->
         FoldLeft(Member,
                  Object([identity |-> Identity(claims), tool |-> request.tool,
                          model |-> request.model, input |-> request.input]),
                  field)

(* The pieces of s.split(" ").                                             *)
Pieces(s) == IF s = <<>> THEN {<<>>} ELSE {<<w>> : w \in ToSet(s)}

(* String(v), if it can be a piece: a list joins its items with commas.    *)
AsStrings(v) ==
  CASE v.kind = "string" -> {v.text}
    [] v.kind = "flag"   -> {<<IF v.flag THEN "true" ELSE "false">>}
    [] v.kind = "list"   -> IF Len(v.items) <= 1 THEN {v.items} ELSE {}

(* matchesCondition(); the value of a condition is a string, a list of     *)
(* strings or a flag, and a list or an object is equal to no other.        *)
MatchesCondition(c, request) ==
  LET field == ResolveField(c.field, request)
      value == c.value
      bothStrings == IsKind(field, "string") /\ IsKind(value, "string")
  IN  CASE c.operator = "equals" ->
             \/ bothStrings /\ field.text = value.text
             \/ IsKind(field, "flag") /\ IsKind(value, "flag")
                  /\ field.flag = value.flag
        [] c.operator = "contains" ->
             \/ IsKind(field, "string")
                  /\ AsStrings(value) \cap Pieces(field.text) # {}
             \/ IsKind(field, "list") /\ IsKind(value, "string")
                  /\ value.text \in {<<w>> : w \in ToSet(field.items)}
        [] c.operator = "in" ->
             /\ IsKind(value, "list") /\ IsKind(field, "string")
             /\ field.text \in {<<w>> : w \in ToSet(value.items)}
        [] c.operator = "matches" ->
             /\ bothStrings
             /\ IF Anchored(value.text) THEN RegExpFinds(value.text, field.text)
                ELSE RegExpIs(value.text, field.text)
        [] c.operator = "exists" ->
             IF value \in {[kind |-> "flag", flag |-> FALSE], String(<<>>)}
             THEN field = Absent
             ELSE field # Absent

(* matchesAllConditions()                                                  *)
MatchesAllConditions(rule, request) ==
  \A c \in rule.conditions : MatchesCondition(c, request)

-----------------------------------------------------------------------------
(* validatePolicySet() throws for a rule without conditions.               *)
IsValid(policy) ==
  \A i \in DOMAIN policy.rules : policy.rules[i].conditions # {}

Priority(rule) == IF rule.priority = Absent THEN 100 ELSE rule.priority

(* Slip: the rules in the order they are written in.                       *)
AheadAsWritten(rules, i, j) == i < j

(* The order of the stable sort.                                           *)
Ahead(rules, i, j) ==
  \/ Priority(rules[i]) < Priority(rules[j])
  \/ Priority(rules[i]) = Priority(rules[j]) /\ i < j

Matching(policy, request) ==
  {i \in DOMAIN policy.rules : MatchesAllConditions(policy.rules[i], request)}

(* The rules the loop returns at: the first matching one in that order.    *)
Deciding(policy, request) ==
  {i \in Matching(policy, request) :
     \A j \in Matching(policy, request) \ {i} : Ahead(policy.rules, i, j)}

(* applyPolicies(), for a valid set: the effect of the first rule that     *)
(* matches, or the default, which is to deny.                              *)
ApplyPolicies(policy, request) ==
  IF Matching(policy, request) = {} THEN policy.defaultEffect = "allow"
  ELSE \E i \in Deciding(policy, request) : policy.rules[i].effect = "allow"

-----------------------------------------------------------------------------
(* validateValue(); an enum of strings is the set of them.                 *)
TypeOf(v) == IF v = Absent THEN "undefined"
             ELSE IF v.kind = "list" THEN "array"
             ELSE IF v.kind = "flag" THEN "boolean" ELSE v.kind

ValidateValue(v, schema) ==
  /\ schema.type = Absent \/ TypeOf(v) = schema.type
  /\ schema.enum = Absent \/ (IsKind(v, "string") /\ v.text \in schema.enum)

(* checkSchema(); `required` is a set of fields and `properties` gives     *)
(* some of them a type or an enum.                                         *)
CheckSchema(input, schema) ==
  IF schema.type = "object"
  THEN /\ IsKind(input, "object")
       /\ \A f \in schema.required : Member(input, f) # Absent
       /\ \A f \in DOMAIN schema.properties :
            Member(input, f) # Absent =>
              ValidateValue(Member(input, f), schema.properties[f])
  ELSE ValidateValue(input, schema)

(* decision(): "allow", "deny" or, from validatePolicySet(), "throw".      *)
Decision(request, options) ==
  IF ~CheckPermissions(request.claims, options.requiredPermissions) THEN "deny"
  ELSE IF options.policies # Absent /\ ~IsValid(options.policies) THEN "throw"
  ELSE IF options.policies # Absent
          /\ ~ApplyPolicies(options.policies, request) THEN "deny"
  ELSE IF options.inputSchema # Absent
          /\ ~CheckSchema(request.input, options.inputSchema) THEN "deny"
  ELSE "allow"

(* validatabl() refuses to mount without a check.                          *)
Mounts(options) ==
  \/ options.requiredPermissions # {}
  \/ options.policies # Absent /\ options.policies.rules # <<>>
  \/ options.inputSchema # Absent
===============================================================================
