------------------------------ MODULE LimitKeys ------------------------------
(***************************************************************************)
(* LimitKey and the one key every tracker of limitabl-core files its       *)
(* state under.                                                            *)
(***************************************************************************)
CONSTANTS
  Callers,      \* the LimitKey records [tenantId, sub, orgId, ip] in use
  None          \* an absent field; also an absent Map entry, reply or timer

(***************************************************************************)
(* resolveKey: sub, else orgId, else ip, else "anonymous", all behind the  *)
(* tenant.  Fields are tested for truthiness, so None stands for "" too.   *)
(***************************************************************************)
ResolveKey(c) ==
  <<c.tenantId,
    IF c.sub # None THEN <<"u", c.sub>>
    ELSE IF c.orgId # None THEN <<"o", c.orgId>>
    ELSE IF c.ip # None THEN <<"ip", c.ip>>
    ELSE <<"anonymous">> >>

Keys == {ResolveKey(c) : c \in Callers}
==============================================================================
