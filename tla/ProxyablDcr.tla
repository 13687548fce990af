----------------------------- MODULE ProxyablDcr -----------------------------
(***************************************************************************)
(* The two older copies of the log webhook, in router.ts and in            *)
(* tool-gateway.ts of packages/proxyabl/src: they promote a client and     *)
(* enable it, and know of no grants.  The copies are the same but for      *)
(* their gates, which a delivery passes in Gate.  A call and the reading   *)
(* of its body are two awaits here, where DcrWebhook has one step; the     *)
(* refinement at the end says that this makes no difference to Auth0.      *)
(*                                                                         *)
(* Auth0 is external.                                                      *)
(***************************************************************************)
EXTENDS Integers, Sequences, LogEvents

CONSTANTS
  Apps,         \* client ids
  NoApp,        \* no client, no handler in the slot
  Anonymous,    \* a registration event in which no client id is found
  Unrelated,    \* an event that is not about a registration
  Logs,         \* what a delivery may carry
  Lanes,        \* how many handlers may run at once
  MaxLogs,      \* bound on the deliveries handled
  MaxFailures   \* bound on the calls that fail

(* The steps of a handler, and the other names DcrWebhook has for them.    *)
LaneSteps ==
  {"token", "tokenBody", "list", "promote", "relist", "repromote",
   "connection", "connectionBody", "patch"}

OtherSteps == {"lookup", "relookup", "read", "write"}

(* Handlers at such steps.                                                 *)
LanesAt(steps) ==
  [step : steps, events : Seq(Apps \cup {Anonymous}),
   cid  : Apps \cup {NoApp}, alt : Apps \cup {NoApp},
   read : SUBSET Apps, owed : SUBSET Apps, healthy : BOOLEAN]

ASSUME ProxyablDcrAssumption ==
  /\ NoApp \notin Apps /\ Anonymous \notin Apps
  /\ NoApp \notin LanesAt(LaneSteps \cup OtherSteps)
  /\ Logs \subseteq Seq(Apps \cup {Anonymous, Unrelated})
  /\ MaxLogs \in Nat /\ MaxFailures \in Nat

VARIABLES
  managed,  \* the domain and the credentials of the management API are set
  tenant,   \* Auth0: the apps known, newest, promoted and enabled
  lanes,    \* lanes[l]: the delivery handled there, or NoApp
  replied,  \* the last answer given
  taken,    \* counts deliveries and failures, for their bounds
  told      \* history: the apps of the deliveries answered 200, and whether
            \* two handlers have been between read and write at once

dcrVars == <<managed, tenant, lanes, replied, taken, told>>

Tenant == [known |-> {}, newest |-> NoApp, promoted |-> {}, enabled |-> {}]

-----------------------------------------------------------------------------
(* The events of a log that are handled, in their order.                   *)
DcrEvents(log) == Registrations(log, Unrelated)

(* A handler about to ask for the management token; owed and healthy are   *)
(* history, as in DcrWebhook.                                              *)
Lane(log) ==
  [step |-> "token", events |-> DcrEvents(log), cid |-> NoApp,
   alt  |-> NoApp, read |-> {}, owed |-> {}, healthy |-> TRUE]

In(l, step) == lanes[l] # NoApp /\ lanes[l].step = step

Then(l, h) == lanes' = [lanes EXCEPT ![l] = h] /\ UNCHANGED <<replied, told>>

Respond(l, status, h) ==
  /\ lanes' = [lanes EXCEPT ![l] = NoApp]
  /\ replied' = [status |-> status, healthy |-> h.healthy]
  /\ told' = IF status = 200 THEN [told EXCEPT !.apps = @ \cup h.owed] ELSE told

(* A call throws; the catch clause around all of them answers.             *)
Throw(l, h) == Respond(l, 500, [h EXCEPT !.healthy = FALSE])

Fails == taken.failures < MaxFailures
           /\ taken' = [taken EXCEPT !.failures = @ + 1]

Works == UNCHANGED taken

Promote(h, app) ==
  [h EXCEPT !.step = "promote", !.cid = app, !.owed = @ \cup {app}]

(* The loop over the events, from its next turn.                           *)
Loop(l, h) ==
  IF h.events = <<>> THEN Respond(l, 200, h)
  ELSE LET rest == [h EXCEPT !.events = Tail(@)] IN
       Then(l, IF Head(h.events) = Anonymous THEN [rest EXCEPT !.step = "list"]
               ELSE Promote(rest, Head(h.events)))

(* Slip: the client that was not found is the one to be enabled.           *)
RetriedWithCid(h) ==
  [h EXCEPT !.step = "connection", !.owed = (@ \ {h.cid}) \cup {h.alt}]

(* The retry went through: cid = alt.                                      *)
Retry(h) ==
  [h EXCEPT !.step = "connection", !.cid = h.alt,
            !.owed = (@ \ {h.cid}) \cup {h.alt}]

-----------------------------------------------------------------------------
DcrInit ==
  /\ managed \in BOOLEAN
  /\ tenant = Tenant
  /\ lanes = [l \in Lanes |-> NoApp]
  /\ replied = NoApp
  /\ taken = [logs |-> 0, failures |-> 0]
  /\ told = [apps |-> {}, raced |-> FALSE]

(* Auth0: an app registers, and may be one the fallback looks for, until   *)
(* it is five minutes old.                                                 *)
RegisterApp(app) ==
  /\ app \notin tenant.known
  /\ \E newest \in {tenant.newest, app} :
       tenant' = [tenant EXCEPT !.known = @ \cup {app}, !.newest = newest]
  /\ UNCHANGED <<managed, lanes, replied, taken, told>>

AgeApp ==
  /\ tenant.newest # NoApp
  /\ tenant' = [tenant EXCEPT !.newest = NoApp]
  /\ UNCHANGED <<managed, lanes, replied, taken, told>>

(* What both copies answer before they start: the limiter, a secret that   *)
(* is not theirs (each always has one), no credentials, nothing to do.     *)
Gate ==
  /\ \E status \in {200, 401, 429, 501} :
       /\ status = 501 => ~managed
       /\ status = 200 => managed /\ \E log \in Logs : DcrEvents(log) = <<>>
       /\ replied' = [status |-> status, healthy |-> TRUE]
  /\ UNCHANGED <<managed, tenant, lanes, taken, told>>

Handle(l, log) ==
  /\ lanes[l] = NoApp /\ managed
  /\ DcrEvents(log) # <<>>
  /\ taken.logs < MaxLogs
  /\ taken' = [taken EXCEPT !.logs = @ + 1]
  /\ lanes' = [lanes EXCEPT ![l] = Lane(log)]
  /\ UNCHANGED <<managed, tenant, replied, told>>

(* getMgmtToken(): the status, then the body.                              *)
TokenStatus(l) ==
  /\ In(l, "token")
  /\ \/ Works /\ Then(l, [lanes[l] EXCEPT !.step = "tokenBody"])
     \/ Fails /\ Throw(l, lanes[l])
  /\ UNCHANGED <<managed, tenant>>

TokenBody(l) ==
  /\ In(l, "tokenBody")
  /\ \/ Works /\ Loop(l, lanes[l])
     \/ Fails /\ Throw(l, lanes[l])
  /\ UNCHANGED <<managed, tenant>>

(* findNewestChatGPTClientId(), for an event without a client: a status    *)
(* that is not ok is no client, a body that does not parse throws.         *)
ListClients(l) ==
  /\ In(l, "list")
  /\ LET h == lanes[l] IN
     \/ Works /\ tenant.newest # NoApp /\ Then(l, Promote(h, tenant.newest))
     \/ Works /\ tenant.newest = NoApp /\ Loop(l, h)
     \/ Fails /\ Loop(l, [h EXCEPT !.healthy = FALSE])
     \/ Fails /\ Throw(l, h)
  /\ UNCHANGED <<managed, tenant>>

(* promoteClient(); a PATCH that fails may have had its effect.            *)
PatchClient(l) ==
  /\ In(l, "promote")
  /\ LET h == lanes[l]
         patched == [tenant EXCEPT !.promoted = @ \cup ({h.cid} \cap tenant.known)]
     IN \/ Works /\ h.cid \in tenant.known /\ tenant' = patched
             /\ Then(l, [h EXCEPT !.step = "connection"])
        \/ Works /\ h.cid \notin tenant.known /\ UNCHANGED tenant
             /\ Then(l, [h EXCEPT !.step = "relist", !.healthy = FALSE])
        \/ Fails /\ tenant' \in {tenant, patched} /\ Throw(l, h)
  /\ UNCHANGED managed

(* After a 404: another client, or the error again.                        *)
ListAgain(l) ==
  /\ In(l, "relist")
  /\ LET h == lanes[l] IN
     \/ Works /\ tenant.newest \notin {NoApp, h.cid}
          /\ Then(l, [h EXCEPT !.step = "repromote", !.alt = tenant.newest])
     \/ Works /\ tenant.newest \in {NoApp, h.cid} /\ Throw(l, h)
     \/ Fails /\ Throw(l, h)
  /\ UNCHANGED <<managed, tenant>>

PatchAlternative(l) ==
  /\ In(l, "repromote")
  /\ LET h == lanes[l]
         patched == [tenant EXCEPT !.promoted = @ \cup {h.alt}]
     IN \/ Works /\ tenant' = patched /\ Then(l, Retry(h))
        \/ Fails /\ tenant' \in {tenant, patched} /\ Throw(l, h)
  /\ UNCHANGED managed

(* enableGoogleForClient(): what Auth0 reads for the first call ...        *)
ConnectionStatus(l) ==
  /\ In(l, "connection")
  /\ \/ /\ Works
        /\ lanes' = [lanes EXCEPT ![l] = [@ EXCEPT !.step = "connectionBody",
                                                   !.read = tenant.enabled]]
        /\ told' = [told EXCEPT !.raced =
             \/ @
             \/ \E k \in Lanes : In(k, "connectionBody") \/ In(k, "patch")]
        /\ UNCHANGED replied
     \/ Fails /\ Throw(l, lanes[l])
  /\ UNCHANGED <<managed, tenant>>

(* ... the handler has after another await, and only then writes back.     *)
ConnectionBody(l) ==
  /\ In(l, "connectionBody")
  /\ \/ Works /\ Then(l, [lanes[l] EXCEPT !.step = "patch"])
     \/ Fails /\ Throw(l, lanes[l])
  /\ UNCHANGED <<managed, tenant>>

PatchEnabled(l) ==
  /\ In(l, "patch")
  /\ LET h == lanes[l]
         patched == [tenant EXCEPT !.enabled = h.read \cup {h.cid}]
     IN \/ Works /\ tenant' = patched /\ Loop(l, h)
        \/ Fails /\ tenant' \in {tenant, patched} /\ Throw(l, h)
  /\ UNCHANGED managed

(* The process dies and is started again; it keeps nothing.                *)
DcrCrash ==
  /\ \E l \in Lanes : lanes[l] # NoApp
  /\ lanes' = [l \in Lanes |-> NoApp]
  /\ UNCHANGED <<managed, tenant, replied, taken, told>>

DcrNext ==
  \/ \E app \in Apps : RegisterApp(app)
  \/ AgeApp \/ Gate \/ DcrCrash
  \/ \E l \in Lanes :
       \/ \E log \in Logs : Handle(l, log)
       \/ TokenStatus(l) \/ TokenBody(l) \/ ListClients(l) \/ PatchClient(l)
       \/ ListAgain(l) \/ PatchAlternative(l)
       \/ ConnectionStatus(l) \/ ConnectionBody(l) \/ PatchEnabled(l)

DcrSpec == DcrInit /\ [][DcrNext]_dcrVars

(* The type of every variable.                                             *)
DcrTypeOK ==
  /\ managed \in BOOLEAN
  /\ tenant \in [known : SUBSET Apps, newest : Apps \cup {NoApp},
                 promoted : SUBSET Apps, enabled : SUBSET Apps]
  /\ lanes \in [Lanes -> LanesAt(LaneSteps) \cup {NoApp}]
  /\ replied \in [status : {200, 401, 429, 500, 501}, healthy : BOOLEAN]
                 \cup {NoApp}
  /\ taken \in [logs : 0..MaxLogs, failures : 0..MaxFailures]
  /\ told \in [apps : SUBSET Apps, raced : BOOLEAN]

-----------------------------------------------------------------------------
(* The step of the webhook of explicabl that a handler is in.              *)
AbstractStep ==
  [token |-> "token", tokenBody |-> "token", list |-> "lookup",
   promote |-> "promote", relist |-> "relookup", repromote |-> "repromote",
   connection |-> "read", connectionBody |-> "write", patch |-> "write"]

Explicabl == INSTANCE DcrWebhook WITH
  Clients <- Apps, None <- NoApp, Unnamed <- Anonymous, Other <- Unrelated,
  Batches <- Logs, Settings <- {{"secret", "mgmt"}, {"secret"}}, Slots <- Lanes,
  MaxDeliveries <- MaxLogs, MaxFaults <- MaxFailures,
  settings <- IF managed THEN {"secret", "mgmt"} ELSE {"secret"},
  registered <- tenant.known, newest <- tenant.newest,
  promoted <- tenant.promoted, enabled <- tenant.enabled, grants <- {},
  handlers <- [l \in Lanes |->
                 IF lanes[l] = NoApp THEN NoApp
                 ELSE [lanes[l] EXCEPT !.step = AbstractStep[@]]],
  answer <- replied, deliveries <- taken.logs, faults <- taken.failures,
  acknowledged <- told.apps, overlapped <- told.raced

(* Both copies are the webhook of packages/explicabl without the setting   *)
(* for grants: every step of theirs, with a status and a body to wait for  *)
(* where that one has a call, is a step of it or none, so that what is     *)
(* shown of it holds of the copies, its lost updates included.             *)
ImplementsExplicabl == Explicabl!Spec
==============================================================================
