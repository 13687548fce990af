----------------------------- MODULE DcrWebhook -----------------------------
(***************************************************************************)
(* packages/explicabl/src/webhooks/auth0LogWebhook.ts: the log stream of   *)
(* Auth0 posts batches of events; for every client that registered, the    *)
(* handler promotes it, enables it on the Google connection and grants it  *)
(* the API, by one management call after another.  Handlers of several     *)
(* deliveries interleave at every call, any call may fail, the process may *)
(* die, and a batch may be delivered again.                                *)
(*                                                                         *)
(* Auth0 is external: what it keeps is modelled from the calls made to it. *)
(***************************************************************************)
EXTENDS Integers, Sequences, LogEvents

CONSTANTS
  Clients,        \* client ids
  None,           \* no client
  Unnamed,        \* a registration event in which no client id is found
  Other,          \* an event that is not about a registration
  Batches,        \* what a delivery may carry
  Settings,       \* which settings are present: "secret", "mgmt", "grants"
  Slots,          \* how many handlers may run at once
  MaxDeliveries,  \* bound on the deliveries handled
  MaxFaults       \* bound on the calls that fail

ASSUME WebhookAssumption ==
  /\ None \notin Clients /\ Unnamed \notin Clients
  /\ Batches \subseteq Seq(Clients \cup {Unnamed, Other})
  /\ Settings \subseteq SUBSET {"secret", "mgmt", "grants"}
  /\ MaxDeliveries \in Nat
  /\ MaxFaults \in Nat

VARIABLES
  settings,      \* the environment variables that are set
  registered,    \* Auth0: the clients that exist
  newest,        \* Auth0: the client findNewestChatGPTClientId() finds now
  promoted,      \* Auth0: the clients that are first-party web clients
  enabled,       \* Auth0: enabled_clients of the Google connection
  grants,        \* Auth0: the clients granted the audience
  handlers,      \* handlers[s]: the delivery handled in slot s, or None
  answer,        \* the last answer given
  deliveries,    \* counts deliveries, for MaxDeliveries
  faults,        \* counts failed calls, for MaxFaults
  acknowledged,  \* history: the clients of the deliveries answered 200
  overlapped     \* history: two handlers have been between reading and
                 \* writing the connection at the same time

auth0 == <<registered, newest, promoted, enabled, grants>>
history == <<acknowledged, overlapped>>
vars == <<settings, auth0, handlers, answer, deliveries, faults, history>>

(* Slips: the filter lets every event through; cid = alt is left out; the  *)
(* PATCH names this client alone; a failed grant is logged and passed over *)
(* (further down).                                                         *)
DcrEventsUnfiltered(batch) == batch

RetriedForgetsAlt(h) ==
  [h EXCEPT !.step = "read", !.owed = (@ \ {h.cid}) \cup {h.alt}]

WithClientAlone(h) == {h.cid}

(* The events of a batch that are handled, in their order.                 *)
DcrEvents(batch) == Registrations(batch, Other)

(* A handler about to fetch the management token; `owed` (history) is the  *)
(* clients its events have come to, `healthy` (history) that no call of    *)
(* its has failed and no client was unknown.                               *)
Handler(batch) ==
  [step    |-> "token",
   events  |-> DcrEvents(batch),
   cid     |-> None,
   alt     |-> None,
   read    |-> {},
   owed    |-> {},
   healthy |-> TRUE]

Unwell(h) == [h EXCEPT !.healthy = FALSE]

(* A client to promote: extractClientId's, or the fallback's.              *)
Promoting(h, c) ==
  [h EXCEPT !.step = "promote", !.cid = c, !.owed = @ \cup {c}]

(* The retry succeeded: cid = alt.                                         *)
Retried(h) ==
  [h EXCEPT !.step = "read", !.cid = h.alt, !.owed = (@ \ {h.cid}) \cup {h.alt}]

(* The enabled_clients of the PATCH.                                       *)
WithClient(h) == h.read \cup {h.cid}

-----------------------------------------------------------------------------
Init ==
  /\ settings \in Settings
  /\ registered = {}
  /\ newest = None
  /\ promoted = {}
  /\ enabled = {}
  /\ grants = {}
  /\ handlers = [s \in Slots |-> None]
  /\ answer = None
  /\ deliveries = 0
  /\ faults = 0
  /\ acknowledged = {}
  /\ overlapped = FALSE

(* Auth0: a client registers, and may be one that the fallback recognises; *)
(* five minutes later (or ten clients later) it no longer does.            *)
Register(c) ==
  /\ c \notin registered
  /\ registered' = registered \cup {c}
  /\ newest' \in {newest, c}
  /\ UNCHANGED <<settings, promoted, enabled, grants, handlers, answer,
                 deliveries, faults, history>>

Age ==
  /\ newest # None
  /\ newest' = None
  /\ UNCHANGED <<settings, registered, promoted, enabled, grants, handlers,
                 answer, deliveries, faults, history>>

Goto(s, h) ==
  /\ handlers' = [handlers EXCEPT ![s] = h]
  /\ UNCHANGED <<answer, acknowledged>>

Reply(s, status, h) ==
  /\ handlers' = [handlers EXCEPT ![s] = None]
  /\ answer' = [status |-> status, healthy |-> h.healthy]
  /\ acknowledged' = IF status = 200 THEN acknowledged \cup h.owed
                     ELSE acknowledged

(* The next turn of the loop over the events, up to the first call.        *)
NextEvent(s, h) ==
  IF h.events = <<>> THEN Reply(s, 200, h)
  ELSE LET rest == [h EXCEPT !.events = Tail(h.events)]
       IN  Goto(s, IF Head(h.events) = Unnamed
                   THEN [rest EXCEPT !.step = "lookup"]
                   ELSE Promoting(rest, Head(h.events)))

(* A call failed, and the catch clause answers.                            *)
Fail(s, h) == Reply(s, 500, h)

At(s, step) == handlers[s] # None /\ handlers[s].step = step

CallFails == faults < MaxFaults /\ faults' = faults + 1

CallWorks == UNCHANGED faults

-----------------------------------------------------------------------------
(* The gates in front of the handler's work, in their order.               *)
Refuse ==
  /\ \E status \in {200, 401, 429, 501, 503} :
       /\ answer' = [status |-> status, healthy |-> TRUE]
       /\ \/ status = 429
          \/ status = 503 /\ "secret" \notin settings
          \/ status = 401 /\ "secret" \in settings
          \/ status = 501 /\ "secret" \in settings /\ "mgmt" \notin settings
          \/ /\ status = 200 /\ {"secret", "mgmt"} \subseteq settings
             /\ \E batch \in Batches : DcrEvents(batch) = <<>>
  /\ UNCHANGED <<settings, auth0, handlers, deliveries, faults, history>>

Deliver(s, batch) ==
  /\ handlers[s] = None
  /\ deliveries < MaxDeliveries
  /\ {"secret", "mgmt"} \subseteq settings
  /\ DcrEvents(batch) # <<>>
  /\ handlers' = [handlers EXCEPT ![s] = Handler(batch)]
  /\ deliveries' = deliveries + 1
  /\ UNCHANGED <<settings, auth0, answer, faults, history>>

GetMgmtToken(s) ==
  /\ At(s, "token")
  /\ \/ CallWorks /\ NextEvent(s, handlers[s])
     \/ CallFails /\ Fail(s, Unwell(handlers[s]))
  /\ UNCHANGED <<settings, auth0, deliveries, overlapped>>

(* findNewestChatGPTClientId(): an answer that is not ok counts as no      *)
(* client, and an event without a client is skipped.                       *)
FindNewest(s) ==
  /\ At(s, "lookup")
  /\ LET h == handlers[s]
     IN  \/ CallWorks /\ newest # None /\ Goto(s, Promoting(h, newest))
         \/ CallWorks /\ newest = None /\ NextEvent(s, h)
         \/ CallFails /\ NextEvent(s, Unwell(h))
         \/ CallFails /\ Fail(s, Unwell(h))
  /\ UNCHANGED <<settings, auth0, deliveries, overlapped>>

(* A call that fails may have had its effect.                              *)
PromoteClient(s) ==
  /\ At(s, "promote")
  /\ LET h == handlers[s]
     IN  \/ /\ CallWorks /\ h.cid \in registered
            /\ promoted' = promoted \cup {h.cid}
            /\ Goto(s, [h EXCEPT !.step = "read"])
         \/ /\ CallWorks /\ h.cid \notin registered
            /\ Goto(s, [Unwell(h) EXCEPT !.step = "relookup"])
            /\ UNCHANGED promoted
         \/ /\ CallFails
            /\ promoted' \in {promoted, promoted \cup ({h.cid} \cap registered)}
            /\ Fail(s, Unwell(h))
  /\ UNCHANGED <<settings, registered, newest, enabled, grants, deliveries,
                 overlapped>>

(* The 404 fallback: another client, or the error is thrown again.         *)
FindAlternative(s) ==
  /\ At(s, "relookup")
  /\ LET h == handlers[s]
     IN  \/ /\ CallWorks /\ newest \notin {None, h.cid}
            /\ Goto(s, [h EXCEPT !.step = "repromote", !.alt = newest])
         \/ CallWorks /\ newest \in {None, h.cid} /\ Fail(s, h)
         \/ CallFails /\ Fail(s, h)
  /\ UNCHANGED <<settings, auth0, deliveries, overlapped>>

PromoteAlternative(s) ==
  /\ At(s, "repromote")
  /\ LET h == handlers[s]
     IN  \/ /\ CallWorks
            /\ promoted' = promoted \cup {h.alt}
            /\ Goto(s, Retried(h))
         \/ /\ CallFails
            /\ promoted' \in {promoted, promoted \cup {h.alt}}
            /\ Fail(s, h)
  /\ UNCHANGED <<settings, registered, newest, enabled, grants, deliveries,
                 overlapped>>

(* enableGoogleForClient(): read enabled_clients, then write it back.      *)
ReadConnection(s) ==
  /\ At(s, "read")
  /\ LET h == handlers[s]
     IN  \/ /\ CallWorks
            /\ Goto(s, [h EXCEPT !.step = "write", !.read = enabled])
            /\ overlapped' = IF \E t \in Slots : At(t, "write") THEN TRUE
                             ELSE overlapped
         \/ CallFails /\ Fail(s, Unwell(h)) /\ UNCHANGED overlapped
  /\ UNCHANGED <<settings, auth0, deliveries>>

PatchConnection(s) ==
  /\ At(s, "write")
  /\ LET h == handlers[s]
     IN  \/ /\ CallWorks
            /\ enabled' = WithClient(h)
            /\ IF "grants" \in settings THEN Goto(s, [h EXCEPT !.step = "grant"])
               ELSE NextEvent(s, h)
         \/ /\ CallFails
            /\ enabled' \in {enabled, WithClient(h)}
            /\ Fail(s, Unwell(h))
  /\ UNCHANGED <<settings, registered, newest, promoted, grants, deliveries,
                 overlapped>>

GrantFailedPassesOver(s, h) == NextEvent(s, h)

(* A grant that exists already is a conflict, an answer that is not ok.    *)
GrantFailed(s, h) == Fail(s, h)

EnsureClientGrant(s) ==
  /\ At(s, "grant")
  /\ LET h == handlers[s]
     IN  \/ /\ CallWorks /\ h.cid \notin grants
            /\ grants' = grants \cup {h.cid}
            /\ NextEvent(s, h)
         \/ CallWorks /\ h.cid \in grants /\ GrantFailed(s, h) /\ UNCHANGED grants
         \/ /\ CallFails
            /\ grants' \in {grants, grants \cup {h.cid}}
            /\ GrantFailed(s, Unwell(h))
  /\ UNCHANGED <<settings, registered, newest, promoted, enabled, deliveries,
                 overlapped>>

(* The process dies and is started again; it keeps nothing.                *)
Crash ==
  /\ \E s \in Slots : handlers[s] # None
  /\ handlers' = [s \in Slots |-> None]
  /\ UNCHANGED <<settings, auth0, answer, deliveries, faults, history>>

Step(s) ==
  \/ GetMgmtToken(s)
  \/ FindNewest(s)
  \/ PromoteClient(s)
  \/ FindAlternative(s)
  \/ PromoteAlternative(s)
  \/ ReadConnection(s)
  \/ PatchConnection(s)
  \/ EnsureClientGrant(s)

Next ==
  \/ \E c \in Clients : Register(c)
  \/ Age
  \/ Refuse
  \/ Crash
  \/ \E s \in Slots :
       \/ \E batch \in Batches : Deliver(s, batch)
       \/ Step(s)

Spec == Init /\ [][Next]_vars

-----------------------------------------------------------------------------
Handlers ==
  [step    : {"token", "lookup", "promote", "relookup", "repromote", "read",
              "write", "grant"},
   events  : Seq(Clients \cup {Unnamed}),
   cid     : Clients \cup {None},
   alt     : Clients \cup {None},
   read    : SUBSET Clients,
   owed    : SUBSET Clients,
   healthy : BOOLEAN]

(* The type of every variable; a handler past its event's client has one,  *)
(* and an alternative that is promoted is a client too.                    *)
TypeOK ==
  /\ settings \in Settings
  /\ registered \in SUBSET Clients
  /\ newest \in registered \cup {None}
  /\ promoted \in SUBSET Clients
  /\ enabled \in SUBSET Clients
  /\ grants \in SUBSET Clients
  /\ handlers \in [Slots -> Handlers \cup {None}]
  /\ answer \in [status : {200, 401, 429, 500, 501, 503}, healthy : BOOLEAN]
                \cup {None}
  /\ deliveries \in 0..MaxDeliveries
  /\ faults \in 0..MaxFaults
  /\ acknowledged \in SUBSET Clients
  /\ overlapped \in BOOLEAN

(* Whatever deliveries interleave, fail, crash or are repeated, a client   *)
(* is enabled on the connection or granted the API only after it was       *)
(* promoted, and only a client that exists is promoted.                    *)
OnlyPromotedClients ==
  /\ enabled \cup grants \subseteq promoted
  /\ promoted \subseteq registered

(* A delivery is answered 200 only when every client its events came to is *)
(* promoted and, where grants are configured, granted; the catch clause    *)
(* answers for everything else.                                            *)
AcknowledgedAreGranted ==
  /\ acknowledged \subseteq promoted
  /\ "grants" \in settings => acknowledged \subseteq grants

(* As long as no two handlers were between the read and the write of       *)
(* enabled_clients at once, every acknowledged client stays enabled.       *)
EnabledUnlessOverlapped == ~overlapped => acknowledged \subseteq enabled

(* What the comment "add clientId to enabled_clients (idempotent)" and the *)
(* guide's "Enables the desired connection(s)" promise of an acknowledged  *)
(* client with no such condition: the code's read and write lose updates.  *)
AcknowledgedAreEnabled == acknowledged \subseteq enabled

(* What the guide's "POST /api/v2/client-grants to ensure" promises of a   *)
(* batch that is delivered again: if no call fails and every client is     *)
(* known, the delivery is not answered 500.  The code throws on the        *)
(* conflict that an existing grant is.                                     *)
HealthyDeliverySucceeds ==
  answer # None => ~(answer.healthy /\ answer.status = 500)
=============================================================================
