------------------------------ MODULE Discovery ------------------------------
(***************************************************************************)
(* The well-known documents of packages/proxyabl/src, in router.ts and, in *)
(* a copy, in tool-gateway.ts: fetchJsonWithRetry() of oidc-helpers.ts     *)
(* tries three times to get a document of the identity provider.  The      *)
(* router answers for the protected resource while its tries go on, the    *)
(* gateway waits for them as every other handler does.                     *)
(*                                                                         *)
(* External: the identity provider and the clients.                        *)
(***************************************************************************)
EXTENDS Integers

CONSTANTS
  NoQuery,  \* no request in the slot
  Queries   \* request slots: how many may be served at once

Documents == {"routerResource", "gatewayResource", "openid", "server"}

VARIABLE queries  \* queries[q]: the request served in slot q, or NoQuery

-----------------------------------------------------------------------------
(* A request whose handler has come to its first fetch.                    *)
Query(document) ==
  [document |-> document, step |-> "headers", i |-> 0, timer |-> TRUE,
   status   |-> 0,   \* of the answer, 0 until there is one
   fetched  |-> 1,   \* history: how often fetch() was called
   failed   |-> 0]   \* history: how many of the tries have failed

Doing(q, step) == queries[q] # NoQuery /\ queries[q].step = step

Proceed(q, query) == queries' = [queries EXCEPT ![q] = query]

(* wkProtectedResourceHandler() of the router does not await the fetch.    *)
Answer(query, status) ==
  IF query.document = "routerResource" THEN query
  ELSE [query EXCEPT !.status = status]

Settled(query, status) == [Answer(query, status) EXCEPT !.step = "settled"]

(* Slips: the tries are counted from one; a try after the first has no     *)
(* timer.                                                                  *)
TryAgainOneLess(query) == query.i + 1 < 2

NextTryUntimed(query) ==
  [query EXCEPT !.step = "headers", !.i = @ + 1, !.timer = FALSE, !.fetched = @ + 1]

(* The loop's condition after i++.                                         *)
TryAgain(query) == query.i + 1 < 3

NextTry(query) ==
  [query EXCEPT !.step = "headers", !.i = @ + 1, !.timer = TRUE, !.fetched = @ + 1]

(* The catch clause pauses, also after the last try.  `finally` comes only *)
(* after the pause: a fetch that failed by itself leaves the timer armed.  *)
Caught(query) == [query EXCEPT !.step = "pause", !.failed = @ + 1]

-----------------------------------------------------------------------------
DiscoveryInit == queries = [q \in Queries |-> NoQuery]

QueryArrives(q) ==
  /\ queries[q] = NoQuery
  /\ \E document \in Documents :
       LET query == Query(document)
       IN  Proceed(q, IF document = "routerResource"
                      THEN [query EXCEPT !.status = 200] ELSE query)

(* Headers in time: the timer is cleared, and a bad status is a failure.   *)
DocumentHeaders(q) ==
  /\ Doing(q, "headers")
  /\ LET query == [queries[q] EXCEPT !.timer = FALSE]
     IN  \/ Proceed(q, [query EXCEPT !.step = "body"])
         \/ Proceed(q, Caught(query))

(* The fetch is rejected.                                                  *)
FetchFails(q) ==
  /\ Doing(q, "headers")
  /\ Proceed(q, Caught(queries[q]))

(* The timer aborts the fetch, or fires during the pause, at nothing.      *)
TryTimesOut(q) ==
  /\ queries[q] # NoQuery /\ queries[q].timer
  /\ LET query == [queries[q] EXCEPT !.timer = FALSE]
     IN  Proceed(q, IF query.step = "headers" THEN Caught(query) ELSE query)

(* The body is the document, or it breaks off or is no JSON.               *)
DocumentBody(q) ==
  /\ Doing(q, "body")
  /\ \/ Proceed(q, Settled(queries[q], 200))
     \/ Proceed(q, Caught(queries[q]))

PauseEnds(q) ==
  /\ Doing(q, "pause")
  /\ LET query == [queries[q] EXCEPT !.timer = FALSE]
     IN  Proceed(q, IF TryAgain(query) THEN NextTry(query)
                    ELSE Settled(query, 502))

QueryLeaves(q) ==
  /\ Doing(q, "settled")
  /\ Proceed(q, NoQuery)

DiscoveryNext ==
  \E q \in Queries :
    \/ QueryArrives(q) \/ DocumentHeaders(q) \/ FetchFails(q) \/ TryTimesOut(q)
    \/ DocumentBody(q) \/ PauseEnds(q) \/ QueryLeaves(q)

(* Timers fire; the identity provider owes nothing.                        *)
DiscoveryFairness ==
  \A q \in Queries : WF_queries(TryTimesOut(q)) /\ WF_queries(PauseEnds(q))

DiscoverySpec == DiscoveryInit /\ [][DiscoveryNext]_queries /\ DiscoveryFairness

-----------------------------------------------------------------------------
(* The shape of the state: a try that waits for headers has its timer, and *)
(* every failure has its pause or its next try.                            *)
DiscoveryTypeOK ==
  \A q \in Queries : queries[q] # NoQuery =>
    LET query == queries[q] IN
    /\ query.document \in Documents
    /\ query.step \in {"headers", "body", "pause", "settled"}
    /\ query.i \in 0..2
    /\ query.status \in {0, 200, 502}

(* The client is told that discovery failed only after three tries did, a  *)
(* try that succeeds is the last one, and nobody is asked a fourth time;   *)
(* every answer but the router's own about its resource waits for that     *)
(* (fetchJsonWithRetry(), whose tries count their failures and their       *)
(* fetches apart here).                                                    *)
GivesUpAfterThree ==
  \A q \in Queries : queries[q] # NoQuery =>
    LET query == queries[q] IN
    /\ query.fetched <= 3
    /\ query.status = 502 => query.failed = 3 /\ query.fetched = 3
    /\ query.step = "settled" => query.failed = 3 \/ query.fetched = query.failed + 1
    /\ query.step # "settled" =>
         query.status = (IF query.document = "routerResource" THEN 200 ELSE 0)

(* Every request is answered, or waits for a body: of the headers every    *)
(* try has its own timer, and the pauses end.                              *)
QueriesSettle ==
  \A q \in Queries :
    Doing(q, "headers") ~> (Doing(q, "settled") \/ Doing(q, "body"))
==============================================================================
