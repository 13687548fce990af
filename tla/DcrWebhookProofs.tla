-------------------------- MODULE DcrWebhookProofs --------------------------
(***************************************************************************)
(* Proofs about DcrWebhook, for any set of clients, batches, slots, number *)
(* of deliveries and of failed calls.                                      *)
(*                                                                         *)
(* The inductive invariant says of every handler what the code at its step *)
(* relies on: past the promotion its client is promoted; what it read of   *)
(* the connection is promoted too; and the clients of the events it is     *)
(* through with have been given everything.  As long as no two handlers    *)
(* have overlapped, at most one is between the read and the write, and     *)
(* what it read is what the connection holds.                              *)
(***************************************************************************)
EXTENDS DcrWebhook, FoldFacts

Auth0OK ==
  /\ registered \subseteq Clients
  /\ newest \in registered \cup {None}
  /\ OnlyPromotedClients

(* A handler is a record of these fields, whatever the events are.         *)
Shaped(h) ==
  h = [step |-> h.step, events |-> h.events, cid |-> h.cid, alt |-> h.alt,
       read |-> h.read, owed |-> h.owed, healthy |-> h.healthy]

(* Clients given all that a delivery owes them.                            *)
Served(clients) ==
  /\ clients \subseteq promoted
  /\ "grants" \in settings => clients \subseteq grants
  /\ ~overlapped => clients \subseteq enabled

(* The handler has come to a client and is not through with it.            *)
Busy(h) ==
  h.step \in {"promote", "relookup", "repromote", "read", "write", "grant"}

Sound(h) ==
  /\ Shaped(h)
  /\ h.step \in {"read", "write", "grant"} => h.cid \in promoted
  /\ h.step = "repromote" => h.alt \in registered
  /\ h.step = "write" => h.read \subseteq promoted
  /\ h.step = "grant" /\ ~overlapped => h.cid \in enabled
  /\ Served(IF Busy(h) THEN h.owed \ {h.cid} ELSE h.owed)

HandlersOK ==
  /\ handlers = [s \in Slots |-> handlers[s]]
  /\ \A s \in Slots : handlers[s] # None => Sound(handlers[s])

SoleWriter ==
  ~overlapped =>
    \A s \in Slots : At(s, "write") =>
      /\ handlers[s].read = enabled
      /\ \A t \in Slots : At(t, "write") => t = s

IInv == Auth0OK /\ HandlersOK /\ SoleWriter /\ Served(acknowledged)

-----------------------------------------------------------------------------
(* Of what a step does to Auth0 as the handlers see it: nothing is taken   *)
(* back, a client disabled by an overlapping write excepted.               *)
Grows ==
  /\ registered \subseteq registered'
  /\ promoted \subseteq promoted'
  /\ grants \subseteq grants'
  /\ overlapped => overlapped'
  /\ ~overlapped' => enabled \subseteq enabled'
  /\ settings' = settings

(* A step concerns the handler of one slot.                                *)
OnlySlot(s) ==
  /\ handlers' = [t \in Slots |-> handlers'[t]]
  /\ \A t \in Slots \ {s} : handlers'[t] = handlers[t]

(* What is served stays served.                                            *)
LEMMA ServedGrows ==
  ASSUME NEW clients, Served(clients), Grows
  PROVE  Served(clients)'
BY DEF Served, Grows

(* A handler another handler's step leaves alone stays sound.              *)
LEMMA SoundGrows ==
  ASSUME NEW h, Sound(h), Grows
  PROVE  Sound(h)'
<1> DEFINE W == IF Busy(h) THEN h.owed \ {h.cid} ELSE h.owed
<1>1. PICK w : w = W
  OBVIOUS
<1>2. Served(w)
  BY <1>1 DEF Sound
<1>3. Served(w)'
  BY <1>2, ServedGrows
<1>4. Busy(h)' = Busy(h)
  BY DEF Busy
<1> QED
  BY <1>1, <1>3, <1>4 DEF Sound, Shaped, Busy, Grows

(* If the handler of the slot concerned is sound, all are.                 *)
LEMMA HandlersKeep ==
  ASSUME NEW s \in Slots, HandlersOK, Grows, OnlySlot(s),
         handlers'[s] # None => Sound(handlers[s])'
  PROVE  HandlersOK'
<1> SUFFICES ASSUME NEW t \in Slots, handlers'[t] # None, t # s
             PROVE  Sound(handlers[t])'
  BY DEF HandlersOK, OnlySlot
<1>1. PICK h : h = handlers[t]
  OBVIOUS
<1>2. handlers'[t] = h
  BY <1>1 DEF OnlySlot
<1>3. Sound(h)'
  BY <1>1, <1>2, SoundGrows DEF HandlersOK
<1> QED
  BY <1>2, <1>3

(* A step after which its handler is not between the read and the write    *)
(* leaves the sole writer alone.                                           *)
LEMMA WriterKeeps ==
  ASSUME NEW s \in Slots, SoleWriter, OnlySlot(s), overlapped' = overlapped,
         handlers'[s] # None => handlers'[s].step # "write",
         enabled' = enabled \/ At(s, "write")
  PROVE  SoleWriter'
BY DEF SoleWriter, OnlySlot, At

(* What the updates of a handler's record leave.                           *)
LEMMA UnwellShape ==
  ASSUME NEW h, Shaped(h)
  PROVE  /\ Shaped(Unwell(h))
         /\ Unwell(h).step = h.step /\ Unwell(h).cid = h.cid
         /\ Unwell(h).alt = h.alt /\ Unwell(h).owed = h.owed
         /\ Unwell(h).read = h.read
<1>1. PICK u : u = Unwell(h)
  OBVIOUS
<1>2. u = [step |-> h.step, events |-> h.events, cid |-> h.cid, alt |-> h.alt,
           read |-> h.read, owed |-> h.owed, healthy |-> FALSE]
  BY <1>1 DEF Shaped, Unwell
<1>3. Shaped(u) /\ u.step = h.step /\ u.cid = h.cid /\ u.alt = h.alt
        /\ u.owed = h.owed /\ u.read = h.read
  BY <1>2 DEF Shaped
<1> QED
  BY <1>1, <1>3

LEMMA StepShape ==
  ASSUME NEW h, Shaped(h), NEW st, NEW g, g = [h EXCEPT !.step = st]
  PROVE  /\ Shaped(g)
         /\ g.step = st /\ g.cid = h.cid /\ g.owed = h.owed
<1>1. g = [step |-> st, events |-> h.events, cid |-> h.cid, alt |-> h.alt,
           read |-> h.read, owed |-> h.owed, healthy |-> h.healthy]
  BY DEF Shaped
<1> QED
  BY <1>1 DEF Shaped

LEMMA PromotingShape ==
  ASSUME NEW h, Shaped(h), NEW c
  PROVE  /\ Shaped(Promoting(h, c))
         /\ Promoting(h, c).step = "promote" /\ Promoting(h, c).cid = c
         /\ Promoting(h, c).owed = h.owed \cup {c}
<1>1. PICK o : o = h.owed \cup {c}
  OBVIOUS
<1>2. PICK g : g = Promoting(h, c)
  OBVIOUS
<1>3. g = [h EXCEPT !.step = "promote", !.cid = c, !.owed = o]
  BY <1>1, <1>2 DEF Promoting
<1>4. g = [step |-> "promote", events |-> h.events, cid |-> c, alt |-> h.alt,
           read |-> h.read, owed |-> o, healthy |-> h.healthy]
  BY <1>3 DEF Shaped
<1>5. Shaped(g) /\ g.step = "promote" /\ g.cid = c /\ g.owed = o
  BY <1>4 DEF Shaped
<1> QED
  BY <1>1, <1>2, <1>5

(* The next turn of the loop leaves the slot empty or with a sound handler *)
(* that is not writing, and acknowledges only clients that are served.     *)
LEMMA NextEventSound ==
  ASSUME NEW s \in Slots, NEW h, NextEvent(s, h), Shaped(h), Served(h.owed)',
         Served(acknowledged), Grows, handlers = [t \in Slots |-> handlers[t]]
  PROVE  /\ OnlySlot(s)
         /\ handlers'[s] # None =>
              Sound(handlers[s])' /\ handlers'[s].step # "write"
         /\ Served(acknowledged)'
<1>1. Served(acknowledged)
  OBVIOUS
<1>2. PICK a : a = acknowledged
  OBVIOUS
<1>3. Served(a)'
  BY <1>1, <1>2, ServedGrows
<1>4. CASE h.events = <<>>
  <2>1. /\ handlers' = [handlers EXCEPT ![s] = None]
        /\ acknowledged' = acknowledged \cup h.owed
    BY <1>4 DEF NextEvent, Reply
  <2> QED
    BY <2>1, <1>2, <1>3 DEF Served, OnlySlot
<1>5. CASE h.events # <<>>
  <2>1. acknowledged' = acknowledged
    BY <1>5 DEF NextEvent, Goto
  <2>2. PICK e, q : e = Head(h.events) /\ q = [h EXCEPT !.events = Tail(h.events)]
    OBVIOUS
  <2>3. Goto(s, IF e = Unnamed THEN [q EXCEPT !.step = "lookup"]
                ELSE Promoting(q, e))
    BY <1>5, <2>2 DEF NextEvent
  <2>4. PICK rest : q = [step |-> h.step, events |-> rest, cid |-> h.cid,
                         alt |-> h.alt, read |-> h.read, owed |-> h.owed,
                         healthy |-> h.healthy]
    <3>1. PICK rest : rest = Tail(h.events)
      OBVIOUS
    <3> QED
      BY <3>1, <2>2 DEF Shaped
  <2>5. \A g : /\ handlers' = [handlers EXCEPT ![s] = g]
               /\ Sound(g)' /\ g.step # "write"
               => OnlySlot(s) /\ Sound(handlers[s])' /\ handlers'[s].step # "write"
    BY DEF OnlySlot
  <2>6. Served(acknowledged)'
    BY <2>1, <1>2, <1>3
  <2>7. CASE e = Unnamed
    <3>1. PICK g : g = [step |-> "lookup", events |-> rest, cid |-> h.cid,
                        alt |-> h.alt, read |-> h.read, owed |-> h.owed,
                        healthy |-> h.healthy]
      OBVIOUS
    <3>2. [q EXCEPT !.step = "lookup"] = g
      BY <3>1, <2>4
    <3>3. handlers' = [handlers EXCEPT ![s] = g]
      BY <3>2, <2>3, <2>7 DEF Goto
    <3>4. Shaped(g) /\ ~Busy(g) /\ g.step = "lookup" /\ g.owed = h.owed
      BY <3>1 DEF Shaped, Busy
    <3>5. Sound(g)'
      BY <3>4 DEF Sound, Shaped, Busy, Served
    <3> QED
      BY <3>3, <3>4, <3>5, <2>5, <2>6
  <2>8. CASE e # Unnamed
    <3>1. Shaped(q) /\ q.owed = h.owed
      BY <2>4 DEF Shaped
    <3>2. PICK g : g = Promoting(q, e)
      OBVIOUS
    <3>3. handlers' = [handlers EXCEPT ![s] = g]
      BY <3>2, <2>3, <2>8 DEF Goto
    <3>4. /\ Shaped(g) /\ Busy(g) /\ g.step = "promote"
          /\ g.owed \ {g.cid} \subseteq h.owed
      BY <3>1, <3>2, PromotingShape DEF Busy
    <3>5. Sound(g)'
      BY <3>4 DEF Sound, Shaped, Busy, Served
    <3> QED
      BY <3>3, <3>4, <3>5, <2>5, <2>6
  <2> QED
    BY <2>7, <2>8
<1> QED
  BY <1>4, <1>5

-----------------------------------------------------------------------------
(* What every step of a handler but ReadConnection does to the rest.       *)
Calm(s) ==
  /\ Grows
  /\ Auth0OK'
  /\ overlapped' = overlapped
  /\ enabled' = enabled \/ At(s, "write")

(* The three ways in which a step ends keep the invariant.                 *)
LEMMA GotoKeeps ==
  ASSUME NEW s \in Slots, NEW g, IInv, Calm(s), Goto(s, g), Sound(g)',
         g.step # "write"
  PROVE  IInv'
<1>1. OnlySlot(s) /\ handlers'[s] = g
  BY DEF Goto, OnlySlot, IInv, HandlersOK
<1>2. Sound(handlers[s])'
  BY <1>1
<1>3. PICK a : a = acknowledged
  OBVIOUS
<1>4. acknowledged' = a
  BY <1>3 DEF Goto
<1>5. Served(a)'
  BY <1>3, ServedGrows DEF IInv, Calm
<1>6. HandlersOK'
  BY <1>1, <1>2, HandlersKeep DEF IInv, Calm
<1>7. SoleWriter'
  BY <1>1, WriterKeeps DEF IInv, Calm
<1> QED
  BY <1>4, <1>5, <1>6, <1>7 DEF IInv, Calm

LEMMA FailKeeps ==
  ASSUME NEW s \in Slots, NEW h, IInv, Calm(s), Fail(s, h)
  PROVE  IInv'
<1>1. OnlySlot(s) /\ handlers'[s] = None
  BY DEF Fail, Reply, OnlySlot, IInv, HandlersOK
<1>2. PICK a : a = acknowledged
  OBVIOUS
<1>3. acknowledged' = a
  BY <1>2 DEF Fail, Reply
<1>4. Served(a)'
  BY <1>2, ServedGrows DEF IInv, Calm
<1>5. HandlersOK'
  BY <1>1, HandlersKeep DEF IInv, Calm
<1>6. SoleWriter'
  BY <1>1, WriterKeeps DEF IInv, Calm
<1> QED
  BY <1>3, <1>4, <1>5, <1>6 DEF IInv, Calm

LEMMA NextEventKeeps ==
  ASSUME NEW s \in Slots, NEW h, IInv, Calm(s), NextEvent(s, h), Shaped(h),
         Served(h.owed)'
  PROVE  IInv'
<1>1. /\ OnlySlot(s)
      /\ handlers'[s] # None =>
           Sound(handlers[s])' /\ handlers'[s].step # "write"
      /\ Served(acknowledged)'
  BY NextEventSound DEF IInv, Calm, HandlersOK
<1>2. HandlersOK'
  BY <1>1, HandlersKeep DEF IInv, Calm
<1>3. SoleWriter'
  BY <1>1, WriterKeeps DEF IInv, Calm
<1> QED
  BY <1>1, <1>2, <1>3 DEF IInv, Calm

(* Where nothing of Auth0 changes.                                         *)
LEMMA CalmUnchanged ==
  ASSUME NEW s \in Slots, IInv, UNCHANGED <<settings, auth0, overlapped>>
  PROVE  Calm(s)
BY DEF IInv, Calm, Grows, Auth0OK, OnlyPromotedClients, auth0

-----------------------------------------------------------------------------
LEMMA TokenStep ==
  ASSUME NEW s \in Slots, IInv, GetMgmtToken(s)
  PROVE  IInv'
<1>1. PICK h : h = handlers[s]
  OBVIOUS
<1>2. Calm(s)
  BY CalmUnchanged DEF GetMgmtToken
<1>3. Sound(h) /\ h.step = "token"
  BY <1>1 DEF GetMgmtToken, At, IInv, HandlersOK
<1>4. CASE NextEvent(s, h)
  <2>1. Shaped(h) /\ Served(h.owed)
    BY <1>3 DEF Sound, Busy
  <2>2. PICK o : o = h.owed
    OBVIOUS
  <2>3. Served(o)'
    BY <2>1, <2>2, <1>2, ServedGrows DEF Calm
  <2> QED
    BY <1>2, <1>4, <2>1, <2>2, <2>3, NextEventKeeps
<1>5. CASE Fail(s, Unwell(h))
  BY <1>2, <1>5, FailKeeps
<1> QED
  BY <1>1, <1>4, <1>5 DEF GetMgmtToken

LEMMA LookupStep ==
  ASSUME NEW s \in Slots, IInv, FindNewest(s)
  PROVE  IInv'
<1>1. PICK h : h = handlers[s]
  OBVIOUS
<1>2. Calm(s)
  BY CalmUnchanged DEF FindNewest
<1>3. Sound(h) /\ h.step = "lookup"
  BY <1>1 DEF FindNewest, At, IInv, HandlersOK
<1>4. Shaped(h) /\ Served(h.owed)
  BY <1>3 DEF Sound, Busy
<1>5. PICK o : o = h.owed
  OBVIOUS
<1>6. Served(o)'
  BY <1>4, <1>5, <1>2, ServedGrows DEF Calm
<1>7. CASE Goto(s, Promoting(h, newest))
  <2>1. PICK g : g = Promoting(h, newest)
    OBVIOUS
  <2>2. /\ Shaped(g) /\ Busy(g) /\ g.step = "promote"
        /\ g.owed \ {g.cid} \subseteq h.owed
    BY <1>4, <2>1, PromotingShape DEF Busy
  <2>3. Sound(g)'
    BY <1>5, <1>6, <2>2 DEF Sound, Shaped, Busy, Served
  <2> QED
    BY <1>2, <1>7, <2>1, <2>2, <2>3, GotoKeeps
<1>8. CASE NextEvent(s, h)
  BY <1>2, <1>4, <1>5, <1>6, <1>8, NextEventKeeps
<1>9. CASE NextEvent(s, Unwell(h))
  <2>1. Shaped(Unwell(h)) /\ Unwell(h).owed = o
    BY <1>4, <1>5, UnwellShape
  <2>2. PICK u : u = Unwell(h)
    OBVIOUS
  <2>3. Shaped(u) /\ u.owed = o
    BY <2>1, <2>2
  <2> QED
    BY <1>2, <1>6, <1>9, <2>2, <2>3, NextEventKeeps
<1>10. CASE Fail(s, Unwell(h))
  BY <1>2, <1>10, FailKeeps
<1> QED
  BY <1>1, <1>7, <1>8, <1>9, <1>10 DEF FindNewest

LEMMA PromoteStep ==
  ASSUME NEW s \in Slots, IInv, PromoteClient(s)
  PROVE  IInv'
<1>1. PICK h : h = handlers[s]
  OBVIOUS
<1>2. Calm(s)
  BY DEF PromoteClient, IInv, Calm, Grows, Auth0OK, OnlyPromotedClients
<1>3. Sound(h) /\ h.step = "promote"
  BY <1>1 DEF PromoteClient, At, IInv, HandlersOK
<1>4. PICK o : o = h.owed \ {h.cid}
  OBVIOUS
<1>5. Shaped(h) /\ Served(o)
  BY <1>3, <1>4 DEF Sound, Busy
<1>6. Served(o)'
  BY <1>5, <1>2, ServedGrows DEF Calm
<1>7. CASE h.cid \in promoted' /\ Goto(s, [h EXCEPT !.step = "read"])
  <2>1. PICK g : g = [h EXCEPT !.step = "read"]
    OBVIOUS
  <2>2. Shaped(g) /\ g.step = "read" /\ g.cid = h.cid /\ g.owed = h.owed
    BY <1>5, <2>1, StepShape
  <2>3. Sound(g)'
    BY <1>4, <1>6, <1>7, <2>2 DEF Sound, Shaped, Busy
  <2> QED
    BY <1>2, <1>7, <2>1, <2>2, <2>3, GotoKeeps
<1>8. CASE Goto(s, [Unwell(h) EXCEPT !.step = "relookup"])
  <2>1. PICK u, g : u = Unwell(h) /\ g = [u EXCEPT !.step = "relookup"]
    OBVIOUS
  <2>2. Shaped(u) /\ u.cid = h.cid /\ u.owed = h.owed
    BY <1>5, <2>1, UnwellShape
  <2>3. Shaped(g) /\ g.step = "relookup" /\ g.cid = u.cid /\ g.owed = u.owed
    BY <2>1, <2>2, StepShape
  <2>4. Sound(g)'
    BY <1>4, <1>6, <2>2, <2>3 DEF Sound, Shaped, Busy
  <2> QED
    BY <1>2, <1>8, <2>1, <2>3, <2>4, GotoKeeps
<1>9. CASE Fail(s, Unwell(h))
  BY <1>2, <1>9, FailKeeps
<1> QED
  BY <1>1, <1>7, <1>8, <1>9 DEF PromoteClient

LEMMA AlternativeStep ==
  ASSUME NEW s \in Slots, IInv, FindAlternative(s)
  PROVE  IInv'
<1>1. PICK h : h = handlers[s]
  OBVIOUS
<1>2. Calm(s)
  BY CalmUnchanged DEF FindAlternative
<1>3. Sound(h) /\ h.step = "relookup"
  BY <1>1 DEF FindAlternative, At, IInv, HandlersOK
<1>4. PICK o : o = h.owed \ {h.cid}
  OBVIOUS
<1>5. Shaped(h) /\ Served(o)
  BY <1>3, <1>4 DEF Sound, Busy
<1>6. Served(o)'
  BY <1>5, <1>2, ServedGrows DEF Calm
<1>7. CASE /\ newest \notin {None, h.cid}
           /\ Goto(s, [h EXCEPT !.step = "repromote", !.alt = newest])
  <2>1. PICK g : g = [h EXCEPT !.step = "repromote", !.alt = newest]
    OBVIOUS
  <2>2. g = [step |-> "repromote", events |-> h.events, cid |-> h.cid,
             alt |-> newest, read |-> h.read, owed |-> h.owed,
             healthy |-> h.healthy]
    BY <1>5, <2>1 DEF Shaped
  <2>3. /\ Shaped(g) /\ g.step = "repromote" /\ g.cid = h.cid
        /\ g.owed = h.owed /\ g.alt = newest
    BY <2>2 DEF Shaped
  <2>4. g.alt \in registered'
    BY <1>7, <2>3 DEF FindAlternative, auth0, IInv, Auth0OK
  <2>5. Sound(g)'
    BY <1>4, <1>6, <2>3, <2>4 DEF Sound, Shaped, Busy
  <2> QED
    BY <1>2, <1>7, <2>1, <2>3, <2>5, GotoKeeps
<1>8. CASE Fail(s, h)
  BY <1>2, <1>8, FailKeeps
<1> QED
  BY <1>1, <1>7, <1>8 DEF FindAlternative

LEMMA RepromoteStep ==
  ASSUME NEW s \in Slots, IInv, PromoteAlternative(s)
  PROVE  IInv'
<1>1. PICK h : h = handlers[s]
  OBVIOUS
<1>2. Sound(h) /\ h.step = "repromote" /\ h.alt \in registered
  BY <1>1 DEF PromoteAlternative, At, IInv, HandlersOK, Sound
<1>3. Calm(s)
  BY <1>1, <1>2 DEF PromoteAlternative, IInv, Calm, Grows, Auth0OK,
                    OnlyPromotedClients
<1>4. PICK o : o = h.owed \ {h.cid}
  OBVIOUS
<1>5. Shaped(h) /\ Served(o)
  BY <1>2, <1>4 DEF Sound, Busy
<1>6. Served(o)'
  BY <1>5, <1>3, ServedGrows DEF Calm
<1>7. CASE promoted' = promoted \cup {h.alt} /\ Goto(s, Retried(h))
  <2>1. PICK g, w : g = Retried(h) /\ w = (h.owed \ {h.cid}) \cup {h.alt}
    OBVIOUS
  <2>2. g = [h EXCEPT !.step = "read", !.cid = h.alt, !.owed = w]
    BY <2>1 DEF Retried
  <2>3. g = [step |-> "read", events |-> h.events, cid |-> h.alt,
             alt |-> h.alt, read |-> h.read, owed |-> w,
             healthy |-> h.healthy]
    BY <1>5, <2>2 DEF Shaped
  <2>4. Shaped(g) /\ g.step = "read" /\ g.cid = h.alt /\ g.owed = w
    BY <2>3 DEF Shaped
  <2>5. g.cid \in promoted' /\ g.owed \ {g.cid} \subseteq o
    BY <1>4, <1>7, <2>1, <2>4
  <2>6. Sound(g)'
    BY <1>6, <2>4, <2>5 DEF Sound, Shaped, Busy, Served
  <2> QED
    BY <1>3, <1>7, <2>1, <2>4, <2>6, GotoKeeps
<1>8. CASE Fail(s, h)
  BY <1>3, <1>8, FailKeeps
<1> QED
  BY <1>1, <1>7, <1>8 DEF PromoteAlternative

(* The one step that opens the window: if another handler is in it, the    *)
(* two have overlapped.                                                    *)
LEMMA ReadStep ==
  ASSUME NEW s \in Slots, IInv, ReadConnection(s)
  PROVE  IInv'
<1>1. PICK h : h = handlers[s]
  OBVIOUS
<1>2. Sound(h) /\ h.step = "read" /\ h.cid \in promoted
  BY <1>1 DEF ReadConnection, At, IInv, HandlersOK, Sound
<1>3. Grows /\ Auth0OK'
  <2>1. UNCHANGED <<settings, auth0>>
    BY DEF ReadConnection
  <2>2. overlapped => overlapped'
    <3>1. \/ overlapped' = IF \E t \in Slots : At(t, "write") THEN TRUE
                           ELSE overlapped
          \/ overlapped' = overlapped
      BY DEF ReadConnection
    <3> QED
      BY <3>1
  <2> QED
    BY <2>1, <2>2 DEF Grows, auth0, IInv, Auth0OK, OnlyPromotedClients
<1>4. PICK o, a : o = h.owed \ {h.cid} /\ a = acknowledged
  OBVIOUS
<1>5. Shaped(h) /\ Served(o) /\ Served(a)
  BY <1>2, <1>4 DEF Sound, Busy, IInv
<1>6. Served(o)' /\ Served(a)'
  BY <1>5, <1>3, ServedGrows
<1>7. CASE /\ Goto(s, [h EXCEPT !.step = "write", !.read = enabled])
           /\ overlapped' = IF \E t \in Slots : At(t, "write") THEN TRUE
                            ELSE overlapped
  <2>1. PICK g : g = [h EXCEPT !.step = "write", !.read = enabled]
    OBVIOUS
  <2>2. g = [step |-> "write", events |-> h.events, cid |-> h.cid,
             alt |-> h.alt, read |-> enabled, owed |-> h.owed,
             healthy |-> h.healthy]
    BY <1>5, <2>1 DEF Shaped
  <2>3. /\ Shaped(g) /\ g.step = "write" /\ g.cid = h.cid
        /\ g.owed = h.owed /\ g.read = enabled
    BY <2>2 DEF Shaped
  <2>4. g.cid \in promoted' /\ g.read \subseteq promoted'
    BY <1>2, <2>3 DEF ReadConnection, auth0, IInv, Auth0OK, OnlyPromotedClients
  <2>5. Sound(g)'
    BY <1>4, <1>6, <2>3, <2>4 DEF Sound, Shaped, Busy
  <2>6. OnlySlot(s) /\ handlers'[s] = g /\ acknowledged' = a
    BY <1>4, <1>7, <2>1 DEF Goto, OnlySlot, IInv, HandlersOK
  <2>7. Sound(handlers[s])'
    BY <2>5, <2>6
  <2>8. HandlersOK'
    BY <1>3, <2>6, <2>7, HandlersKeep DEF IInv
  <2>9. ~overlapped' => \A t \in Slots \ {s} : ~At(t, "write")'
    BY <1>7, <2>6 DEF OnlySlot, At
  <2>10. enabled' = enabled
    BY DEF ReadConnection, auth0
  <2>11. SoleWriter'
    BY <2>3, <2>6, <2>9, <2>10 DEF SoleWriter
  <2> QED
    BY <1>3, <1>6, <2>6, <2>8, <2>11 DEF IInv
<1>8. CASE Fail(s, Unwell(h)) /\ UNCHANGED overlapped
  <2>1. Calm(s)
    BY <1>8, CalmUnchanged DEF ReadConnection
  <2> QED
    BY <1>8, <2>1, FailKeeps
<1> QED
  BY <1>1, <1>7, <1>8 DEF ReadConnection

(* The step that closes it: a sole writer takes nothing away.              *)
LEMMA WriteStep ==
  ASSUME NEW s \in Slots, IInv, PatchConnection(s)
  PROVE  IInv'
<1>1. PICK h : h = handlers[s]
  OBVIOUS
<1>2. /\ Sound(h) /\ h.step = "write" /\ h.cid \in promoted
      /\ h.read \subseteq promoted /\ At(s, "write")
  BY <1>1 DEF PatchConnection, At, IInv, HandlersOK, Sound
<1>3. ~overlapped => h.read = enabled
  BY <1>1, <1>2 DEF IInv, SoleWriter
<1>4. Calm(s)
  BY <1>1, <1>2, <1>3 DEF PatchConnection, WithClient, IInv, Calm, Grows,
                          Auth0OK, OnlyPromotedClients
<1>5. PICK o : o = h.owed \ {h.cid}
  OBVIOUS
<1>6. Shaped(h) /\ Served(o)
  BY <1>2, <1>5 DEF Sound, Busy
<1>7. Served(o)'
  BY <1>6, <1>4, ServedGrows DEF Calm
<1>8. CASE enabled' = WithClient(h) /\ "grants" \in settings
             /\ Goto(s, [h EXCEPT !.step = "grant"])
  <2>1. PICK g : g = [h EXCEPT !.step = "grant"]
    OBVIOUS
  <2>2. Shaped(g) /\ g.step = "grant" /\ g.cid = h.cid /\ g.owed = h.owed
    BY <1>6, <2>1, StepShape
  <2>3. g.cid \in promoted' /\ g.cid \in enabled'
    BY <1>2, <1>8, <2>2 DEF PatchConnection, WithClient
  <2>4. Sound(g)'
    BY <1>5, <1>7, <2>2, <2>3 DEF Sound, Shaped, Busy
  <2> QED
    BY <1>4, <1>8, <2>1, <2>2, <2>4, GotoKeeps
<1>9. CASE enabled' = WithClient(h) /\ "grants" \notin settings
             /\ NextEvent(s, h)
  <2>1. PICK w : w = h.owed
    OBVIOUS
  <2>2. /\ h.cid \in promoted' /\ h.cid \in enabled'
        /\ "grants" \notin settings'
    BY <1>2, <1>9 DEF PatchConnection, WithClient
  <2>3. Served(w)'
    BY <1>5, <1>7, <2>1, <2>2 DEF Served
  <2> QED
    BY <1>4, <1>6, <1>9, <2>1, <2>3, NextEventKeeps
<1>10. CASE Fail(s, Unwell(h))
  BY <1>4, <1>10, FailKeeps
<1> QED
  BY <1>1, <1>8, <1>9, <1>10 DEF PatchConnection

LEMMA GrantStep ==
  ASSUME NEW s \in Slots, IInv, EnsureClientGrant(s)
  PROVE  IInv'
<1>1. PICK h : h = handlers[s]
  OBVIOUS
<1>2. /\ Sound(h) /\ h.step = "grant" /\ h.cid \in promoted
      /\ ~overlapped => h.cid \in enabled
  BY <1>1 DEF EnsureClientGrant, At, IInv, HandlersOK, Sound
<1>3. Calm(s)
  BY <1>1, <1>2 DEF EnsureClientGrant, IInv, Calm, Grows, Auth0OK,
                    OnlyPromotedClients
<1>4. PICK o : o = h.owed \ {h.cid}
  OBVIOUS
<1>5. Shaped(h) /\ Served(o)
  BY <1>2, <1>4 DEF Sound, Busy
<1>6. Served(o)'
  BY <1>5, <1>3, ServedGrows DEF Calm
<1>7. CASE grants' = grants \cup {h.cid} /\ NextEvent(s, h)
  <2>1. PICK w : w = h.owed
    OBVIOUS
  <2>2. h.cid \in promoted' /\ h.cid \in grants' /\ (~overlapped' => h.cid \in enabled')
    BY <1>2, <1>7 DEF EnsureClientGrant
  <2>3. Served(w)'
    BY <1>4, <1>6, <2>1, <2>2 DEF Served
  <2> QED
    BY <1>3, <1>5, <1>7, <2>1, <2>3, NextEventKeeps
<1>8. CASE Fail(s, h)
  BY <1>3, <1>8, FailKeeps
<1>9. CASE Fail(s, Unwell(h))
  BY <1>3, <1>9, FailKeeps
<1> QED
  BY <1>1, <1>7, <1>8, <1>9 DEF EnsureClientGrant, GrantFailed

LEMMA DeliverStep ==
  ASSUME NEW s \in Slots, NEW batch, IInv, Deliver(s, batch)
  PROVE  IInv'
<1>1. PICK e, g : e = DcrEvents(batch) /\ g = Handler(batch)
  OBVIOUS
<1>2. g = [step |-> "token", events |-> e, cid |-> None, alt |-> None,
           read |-> {}, owed |-> {}, healthy |-> TRUE]
  BY <1>1 DEF Handler
<1>3. Shaped(g) /\ ~Busy(g) /\ g.step = "token" /\ g.owed = {}
  BY <1>2 DEF Shaped, Busy
<1>4. Sound(g)'
  BY <1>3 DEF Sound, Shaped, Busy, Served
<1>5. Calm(s)
  BY CalmUnchanged DEF Deliver, history
<1>6. Goto(s, g)
  BY <1>1 DEF Deliver, Goto, history
<1> QED
  BY <1>3, <1>4, <1>5, <1>6, GotoKeeps

(* The invariant is kept whatever a step does elsewhere.                   *)
LEMMA SameHandlers ==
  ASSUME IInv, Grows, Auth0OK', UNCHANGED <<enabled, handlers, history>>
  PROVE  IInv'
<1>1. PICK a : a = acknowledged
  OBVIOUS
<1>2. Served(a)' /\ acknowledged' = a
  BY <1>1, ServedGrows DEF IInv, history
<1>3. \A s \in Slots : handlers'[s] # None => Sound(handlers[s])'
  <2> SUFFICES ASSUME NEW s \in Slots, handlers'[s] # None
               PROVE  Sound(handlers[s])'
    OBVIOUS
  <2>1. PICK h : h = handlers[s]
    OBVIOUS
  <2>2. Sound(h)'
    BY <2>1, SoundGrows DEF IInv, HandlersOK
  <2> QED
    BY <2>1, <2>2
<1>4. HandlersOK'
  BY <1>3 DEF HandlersOK, IInv
<1>5. SoleWriter'
  BY DEF SoleWriter, At, IInv, history
<1> QED
  BY <1>2, <1>4, <1>5 DEF IInv

-----------------------------------------------------------------------------
LEMMA IInvInit == Init => IInv
BY DEF Init, IInv, Auth0OK, OnlyPromotedClients, HandlersOK, SoleWriter, At,
       Served

LEMMA IInvNext == IInv /\ [Next]_vars => IInv'
<1> SUFFICES ASSUME IInv, [Next]_vars PROVE IInv'
  OBVIOUS
<1>1. ASSUME NEW c \in Clients, Register(c) PROVE IInv'
  <2>1. Grows /\ Auth0OK'
    BY <1>1 DEF Register, Grows, IInv, Auth0OK, OnlyPromotedClients, history
  <2> QED
    BY <1>1, <2>1, SameHandlers DEF Register
<1>2. CASE Age
  <2>1. Grows /\ Auth0OK'
    BY <1>2 DEF Age, Grows, IInv, Auth0OK, OnlyPromotedClients, history
  <2> QED
    BY <1>2, <2>1, SameHandlers DEF Age
<1>3. CASE Refuse
  <2>1. UNCHANGED <<settings, auth0, handlers, history>>
    BY <1>3 DEF Refuse
  <2>2. Grows /\ Auth0OK'
    BY <2>1 DEF auth0, Grows, IInv, Auth0OK, OnlyPromotedClients, history
  <2> QED
    BY <2>1, <2>2, SameHandlers DEF auth0
<1>4. CASE Crash
  <2>1. Grows /\ Auth0OK'
    BY <1>4 DEF Crash, auth0, Grows, IInv, Auth0OK, OnlyPromotedClients, history
  <2>2. HandlersOK' /\ SoleWriter'
    BY <1>4 DEF Crash, HandlersOK, SoleWriter, At
  <2>3. PICK a : a = acknowledged
    OBVIOUS
  <2>4. Served(a)' /\ acknowledged' = a
    BY <1>4, <2>1, <2>3, ServedGrows DEF Crash, IInv, history
  <2> QED
    BY <2>1, <2>2, <2>4 DEF IInv
<1>5. ASSUME NEW s \in Slots, NEW batch \in Batches, Deliver(s, batch)
      PROVE  IInv'
  BY <1>5, DeliverStep
<1>6. ASSUME NEW s \in Slots, Step(s) PROVE IInv'
  BY <1>6, TokenStep, LookupStep, PromoteStep, AlternativeStep, RepromoteStep,
     ReadStep, WriteStep, GrantStep DEF Step
<1>7. CASE UNCHANGED vars
  <2>1. Grows /\ Auth0OK'
    BY <1>7 DEF vars, auth0, Grows, IInv, Auth0OK, OnlyPromotedClients, history
  <2> QED
    BY <1>7, <2>1, SameHandlers DEF vars, auth0
<1> QED
  BY <1>1, <1>2, <1>3, <1>4, <1>5, <1>6, <1>7 DEF Next

LEMMA IInvHolds == Spec => []IInv
BY IInvInit, IInvNext, PTL DEF Spec

-----------------------------------------------------------------------------
(* Nothing but a promoted client is ever enabled or granted: not with      *)
(* handlers interleaved, calls failing half-way, fallbacks to another      *)
(* client, crashes and repeated deliveries (auth0LogWebhook.ts).           *)
THEOREM OnlyPromotedIsEnabled == Spec => []OnlyPromotedClients
<1>1. IInv => OnlyPromotedClients
  BY DEF IInv, Auth0OK
<1> QED
  BY <1>1, IInvHolds, PTL

(* An answer of 200 means that every client of the delivery is promoted    *)
(* and, where grants are configured, granted (L414).                       *)
THEOREM AcknowledgedIsGranted == Spec => []AcknowledgedAreGranted
<1>1. IInv => AcknowledgedAreGranted
  BY DEF IInv, Served, AcknowledgedAreGranted
<1> QED
  BY <1>1, IInvHolds, PTL

(* Overlapping reads and writes of enabled_clients (L153-176) are the only *)
(* way in which an acknowledged client is disabled again.                  *)
THEOREM EnabledUnlessWritesOverlap == Spec => []EnabledUnlessOverlapped
<1>1. IInv => EnabledUnlessOverlapped
  BY DEF IInv, Served, EnabledUnlessOverlapped
<1> QED
  BY <1>1, IInvHolds, PTL

-----------------------------------------------------------------------------
(* The types.  What a step does to the handlers and the answers:           *)
HandlersTyped ==
  /\ handlers \in [Slots -> Handlers \cup {None}]
  /\ answer \in [status : {200, 401, 429, 500, 501, 503}, healthy : BOOLEAN]
                \cup {None}
  /\ acknowledged \in SUBSET Clients

LEMMA EventsTyped ==
  ASSUME NEW batch \in Batches
  PROVE  DcrEvents(batch) \in Seq(Clients \cup {Unnamed})
<1>1. batch \in Seq((Clients \cup {Unnamed}) \cup {Other})
  <2>1. Clients \cup {Unnamed, Other} = (Clients \cup {Unnamed}) \cup {Other}
    OBVIOUS
  <2>. QED
    BY <2>1, WebhookAssumption
<1>. QED
  BY <1>1, RegistrationsAreEvents DEF DcrEvents

LEMMA GotoTyped ==
  ASSUME HandlersTyped, NEW s \in Slots, NEW g \in Handlers, Goto(s, g)
  PROVE  HandlersTyped'
BY DEF HandlersTyped, Goto

LEMMA ReplyTyped ==
  ASSUME HandlersTyped, NEW s \in Slots, NEW h \in Handlers,
         NEW status \in {200, 500}, Reply(s, status, h)
  PROVE  HandlersTyped'
<1>1. h.healthy \in BOOLEAN /\ h.owed \in SUBSET Clients
  BY DEF Handlers
<1>2. handlers' \in [Slots -> Handlers \cup {None}]
  BY DEF HandlersTyped, Reply
<1>3. answer' \in [status : {200, 401, 429, 500, 501, 503}, healthy : BOOLEAN]
  BY <1>1 DEF Reply
<1>4. acknowledged' \in SUBSET Clients
  BY <1>1 DEF HandlersTyped, Reply
<1>. QED
  BY <1>2, <1>3, <1>4 DEF HandlersTyped

(* A handler with other fields is a handler.                               *)
LEMMA HandlerFields ==
  ASSUME NEW h \in Handlers
  PROVE  /\ h = [step |-> h.step, events |-> h.events, cid |-> h.cid,
                 alt |-> h.alt, read |-> h.read, owed |-> h.owed,
                 healthy |-> h.healthy]
         /\ h.events \in Seq(Clients \cup {Unnamed})
         /\ h.cid \in Clients \cup {None} /\ h.alt \in Clients \cup {None}
         /\ h.read \in SUBSET Clients /\ h.owed \in SUBSET Clients
BY DEF Handlers

LEMMA UnwellTyped ==
  ASSUME NEW h \in Handlers
  PROVE  Unwell(h) \in Handlers
BY DEF Handlers, Unwell

LEMMA StepTyped ==
  ASSUME NEW h \in Handlers,
         NEW st \in {"lookup", "relookup", "read", "grant"}
  PROVE  [h EXCEPT !.step = st] \in Handlers
BY DEF Handlers

LEMMA PromotingTyped ==
  ASSUME NEW h \in Handlers, NEW c \in Clients
  PROVE  Promoting(h, c) \in Handlers
<1>1. PICK o : o = h.owed \cup {c}
  OBVIOUS
<1>2. o \in SUBSET Clients
  BY <1>1, HandlerFields
<1>3. Promoting(h, c) = [h EXCEPT !.step = "promote", !.cid = c, !.owed = o]
  BY <1>1 DEF Promoting
<1>. QED
  BY <1>2, <1>3 DEF Handlers

LEMMA NextEventTyped ==
  ASSUME HandlersTyped, NEW s \in Slots, NEW h \in Handlers, NextEvent(s, h)
  PROVE  HandlersTyped'
<1>1. CASE h.events = <<>>
  BY <1>1, ReplyTyped DEF NextEvent
<1>2. CASE h.events # <<>>
  <2>1. PICK e, t : e = Head(h.events) /\ t = Tail(h.events)
    OBVIOUS
  <2>2. e \in Clients \cup {Unnamed} /\ t \in Seq(Clients \cup {Unnamed})
    BY <1>2, <2>1, HandlerFields
  <2>3. PICK rest : rest = [h EXCEPT !.events = t]
    OBVIOUS
  <2>4. rest \in Handlers
    BY <2>2, <2>3 DEF Handlers
  <2>5. Goto(s, IF e = Unnamed THEN [rest EXCEPT !.step = "lookup"]
                ELSE Promoting(rest, e))
    BY <1>2, <2>1, <2>3 DEF NextEvent
  <2>6. CASE e = Unnamed
    BY <2>4, <2>5, <2>6, StepTyped, GotoTyped
  <2>7. CASE e # Unnamed
    BY <2>2, <2>4, <2>5, <2>7, PromotingTyped, GotoTyped
  <2>. QED
    BY <2>6, <2>7
<1>. QED
  BY <1>1, <1>2

LEMMA FailTyped ==
  ASSUME HandlersTyped, NEW s \in Slots, NEW h \in Handlers, Fail(s, h)
  PROVE  HandlersTyped'
BY ReplyTyped DEF Fail

(* The rest of the types: the configuration, Auth0 and the bounds.         *)
RestTyped ==
  /\ settings \in Settings
  /\ registered \in SUBSET Clients
  /\ newest \in registered \cup {None}
  /\ promoted \in SUBSET Clients
  /\ enabled \in SUBSET Clients
  /\ grants \in SUBSET Clients
  /\ deliveries \in 0..MaxDeliveries
  /\ faults \in 0..MaxFaults
  /\ overlapped \in BOOLEAN

LEMMA CallsTyped ==
  ASSUME faults \in 0..MaxFaults, CallFails \/ CallWorks
  PROVE  faults' \in 0..MaxFaults
BY WebhookAssumption DEF CallFails, CallWorks

(* Every step of a handler finds the clients it acts on to be clients.     *)
LEMMA StepKeepsTypes ==
  ASSUME TypeOK, IInv, NEW s \in Slots, Step(s)
  PROVE  TypeOK'
<1>. DEFINE h == handlers[s]
<1>1. HandlersTyped /\ RestTyped
  BY DEF TypeOK, HandlersTyped, RestTyped
<1>2. handlers[s] # None
  BY DEF Step, GetMgmtToken, FindNewest, PromoteClient, FindAlternative,
         PromoteAlternative, ReadConnection, PatchConnection,
         EnsureClientGrant, At
<1>3. h \in Handlers /\ Sound(h)
  BY <1>1, <1>2 DEF HandlersTyped, IInv, HandlersOK
<1>4. Unwell(h) \in Handlers
  BY <1>3, UnwellTyped
<1>5. newest # None => newest \in Clients
  BY <1>1 DEF RestTyped
<1>. SUFFICES HandlersTyped' /\ RestTyped'
  BY DEF TypeOK, HandlersTyped, RestTyped
<1>6. CASE GetMgmtToken(s)
  <2>1. HandlersTyped'
    BY <1>1, <1>3, <1>4, <1>6, NextEventTyped, FailTyped DEF GetMgmtToken
  <2>2. RestTyped'
    BY <1>1, <1>6, CallsTyped DEF GetMgmtToken, RestTyped, auth0
  <2>. QED
    BY <2>1, <2>2
<1>7. CASE FindNewest(s)
  <2>1. newest # None => Promoting(h, newest) \in Handlers
    BY <1>3, <1>5, PromotingTyped
  <2>2. HandlersTyped'
    BY <1>1, <1>3, <1>4, <1>7, <2>1, GotoTyped, NextEventTyped, FailTyped
       DEF FindNewest
  <2>3. RestTyped'
    BY <1>1, <1>7, CallsTyped DEF FindNewest, RestTyped, auth0
  <2>. QED
    BY <2>2, <2>3
<1>8. CASE PromoteClient(s)
  <2>1. /\ [h EXCEPT !.step = "read"] \in Handlers
        /\ [Unwell(h) EXCEPT !.step = "relookup"] \in Handlers
    BY <1>3, <1>4, StepTyped
  <2>2. HandlersTyped'
    BY <1>1, <1>3, <1>4, <1>8, <2>1, GotoTyped, FailTyped DEF PromoteClient
  <2>3. RestTyped'
    BY <1>1, <1>8, CallsTyped DEF PromoteClient, RestTyped
  <2>. QED
    BY <2>2, <2>3
<1>9. CASE FindAlternative(s)
  <2>1. newest # None =>
          [h EXCEPT !.step = "repromote", !.alt = newest] \in Handlers
    BY <1>3, <1>5 DEF Handlers
  <2>2. HandlersTyped'
    BY <1>1, <1>3, <1>9, <2>1, GotoTyped, FailTyped DEF FindAlternative
  <2>3. RestTyped'
    BY <1>1, <1>9, CallsTyped DEF FindAlternative, RestTyped, auth0
  <2>. QED
    BY <2>2, <2>3
<1>10. CASE PromoteAlternative(s)
  <2>1. h.alt \in Clients
    BY <1>1, <1>3, <1>10 DEF PromoteAlternative, At, Sound, RestTyped
  <2>2. Retried(h) \in Handlers
    <3>1. PICK o : o = (h.owed \ {h.cid}) \cup {h.alt}
      OBVIOUS
    <3>2. o \in SUBSET Clients
      BY <1>3, <2>1, <3>1, HandlerFields
    <3>3. Retried(h) = [h EXCEPT !.step = "read", !.cid = h.alt, !.owed = o]
      BY <3>1 DEF Retried
    <3>. QED
      BY <1>3, <2>1, <3>2, <3>3 DEF Handlers
  <2>3. HandlersTyped'
    BY <1>1, <1>3, <1>10, <2>2, GotoTyped, FailTyped DEF PromoteAlternative
  <2>4. RestTyped'
    BY <1>1, <1>10, <2>1, CallsTyped DEF PromoteAlternative, RestTyped
  <2>. QED
    BY <2>3, <2>4
<1>11. CASE ReadConnection(s)
  <2>1. [h EXCEPT !.step = "write", !.read = enabled] \in Handlers
    BY <1>1, <1>3 DEF Handlers, RestTyped
  <2>2. HandlersTyped'
    BY <1>1, <1>3, <1>4, <1>11, <2>1, GotoTyped, FailTyped DEF ReadConnection
  <2>3. overlapped' \in BOOLEAN
    <3>1. \/ overlapped' = IF \E t \in Slots : At(t, "write") THEN TRUE
                           ELSE overlapped
          \/ overlapped' = overlapped
      BY <1>11 DEF ReadConnection
    <3>. QED
      BY <1>1, <3>1 DEF RestTyped
  <2>4. RestTyped'
    BY <1>1, <1>11, <2>3, CallsTyped DEF ReadConnection, RestTyped, auth0
  <2>. QED
    BY <2>2, <2>4
<1>12. CASE PatchConnection(s)
  <2>1. WithClient(h) \in SUBSET Clients
    BY <1>1, <1>3, <1>12 DEF PatchConnection, At, Sound, RestTyped, WithClient
  <2>2. [h EXCEPT !.step = "grant"] \in Handlers
    BY <1>3, StepTyped
  <2>3. HandlersTyped'
    BY <1>1, <1>3, <1>4, <1>12, <2>2, GotoTyped, NextEventTyped, FailTyped
       DEF PatchConnection
  <2>4. RestTyped'
    BY <1>1, <1>12, <2>1, CallsTyped DEF PatchConnection, RestTyped
  <2>. QED
    BY <2>3, <2>4
<1>13. CASE EnsureClientGrant(s)
  <2>1. h.cid \in Clients
    BY <1>1, <1>3, <1>13 DEF EnsureClientGrant, At, Sound, RestTyped
  <2>2. HandlersTyped'
    BY <1>1, <1>3, <1>4, <1>13, NextEventTyped, FailTyped
       DEF EnsureClientGrant, GrantFailed
  <2>3. RestTyped'
    BY <1>1, <1>13, <2>1, CallsTyped DEF EnsureClientGrant, RestTyped
  <2>. QED
    BY <2>2, <2>3
<1>. QED
  BY <1>6, <1>7, <1>8, <1>9, <1>10, <1>11, <1>12, <1>13 DEF Step

LEMMA TypeInit == Init => TypeOK
<1>. SUFFICES ASSUME Init PROVE TypeOK
  OBVIOUS
<1>1. HandlersTyped
  BY DEF Init, HandlersTyped
<1>2. RestTyped
  <2>1. 0 \in 0..MaxDeliveries /\ 0 \in 0..MaxFaults
    BY WebhookAssumption
  <2>. QED
    BY <2>1 DEF Init, RestTyped
<1>. QED
  BY <1>1, <1>2 DEF TypeOK, HandlersTyped, RestTyped

LEMMA TypeNext == TypeOK /\ IInv /\ [Next]_vars => TypeOK'
<1>. SUFFICES ASSUME TypeOK, IInv, [Next]_vars PROVE TypeOK'
  OBVIOUS
<1>1. HandlersTyped /\ RestTyped
  BY DEF TypeOK, HandlersTyped, RestTyped
<1>2. ASSUME HandlersTyped', RestTyped' PROVE TypeOK'
  BY <1>2 DEF TypeOK, HandlersTyped, RestTyped
<1>3. ASSUME NEW c \in Clients, Register(c) PROVE TypeOK'
  BY <1>1, <1>2, <1>3 DEF Register, HandlersTyped, RestTyped, history
<1>4. CASE Age
  BY <1>1, <1>2, <1>4 DEF Age, HandlersTyped, RestTyped, history
<1>5. CASE Refuse
  <2>1. PICK status \in {200, 401, 429, 501, 503} :
          answer' = [status |-> status, healthy |-> TRUE]
    BY <1>5 DEF Refuse
  <2>. QED
    BY <1>1, <1>2, <1>5, <2>1
       DEF Refuse, HandlersTyped, RestTyped, auth0, history
<1>6. CASE Crash
  BY <1>1, <1>2, <1>6 DEF Crash, HandlersTyped, RestTyped, auth0, history
<1>7. ASSUME NEW s \in Slots, NEW batch \in Batches, Deliver(s, batch)
      PROVE  TypeOK'
  <2>1. Handler(batch) \in Handlers
    BY EventsTyped DEF Handler, Handlers
  <2>2. HandlersTyped'
    BY <1>1, <1>7, <2>1 DEF Deliver, HandlersTyped, history
  <2>3. deliveries' \in 0..MaxDeliveries
    BY <1>1, <1>7, WebhookAssumption DEF Deliver, RestTyped
  <2>4. RestTyped'
    BY <1>1, <1>7, <2>3 DEF Deliver, RestTyped, auth0, history
  <2>. QED
    BY <1>2, <2>2, <2>4
<1>8. ASSUME NEW s \in Slots, Step(s) PROVE TypeOK'
  BY <1>8, StepKeepsTypes
<1>9. CASE UNCHANGED vars
  BY <1>1, <1>2, <1>9 DEF vars, auth0, history, HandlersTyped, RestTyped
<1>. QED
  BY <1>3, <1>4, <1>5, <1>6, <1>7, <1>8, <1>9 DEF Next

(* Every field a handler keeps across its calls is what its next call      *)
(* takes it to be: the client it enables or grants has been promoted, and  *)
(* so is a client; what it wrote back it read; the events left are those   *)
(* of the delivery (handleAuth0LogWebhook, auth0LogWebhook.ts).            *)
THEOREM TypeCorrect == Spec => []TypeOK
<1>1. Init => TypeOK
  BY TypeInit
<1>2. TypeOK /\ IInv /\ [Next]_vars => TypeOK'
  BY TypeNext
<1> QED
  BY <1>1, <1>2, IInvHolds, PTL DEF Spec

-----------------------------------------------------------------------------
(* Progress.  The calls a handler may still make before it is at its next  *)
(* event, by the call it is about to make; the 404 fallback has two of     *)
(* them, and an event without a client one more.                           *)
StepsLeft ==
  [token |-> 1, lookup |-> 7, promote |-> 6, relookup |-> 5, repromote |-> 4,
   read |-> 3, write |-> 2, grant |-> 1]

CallsLeft(h) == StepsLeft[h.step] + 7 * Len(h.events)

(* The handler of the slot has answered, or has fewer calls left to make.  *)
Nears(s) == handlers'[s] = None \/ CallsLeft(handlers'[s]) < CallsLeft(handlers[s])

(* A step of the handler in slot s is one call nearer to its answer, and   *)
(* the other handlers are where they were.                                 *)
Advances(s) ==
  /\ Nears(s)
  /\ \A t \in Slots \ {s} : handlers'[t] = handlers[t]

LEMMA StepsLeftIs ==
  ASSUME NEW h \in Handlers
  PROVE  /\ Len(h.events) \in Nat
         /\ StepsLeft[h.step] \in 1..7
         /\ CallsLeft(h) \in Nat
<1>1. Len(h.events) \in Nat
  BY HandlerFields
<1>2. StepsLeft[h.step] \in 1..7
  BY DEF Handlers, StepsLeft
<1>. QED
  BY <1>1, <1>2 DEF CallsLeft

(* Going on within an event, or answering.                                 *)
LEMMA GotoAdvances ==
  ASSUME HandlersTyped, NEW s \in Slots, handlers[s] \in Handlers,
         NEW g, Goto(s, g), g.events = handlers[s].events,
         NEW n \in Nat, NEW m \in Nat, n < m,
         StepsLeft[g.step] = n, StepsLeft[handlers[s].step] = m
  PROVE  Advances(s)
<1>1. handlers'[s] = g /\ \A t \in Slots \ {s} : handlers'[t] = handlers[t]
  BY DEF Goto, HandlersTyped
<1>2. CallsLeft(g) < CallsLeft(handlers[s])
  <2>1. Len(handlers[s].events) \in Nat
    BY StepsLeftIs
  <2>. QED
    BY <2>1 DEF CallsLeft
<1>. QED
  BY <1>1, <1>2 DEF Advances, Nears

LEMMA FailAdvances ==
  ASSUME HandlersTyped, NEW s \in Slots, NEW h, Fail(s, h)
  PROVE  Advances(s)
BY DEF Fail, Reply, Advances, Nears, HandlersTyped

(* The next event is one event fewer, and an event takes seven calls at    *)
(* the most.                                                               *)
LEMMA NextEventAdvances ==
  ASSUME HandlersTyped, NEW s \in Slots, handlers[s] \in Handlers,
         NEW h \in Handlers, h.events = handlers[s].events, NextEvent(s, h)
  PROVE  Advances(s)
<1>1. CASE h.events = <<>>
  BY <1>1 DEF NextEvent, Reply, Advances, Nears, HandlersTyped
<1>2. CASE h.events # <<>>
  <2>1. PICK e, t : e = Head(h.events) /\ t = Tail(h.events)
    OBVIOUS
  <2>2. /\ e \in Clients \cup {Unnamed} /\ t \in Seq(Clients \cup {Unnamed})
        /\ Len(t) \in Nat /\ Len(h.events) = Len(t) + 1
    BY <1>2, <2>1, HandlerFields
  <2>3. PICK rest : rest = [h EXCEPT !.events = t]
    OBVIOUS
  <2>4. rest \in Handlers /\ rest.events = t
    BY <2>2, <2>3 DEF Handlers
  <2>5. PICK g : g = IF e = Unnamed THEN [rest EXCEPT !.step = "lookup"]
                     ELSE Promoting(rest, e)
    OBVIOUS
  <2>6. Goto(s, g)
    BY <1>2, <2>1, <2>3, <2>5 DEF NextEvent
  <2>7. g.events = t /\ g.step \in {"lookup", "promote"}
    <3>1. CASE e = Unnamed
      BY <2>4, <2>5, <3>1 DEF Handlers
    <3>2. CASE e # Unnamed
      BY <2>4, <2>5, <3>2 DEF Handlers, Promoting
    <3>. QED
      BY <3>1, <3>2
  <2>8. CallsLeft(g) <= 7 + 7 * Len(t) /\ CallsLeft(g) \in Int
    BY <2>2, <2>7 DEF CallsLeft, StepsLeft
  <2>9. CallsLeft(handlers[s]) >= 1 + 7 * (Len(t) + 1)
    <3>1. CallsLeft(handlers[s]) = StepsLeft[handlers[s].step] + 7 * (Len(t) + 1)
      BY <2>2 DEF CallsLeft
    <3>2. StepsLeft[handlers[s].step] \in 1..7
      BY StepsLeftIs
    <3>. QED
      BY <3>1, <3>2, <2>2
  <2>10. CallsLeft(handlers[s]) \in Int
    BY StepsLeftIs
  <2>11. CallsLeft(g) < CallsLeft(handlers[s])
    BY <2>2, <2>8, <2>9, <2>10
  <2>12. handlers'[s] = g /\ \A u \in Slots \ {s} : handlers'[u] = handlers[u]
    BY <2>6 DEF Goto, HandlersTyped
  <2>. QED
    BY <2>11, <2>12 DEF Advances, Nears
<1>. QED
  BY <1>1, <1>2

LEMMA StepAdvances ==
  ASSUME TypeOK, NEW s \in Slots, Step(s)
  PROVE  Advances(s)
<1>. DEFINE h == handlers[s]
<1>1. HandlersTyped
  BY DEF TypeOK, HandlersTyped
<1>2. handlers[s] # None
  BY DEF Step, GetMgmtToken, FindNewest, PromoteClient, FindAlternative,
         PromoteAlternative, ReadConnection, PatchConnection,
         EnsureClientGrant, At
<1>3. h \in Handlers
  BY <1>1, <1>2 DEF HandlersTyped
<1>4. Unwell(h) \in Handlers /\ Unwell(h).events = h.events
  BY <1>3, UnwellTyped DEF Handlers, Unwell
<1>5. CASE GetMgmtToken(s)
  BY <1>1, <1>3, <1>5, NextEventAdvances, FailAdvances DEF GetMgmtToken
<1>6. CASE FindNewest(s)
  <2>1. CASE Goto(s, Promoting(h, newest))
    <3>1. PICK g : g = Promoting(h, newest)
      OBVIOUS
    <3>2. g.events = h.events /\ g.step = "promote" /\ h.step = "lookup"
      BY <1>3, <1>6, <3>1 DEF Handlers, Promoting, FindNewest, At
    <3>3. StepsLeft[g.step] = 6 /\ StepsLeft[h.step] = 7
      BY <3>2 DEF StepsLeft
    <3>4. Goto(s, g)
      BY <2>1, <3>1
    <3>. HIDE DEF h
    <3>. QED
      BY <1>1, <1>3, <3>2, <3>3, <3>4, GotoAdvances DEF h
  <2>. QED
    BY <1>1, <1>3, <1>4, <1>6, <2>1, NextEventAdvances, FailAdvances
       DEF FindNewest
<1>7. CASE PromoteClient(s)
  <2>1. CASE Goto(s, [h EXCEPT !.step = "read"])
    <3>1. PICK g : g = [h EXCEPT !.step = "read"]
      OBVIOUS
    <3>2. g.events = h.events /\ g.step = "read" /\ h.step = "promote"
      BY <1>3, <1>7, <3>1 DEF Handlers, PromoteClient, At
    <3>3. StepsLeft[g.step] = 3 /\ StepsLeft[h.step] = 6
      BY <3>2 DEF StepsLeft
    <3>4. Goto(s, g)
      BY <2>1, <3>1
    <3>. HIDE DEF h
    <3>. QED
      BY <1>1, <1>3, <3>2, <3>3, <3>4, GotoAdvances DEF h
  <2>2. CASE Goto(s, [Unwell(h) EXCEPT !.step = "relookup"])
    <3>1. PICK g : g = [Unwell(h) EXCEPT !.step = "relookup"]
      OBVIOUS
    <3>2. g.events = h.events /\ g.step = "relookup" /\ h.step = "promote"
      BY <1>3, <1>4, <1>7, <3>1 DEF Handlers, PromoteClient, At
    <3>3. StepsLeft[g.step] = 5 /\ StepsLeft[h.step] = 6
      BY <3>2 DEF StepsLeft
    <3>4. Goto(s, g)
      BY <2>2, <3>1
    <3>. HIDE DEF h
    <3>. QED
      BY <1>1, <1>3, <3>2, <3>3, <3>4, GotoAdvances DEF h
  <2>. QED
    BY <1>1, <1>7, <2>1, <2>2, FailAdvances DEF PromoteClient
<1>8. CASE FindAlternative(s)
  <2>1. CASE Goto(s, [h EXCEPT !.step = "repromote", !.alt = newest])
    <3>1. PICK g : g = [h EXCEPT !.step = "repromote", !.alt = newest]
      OBVIOUS
    <3>2. g.events = h.events /\ g.step = "repromote" /\ h.step = "relookup"
      BY <1>3, <1>8, <3>1 DEF Handlers, FindAlternative, At
    <3>3. StepsLeft[g.step] = 4 /\ StepsLeft[h.step] = 5
      BY <3>2 DEF StepsLeft
    <3>4. Goto(s, g)
      BY <2>1, <3>1
    <3>. HIDE DEF h
    <3>. QED
      BY <1>1, <1>3, <3>2, <3>3, <3>4, GotoAdvances DEF h
  <2>. QED
    BY <1>1, <1>8, <2>1, FailAdvances DEF FindAlternative
<1>9. CASE PromoteAlternative(s)
  <2>1. CASE Goto(s, Retried(h))
    <3>1. PICK g : g = Retried(h)
      OBVIOUS
    <3>2. g.events = h.events /\ g.step = "read" /\ h.step = "repromote"
      BY <1>3, <1>9, <3>1 DEF Handlers, Retried, PromoteAlternative, At
    <3>3. StepsLeft[g.step] = 3 /\ StepsLeft[h.step] = 4
      BY <3>2 DEF StepsLeft
    <3>4. Goto(s, g)
      BY <2>1, <3>1
    <3>. HIDE DEF h
    <3>. QED
      BY <1>1, <1>3, <3>2, <3>3, <3>4, GotoAdvances DEF h
  <2>. QED
    BY <1>1, <1>9, <2>1, FailAdvances DEF PromoteAlternative
<1>10. CASE ReadConnection(s)
  <2>1. CASE Goto(s, [h EXCEPT !.step = "write", !.read = enabled])
    <3>1. PICK g : g = [h EXCEPT !.step = "write", !.read = enabled]
      OBVIOUS
    <3>2. g.events = h.events /\ g.step = "write" /\ h.step = "read"
      BY <1>3, <1>10, <3>1 DEF Handlers, ReadConnection, At
    <3>3. StepsLeft[g.step] = 2 /\ StepsLeft[h.step] = 3
      BY <3>2 DEF StepsLeft
    <3>4. Goto(s, g)
      BY <2>1, <3>1
    <3>. HIDE DEF h
    <3>. QED
      BY <1>1, <1>3, <3>2, <3>3, <3>4, GotoAdvances DEF h
  <2>. QED
    BY <1>1, <1>10, <2>1, FailAdvances DEF ReadConnection
<1>11. CASE PatchConnection(s)
  <2>1. CASE Goto(s, [h EXCEPT !.step = "grant"])
    <3>1. PICK g : g = [h EXCEPT !.step = "grant"]
      OBVIOUS
    <3>2. g.events = h.events /\ g.step = "grant" /\ h.step = "write"
      BY <1>3, <1>11, <3>1 DEF Handlers, PatchConnection, At
    <3>3. StepsLeft[g.step] = 1 /\ StepsLeft[h.step] = 2
      BY <3>2 DEF StepsLeft
    <3>4. Goto(s, g)
      BY <2>1, <3>1
    <3>. HIDE DEF h
    <3>. QED
      BY <1>1, <1>3, <3>2, <3>3, <3>4, GotoAdvances DEF h
  <2>. QED
    BY <1>1, <1>3, <1>11, <2>1, NextEventAdvances, FailAdvances
       DEF PatchConnection
<1>12. CASE EnsureClientGrant(s)
  BY <1>1, <1>3, <1>12, NextEventAdvances, FailAdvances
     DEF EnsureClientGrant, GrantFailed
<1>. QED
  BY <1>5, <1>6, <1>7, <1>8, <1>9, <1>10, <1>11, <1>12 DEF Step

(* No other step moves a handler that goes on.                             *)
LEMMA NextAdvances ==
  ASSUME TypeOK, [Next]_vars, NEW s \in Slots, handlers[s] # None
  PROVE  \/ handlers'[s] = handlers[s] /\ ~Step(s)
         \/ Nears(s)
<1>1. HandlersTyped
  BY DEF TypeOK, HandlersTyped
<1>2. CASE Step(s)
  BY <1>2, StepAdvances DEF Advances
<1>. SUFFICES ASSUME ~Step(s), handlers'[s] # None
              PROVE  handlers'[s] = handlers[s]
  BY <1>2 DEF Nears
<1>3. CASE \E c \in Clients : Register(c)
  BY <1>3 DEF Register
<1>4. CASE Age
  BY <1>4 DEF Age
<1>5. CASE Refuse
  BY <1>5 DEF Refuse
<1>6. CASE Crash
  BY <1>6 DEF Crash
<1>7. ASSUME NEW t \in Slots, \E batch \in Batches : Deliver(t, batch)
      PROVE  handlers'[s] = handlers[s]
  BY <1>1, <1>7 DEF Deliver, HandlersTyped
<1>8. ASSUME NEW t \in Slots, Step(t)
      PROVE  handlers'[s] = handlers[s]
  BY <1>8, StepAdvances DEF Advances
<1>9. CASE UNCHANGED vars
  BY <1>9 DEF vars
<1>. QED
  BY <1>3, <1>4, <1>5, <1>6, <1>7, <1>8, <1>9 DEF Next

(* However deliveries interleave and calls fail, the handler of a delivery *)
(* of n registrations makes at most 7n + 1 calls: each of its steps leaves *)
(* fewer to make, no other handler's adds one, and the fallback after a    *)
(* 404 is tried once (auth0LogWebhook.ts:368-417).                         *)
THEOREM EachCallNearsTheAnswer ==
  /\ Spec => [](\A s \in Slots : handlers[s] # None => CallsLeft(handlers[s]) \in Nat)
  /\ Spec => [][\A s \in Slots : handlers[s] # None =>
                  (handlers'[s] = handlers[s] /\ ~Step(s)) \/ Nears(s)]_vars
  /\ \A batch \in Batches :
       CallsLeft(Handler(batch)) = 7 * Len(DcrEvents(batch)) + 1
<1>1. TypeOK /\ [Next]_vars =>
        [\A s \in Slots : handlers[s] # None =>
           (handlers'[s] = handlers[s] /\ ~Step(s)) \/ Nears(s)]_vars
  BY NextAdvances
<1>2. Spec => [][\A s \in Slots : handlers[s] # None =>
                   (handlers'[s] = handlers[s] /\ ~Step(s)) \/ Nears(s)]_vars
  BY <1>1, TypeCorrect, PTL DEF Spec
<1>3. ASSUME NEW batch \in Batches
      PROVE  CallsLeft(Handler(batch)) = 7 * Len(DcrEvents(batch)) + 1
  <2>1. Len(DcrEvents(batch)) \in Nat
    BY EventsTyped
  <2>2. Handler(batch).step = "token" /\ Handler(batch).events = DcrEvents(batch)
    BY DEF Handler
  <2>. QED
    BY <2>1, <2>2 DEF CallsLeft, StepsLeft
<1>4. TypeOK =>
        \A s \in Slots : handlers[s] # None => CallsLeft(handlers[s]) \in Nat
  <2>. SUFFICES ASSUME TypeOK, NEW s \in Slots, handlers[s] # None
                PROVE  CallsLeft(handlers[s]) \in Nat
    OBVIOUS
  <2>1. handlers[s] \in Handlers
    BY DEF TypeOK
  <2>. QED
    BY <2>1, StepsLeftIs
<1>5. Spec => [](\A s \in Slots : handlers[s] # None => CallsLeft(handlers[s]) \in Nat)
  BY <1>4, TypeCorrect, PTL
<1>. QED
  BY <1>2, <1>3, <1>5
=============================================================================
