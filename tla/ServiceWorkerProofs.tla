------------------------ MODULE ServiceWorkerProofs ------------------------
(***************************************************************************)
(* Proofs about ServiceWorker.tla, for any number of pages, documents,     *)
(* targets and fetches at a time.                                          *)
(***************************************************************************)
EXTENDS ServiceWorker, TLAPS

----------------------------------------------------------------------------
(* Type correctness: the pages and the maps, the fetches one by one.       *)

MapsOK ==
    /\ life \in [Clients -> {"new", "alive", "gone"}]
    /\ url \in [Docs -> MaybeTarget] /\ named \in [Docs -> SUBSET Targets]
    /\ open \in [Pages -> SUBSET Targets] /\ mail \in [Pages -> Seq(Messages)]
    /\ ready \subseteq Pages
    /\ targetOf \in [Docs -> MaybeTarget]
    /\ hostOf \in [Targets -> Pages \cup {None}]

FetchesOK ==
    /\ req \in [Requests -> Fetches]
    /\ \A r \in Requests : Complete(req[r])

Typed == MapsOK /\ FetchesOK

LEMMA EventOK ==
    ASSUME NEW at \in {"idle", "served"} \cup Busy, NEW c \in MaybeClient,
           NEW mode \in Modes, NEW t \in MaybeTarget, NEW h \in MaybeClient,
           NEW n \in 0..MaxTries - 1
    PROVE  LET f == Event(at, c, mode, t, h, n) IN
           /\ f \in Fetches
           /\ f.at = at /\ f.by = c /\ f.mode = mode
           /\ f.target = t /\ f.host = h /\ f.tries = n
  BY DEF Event, Fetches

LEMMA FewTries == 0 \in 0..MaxTries - 1 /\ 1 \in 0..MaxTries - 1
  BY RoutingAssumption

LEMMA IdleIsComplete == Idle \in Fetches /\ Complete(Idle) /\ Idle.by = None
  BY RoutingAssumption, FewTries, EventOK
     DEF Idle, Busy, Modes, Complete, MaybeClient, MaybeTarget

\* One fetch changes, and stays complete.
LEMMA OneFetch ==
    ASSUME FetchesOK, NEW r \in Requests, NEW f \in Fetches, Complete(f),
           req' = [req EXCEPT ![r] = f]
    PROVE  /\ FetchesOK'
           /\ req'[r] = f
           /\ \A q \in Requests \ {r} : req'[q] = req[q]
  BY DEF FetchesOK

LEMMA EndsOK ==
    ASSUME FetchesOK, NEW r \in Requests, Ends(r)
    PROVE  FetchesOK'
  BY IdleIsComplete, OneFetch DEF Ends

LEMMA GoesOK ==
    ASSUME FetchesOK, NEW r \in Requests,
           req[r].at \in {"waiting", "picking", "posted"},
           NEW at \in {"waiting", "picking", "posted", "served"},
           NEW h \in MaybeClient, at = "picking" => h # None,
           NEW n \in 0..MaxTries - 1, Goes(r, at, h, n)
    PROVE  /\ FetchesOK'
           /\ req'[r].by = req[r].by /\ req'[r].target = req[r].target
           /\ req'[r].mode = req[r].mode /\ req'[r].at = at
           /\ \A q \in Requests \ {r} : req'[q] = req[q]
  <1> DEFINE f == Event(at, req[r].by, req[r].mode, req[r].target, h, n)
  <1>1. /\ req[r].by \in MaybeClient /\ req[r].mode \in Modes
        /\ req[r].target \in MaybeTarget /\ at \in {"idle", "served"} \cup Busy
      BY DEF FetchesOK, Fetches, Busy
  <1>2. /\ f \in Fetches
        /\ f.at = at /\ f.by = req[r].by /\ f.mode = req[r].mode
        /\ f.target = req[r].target /\ f.host = h
      BY <1>1 DEF Event, Fetches
  <1>3. req' = [req EXCEPT ![r] = f]
      BY DEF Goes
  <1> HIDE DEF f
  <1>4. Complete(f)
    <2>1. Complete(req[r])
        BY DEF FetchesOK
    <2>2. /\ req[r].by # None /\ req[r].target # None
          /\ req[r].mode = "navigate" => req[r].by \in Docs
        BY <2>1 DEF Complete
    <2>3. /\ f.at # "looking" /\ f.at # "redirect" /\ f.by # None /\ f.target # None
          /\ f.at = "picking" => f.host # None
          /\ f.mode = "navigate" => f.by \in Docs
        BY <1>2, <2>2
    <2> QED BY <2>3 DEF Complete
  <1> QED BY <1>2, <1>3, <1>4, OneFetch

\* Where a fetch of c for t goes once its target is known.
LEMMA RouteOK ==
    ASSUME MapsOK, NEW c \in Clients, NEW mode \in Modes, NEW asks,
           NEW t \in Targets, NEW hosts \in [Targets -> Pages \cup {None}],
           mode = "navigate" => c \in Docs
    PROVE  LET f == Route(c, mode, asks, t, hosts) IN
           /\ f \in Fetches /\ Complete(f)
           /\ f.by = c /\ f.mode = mode /\ f.target = t
  <1>0. c \in MaybeClient /\ c # None /\ t \in MaybeTarget /\ t # None
      BY RoutingAssumption DEF MaybeClient, MaybeTarget, Clients
  <1>1. CASE mode = "navigate" /\ asks = None
      BY <1>0, <1>1, EventOK, FewTries DEF Route, Busy, Complete, MaybeClient
  <1>2. CASE ~(mode = "navigate" /\ asks = None) /\ hosts[t] \in ready
    <2>1. hosts[t] \in MaybeClient /\ hosts[t] # None
        BY <1>2, RoutingAssumption DEF MapsOK, Clients, MaybeClient
    <2> QED
        BY <1>0, <1>2, <2>1, EventOK, FewTries DEF Route, Busy, Complete
  <1>3. CASE ~(mode = "navigate" /\ asks = None) /\ hosts[t] \notin ready
      BY SMTT(30), <1>0, <1>3, EventOK, FewTries DEF Route, Busy, Complete, MaybeClient
  <1> QED BY <1>1, <1>2, <1>3

\* What the fetch handler makes of a request of a document.
LEMMA HandleOK ==
    ASSUME MapsOK, FetchesOK, NEW r \in Requests, NEW d \in Docs,
           NEW mode \in Modes, NEW asks \in MaybeTarget,
           NEW ref \in MaybeTarget, Handle(r, d, mode, asks, ref)
    PROVE  /\ FetchesOK'
           /\ targetOf' \in [Docs -> MaybeTarget]
           /\ req'[r].by = d /\ req'[r].mode = mode
           /\ req'[r].target =
                IF asks # None THEN asks
                ELSE IF targetOf[d] # None THEN targetOf[d] ELSE ref
           /\ \A q \in Requests \ {r} : req'[q] = req[q]
  <1> DEFINE t == IF asks # None THEN asks
                  ELSE IF targetOf[d] # None THEN targetOf[d] ELSE ref
             f == IF t # None THEN Route(d, mode, asks, t, hostOf)
                  ELSE Event("looking", d, mode, None, None, 0)
  <1>1. t \in MaybeTarget
      BY DEF MapsOK
  <1>2. /\ f \in Fetches /\ Complete(f)
        /\ f.by = d /\ f.mode = mode /\ f.target = t
    <2>1. CASE t # None
      <3>1. t \in Targets
          BY <1>1, <2>1 DEF MaybeTarget
      <3>2. d \in Clients /\ hostOf \in [Targets -> Pages \cup {None}]
          BY DEF Clients, MapsOK
      <3> QED BY <2>1, <3>1, <3>2, RouteOK
    <2>2. CASE t = None
      <3>1. d # None /\ d \in MaybeClient
            /\ None \in MaybeClient /\ None \in MaybeTarget
          BY RoutingAssumption DEF Clients, MaybeClient, MaybeTarget
      <3> QED BY <2>2, <3>1, EventOK, FewTries DEF Busy, Complete
    <2> QED BY <2>1, <2>2
  <1>3. req' = [req EXCEPT ![r] = f]
      BY DEF Handle
  <1>4. targetOf' \in [Docs -> MaybeTarget]
      BY <1>1 DEF Handle, MapsOK
  <1> HIDE DEF f
  <1>5. /\ FetchesOK' /\ req'[r] = f
        /\ \A q \in Requests \ {r} : req'[q] = req[q]
      BY <1>2, <1>3, OneFetch
  <1> QED BY <1>2, <1>4, <1>5

LEMMA ClaimsOK ==
    ASSUME MapsOK, NEW c, NEW t \in Targets
    PROVE  Claims(c, t) \in [Targets -> Pages \cup {None}]
  BY DEF Claims, MapsOK

\* The steps of the pages and of the message handler leave the fetches alone.
LEMMA MessageMaps ==
    ASSUME MapsOK, NEW p \in Pages, Message(p)
    PROVE  MapsOK'
  <1> DEFINE m == Head(mail[p])
  <1>1. m \in Messages /\ mail' \in [Pages -> Seq(Messages)]
    <2>1. mail[p] \in Seq(Messages) /\ mail[p] # <<>>
        BY DEF Message, MapsOK
    <2>2. Head(mail[p]) \in Messages /\ Tail(mail[p]) \in Seq(Messages)
        BY <2>1
    <2>3. mail' = [mail EXCEPT ![p] = Tail(mail[p])]
        BY DEF Message
    <2> QED BY <2>2, <2>3 DEF MapsOK
  <1>2. m.target \in Targets
      BY <1>1 DEF Messages
  <1>3. UNCHANGED <<life, url, named, open>>
      BY DEF Message
  <1> HIDE DEF m
  <1>4. /\ ready' \subseteq Pages /\ targetOf' = targetOf
        /\ hostOf' \in [Targets -> Pages \cup {None}]
    <2>1. CASE OnOpen(p, m.target)
        BY <1>2, <2>1 DEF OnOpen, MapsOK
    <2>2. CASE OnClose(p, m.target)
        BY <1>2, <2>2 DEF OnClose, MapsOK
    <2>3. CASE UNCHANGED swVars
        BY <2>3 DEF swVars, MapsOK
    <2> QED BY <2>1, <2>2, <2>3 DEF Message, m
  <1> QED BY <1>1, <1>3, <1>4 DEF MapsOK

LEMMA AppendMail ==
    ASSUME NEW s \in Seq(Messages), NEW m \in Messages
    PROVE  Append(s, m) \in Seq(Messages)
  OBVIOUS

LEMMA PostMaps ==
    ASSUME MapsOK, NEW p \in Pages, NEW type \in {"dc open", "dc close"},
           NEW t \in Targets, Post(p, type, t)
    PROVE  mail' \in [Pages -> Seq(Messages)]
  <1> DEFINE m == [type |-> type, target |-> t]
  <1>1. m \in Messages
      BY DEF Messages
  <1>2. mail' = [mail EXCEPT ![p] = Append(mail[p], m)]
      BY DEF Post
  <1> HIDE DEF m
  <1>3. mail[p] \in Seq(Messages)
      BY DEF MapsOK
  <1>4. Append(mail[p], m) \in Seq(Messages)
      BY <1>1, <1>3, AppendMail
  <1> QED BY <1>2, <1>4 DEF MapsOK

LEMMA PageMaps ==
    ASSUME MapsOK, NEW p \in Pages, OfPage(p) \/ Leaves(p)
    PROVE  MapsOK' /\ UNCHANGED req
  <1>1. ASSUME NEW t \in Targets, DcOpens(p, t)
        PROVE  MapsOK' /\ UNCHANGED req
    <2>1. mail' \in [Pages -> Seq(Messages)]
        BY <1>1, PostMaps DEF DcOpens
    <2> QED BY <1>1, <2>1 DEF DcOpens, MapsOK, swVars
  <1>2. ASSUME NEW t \in Targets, DcCloses(p, t)
        PROVE  MapsOK' /\ UNCHANGED req
    <2>1. mail' \in [Pages -> Seq(Messages)]
        BY <1>2, PostMaps DEF DcCloses
    <2> QED BY <1>2, <2>1 DEF DcCloses, MapsOK, swVars
  <1>3. ASSUME NEW t \in Targets, NEW type \in {"dc open", "dc close"},
               Repeats(p, type, t)
        PROVE  MapsOK' /\ UNCHANGED req
    <2>1. mail' \in [Pages -> Seq(Messages)]
        BY <1>3, PostMaps DEF Repeats
    <2> QED BY <1>3, <2>1 DEF Repeats, MapsOK, swVars
  <1>4. ASSUME NEW t \in Targets, DropsTunnel(p, t)
        PROVE  MapsOK' /\ UNCHANGED req
      BY <1>4 DEF DropsTunnel, MapsOK, swVars
  <1>5. CASE Message(p)
      BY <1>5, MessageMaps DEF Message
  <1>6. CASE Leaves(p)
      BY <1>6 DEF Leaves, MapsOK, swVars
  <1> QED BY <1>1, <1>2, <1>3, <1>4, <1>5, <1>6 DEF OfPage

\* The steps of a fetch, one by one: what becomes of it and of the maps.
LEMMA FetchStep ==
    ASSUME Typed, NEW r \in Requests, OfFetch(r)
    PROVE  Typed'
  <1> USE DEF Typed, Modes
  <1>0. MapsOK /\ FetchesOK
      OBVIOUS
  <1>1. ASSUME NEW p \in Pages, NEW t \in Targets, Probe(r, p, t)
        PROVE  Typed'
    <2> DEFINE f == Route(p, "no-cors", t, t, Claims(p, t))
    <2>1. f \in Fetches /\ Complete(f)
        BY <1>0, RouteOK, ClaimsOK DEF Clients
    <2>2. req' = [req EXCEPT ![r] = f]
        BY <1>1 DEF Probe
    <2> HIDE DEF f
    <2>3. FetchesOK'
        BY <1>0, <2>1, <2>2, OneFetch
    <2>4. MapsOK'
        BY <1>0, <1>1, ClaimsOK DEF Probe, MapsOK, pageVars
    <2> QED BY <2>3, <2>4
  <1>2. ASSUME NEW d \in Docs, NEW asks \in MaybeTarget,
               NEW ref \in MaybeTarget, Fetch(r, d, asks, ref)
        PROVE  Typed'
    <2>1. FetchesOK' /\ targetOf' \in [Docs -> MaybeTarget]
        BY <1>0, <1>2, HandleOK DEF Fetch
    <2>2. UNCHANGED <<life, url, open, mail, ready, hostOf>>
        BY <1>2 DEF Fetch, Handle, pageVars
    <2>3. named' \in [Docs -> SUBSET Targets]
        BY <1>0, <1>2 DEF Fetch, MapsOK, MaybeTarget
    <2> QED BY <1>0, <2>1, <2>2, <2>3 DEF MapsOK
  <1>3. ASSUME NEW d \in Docs, NEW asks \in MaybeTarget,
               NEW ref \in MaybeTarget, Navigate(r, d, asks, ref)
        PROVE  Typed'
    <2>1. FetchesOK' /\ targetOf' \in [Docs -> MaybeTarget]
        BY <1>0, <1>3, HandleOK DEF Navigate
    <2>2. UNCHANGED <<open, mail, ready, hostOf>>
        BY <1>3 DEF Navigate, Handle, pageVars
    <2>3. /\ named' \in [Docs -> SUBSET Targets]
          /\ url' \in [Docs -> MaybeTarget]
          /\ life' \in [Clients -> {"new", "alive", "gone"}]
        BY <1>0, <1>3 DEF Navigate, MapsOK, MaybeTarget, Clients
    <2> QED BY <1>0, <2>1, <2>2, <2>3 DEF MapsOK
  <1>4. CASE FollowRedirect(r)
    <2> DEFINE d == req[r].by
               t == req[r].target
    <2>1. /\ d \in Docs /\ t \in Targets /\ t \in MaybeTarget
          /\ None \in MaybeTarget
        BY <1>0, <1>4 DEF FollowRedirect, FetchesOK, Fetches, Complete,
                          MaybeTarget
    <2>2. /\ Handle(r, d, "navigate", t, None)
          /\ url' = [url EXCEPT ![d] = t]
          /\ named' = [named EXCEPT ![d] = @ \cup {t}]
          /\ life' = life
        BY <1>4 DEF FollowRedirect
    <2> HIDE DEF d, t
    <2>3. FetchesOK' /\ targetOf' \in [Docs -> MaybeTarget]
        BY <1>0, <2>1, <2>2, HandleOK
    <2>4. UNCHANGED <<open, mail, ready, hostOf>>
        BY <2>2 DEF Handle, pageVars
    <2>5. named' \in [Docs -> SUBSET Targets] /\ url' \in [Docs -> MaybeTarget]
        BY <1>0, <2>1, <2>2 DEF MapsOK
    <2> QED BY <1>0, <2>2, <2>3, <2>4, <2>5 DEF MapsOK
  <1>5. CASE Look(r)
    <2> DEFINE d   == req[r].by
               own == LookedUp(d)
               t   == IF own # None THEN own ELSE Single
               f   == Route(d, req[r].mode, None, t, hostOf)
    <2>1. d \in Docs /\ d \in Clients /\ req[r].mode \in Modes
        BY <1>0, <1>5 DEF Look, FetchesOK, Fetches, Complete, Clients
    <2>2. own \in MaybeTarget
        BY <1>0, <2>1 DEF LookedUp, MapsOK
    <2>3. Single \in MaybeTarget
        BY DEF Single, Hosted, MaybeTarget
    <2>4. MapsOK'
      <3>1. UNCHANGED <<life, url, named, open, mail, ready, hostOf>>
          BY <1>5 DEF Look, pageVars
      <3>2. targetOf' = IF own = None THEN targetOf
                        ELSE [targetOf EXCEPT ![d] = own]
          BY <1>5 DEF Look
      <3> HIDE DEF d, own, t, f
      <3> QED BY <1>0, <2>1, <2>2, <3>1, <3>2 DEF MapsOK
    <2>5. FetchesOK'
      <3>1. IF t = None THEN Ends(r) ELSE req' = [req EXCEPT ![r] = f]
          BY <1>5 DEF Look
      <3>2. t \in MaybeTarget
          BY <2>2, <2>3
      <3>3. CASE t = None
          BY <1>0, <3>1, <3>3, EndsOK
      <3>4. CASE t # None
        <4>1. t \in Targets /\ hostOf \in [Targets -> Pages \cup {None}]
            BY <1>0, <3>2, <3>4 DEF MaybeTarget, MapsOK
        <4> HIDE DEF d, own, t
        <4>2. f \in Fetches /\ Complete(f)
            BY <1>0, <2>1, <4>1, RouteOK
        <4> HIDE DEF f
        <4> QED BY <1>0, <3>1, <3>4, <4>2, OneFetch
      <3> QED BY <3>3, <3>4
    <2> QED BY <2>4, <2>5
  <1>6. ASSUME UNCHANGED <<life, url, named, pageVars, swVars>>, FetchesOK'
        PROVE  Typed'
      BY <1>0, <1>6 DEF MapsOK, pageVars, swVars
  <1>7. CASE Tick(r)
    <2> DEFINE h == hostOf[req[r].target]
    <2>1. req[r].at = "waiting" /\ req[r].tries \in 0..MaxTries - 1
        BY <1>0, <1>7 DEF Tick, FetchesOK, Fetches
    <2>2. CASE h \in ready
      <3>1. h \in MaybeClient /\ h # None
          BY <1>0, <2>2, RoutingAssumption DEF MapsOK, MaybeClient, Clients
      <3>2. Goes(r, "picking", h, 0)
          BY <1>7, <2>2 DEF Tick
      <3>3. FetchesOK'
          BY <1>0, <2>1, <3>1, <3>2, GoesOK, FewTries
      <3> QED BY <1>6, <1>7, <3>3 DEF Tick
    <2>3. CASE h \notin ready
      <3>1. LooksAgain(r)
          BY <1>7, <2>3 DEF Tick
      <3>2. CASE Ends(r)
          BY <1>0, <1>6, <1>7, <3>2, EndsOK DEF Tick
      <3>3. CASE /\ req[r].tries + 1 < MaxTries
                 /\ Goes(r, "waiting", None, req[r].tries + 1)
        <4>1. req[r].tries + 1 \in 0..MaxTries - 1 /\ None \in MaybeClient
            BY <2>1, <3>3, RoutingAssumption DEF MaybeClient
        <4>2. FetchesOK'
            BY <1>0, <2>1, <3>3, <4>1, GoesOK
        <4> QED BY <1>6, <1>7, <4>2 DEF Tick
      <3>4. Ends(r) \/ /\ req[r].tries + 1 < MaxTries
                       /\ Goes(r, "waiting", None, req[r].tries + 1)
          BY <2>1, <3>1, RoutingAssumption DEF LooksAgain
      <3> QED BY <3>2, <3>3, <3>4
    <2> QED BY <2>2, <2>3
  <1>8. CASE Pick(r)
    <2>1. req[r].at = "picking" /\ req[r].host \in MaybeClient
        BY <1>0, <1>8 DEF Pick, FetchesOK, Fetches
    <2>2. \E c \in MaybeClient : Goes(r, "posted", c, 0)
        BY <1>8, <2>1 DEF Pick, MaybeClient
    <2>3. FetchesOK'
        BY <1>0, <2>1, <2>2, GoesOK, FewTries
    <2> QED BY <1>6, <1>8, <2>3 DEF Pick
  <1>9. CASE Bridge(r)
    <2>1. req[r].at = "posted" /\ None \in MaybeClient
        BY <1>9 DEF Bridge, MaybeClient
    <2>2. Goes(r, "served", None, 0) \/ Ends(r)
        BY <1>9 DEF Bridge
    <2>3. FetchesOK'
        BY <1>0, <2>1, <2>2, GoesOK, EndsOK, FewTries
    <2> QED BY <1>6, <1>9, <2>3 DEF Bridge
  <1>10. CASE Timeout(r) \/ Over(r)
      BY <1>0, <1>6, <1>10, EndsOK DEF Timeout, Over
  <1> QED
      BY <1>1, <1>2, <1>3, <1>4, <1>5, <1>7, <1>8, <1>9, <1>10 DEF OfFetch

LEMMA TypedInit == Init => Typed
  BY RoutingAssumption, IdleIsComplete
     DEF Init, Typed, MapsOK, FetchesOK, Clients, MaybeTarget

LEMMA TypedNext == Typed /\ [Next]_vars => Typed'
  <1> SUFFICES ASSUME Typed, [Next]_vars
               PROVE  Typed'
      OBVIOUS
  <1>0. MapsOK /\ FetchesOK
      BY DEF Typed
  <1>1. ASSUME NEW p \in Pages, OfPage(p) \/ Leaves(p)
        PROVE  Typed'
      BY <1>0, <1>1, PageMaps DEF Typed, FetchesOK
  <1>2. ASSUME NEW r \in Requests, OfFetch(r)
        PROVE  Typed'
      BY <1>2, FetchStep
  <1>3. CASE Restart
      BY <1>0, <1>3 DEF Restart, Typed, MapsOK, FetchesOK, pageVars, MaybeTarget
  <1>4. CASE UNCHANGED vars
      BY <1>0, <1>4 DEF vars, pageVars, swVars, Typed, MapsOK, FetchesOK
  <1> QED BY <1>1, <1>2, <1>3, <1>4 DEF Next

\* The service worker's variables keep their types, and every fetch has what
\* its stage needs, for any number of tabs, targets and fetches
\* (p2p-sw.js:28-246).
THEOREM TypeCorrect == Spec => []TypeOK
  <1>1. Typed => TypeOK
      BY DEF Typed, MapsOK, FetchesOK, TypeOK
  <1> QED BY <1>1, TypedInit, TypedNext, PTL DEF Spec

----------------------------------------------------------------------------
(* The hosts are ready: inductive by itself.                               *)

LEMMA HostsInit == Init => HostsAreReady
  BY DEF Init, HostsAreReady

LEMMA HostsNext == Typed /\ HostsAreReady /\ [Next]_vars => HostsAreReady'
  <1> SUFFICES ASSUME Typed, HostsAreReady, [Next]_vars
               PROVE  HostsAreReady'
      OBVIOUS
  <1>0. /\ hostOf \in [Targets -> Pages \cup {None}]
        /\ mail \in [Pages -> Seq(Messages)]
      BY DEF Typed, MapsOK
  <1>1. CASE UNCHANGED <<ready, hostOf>>
      BY <1>1 DEF HostsAreReady
  <1>2. ASSUME NEW p \in Pages, Message(p)
        PROVE  HostsAreReady'
    <2> DEFINE m == Head(mail[p])
    <2>1. mail[p] \in Seq(Messages) /\ mail[p] # <<>>
        BY <1>0, <1>2 DEF Message
    <2>2. m \in Messages
        BY <2>1
    <2> HIDE DEF m
    <2>3. m.target \in Targets
        BY <2>2 DEF Messages
    <2>4. CASE OnOpen(p, m.target)
        BY <1>0, <2>3, <2>4 DEF OnOpen, HostsAreReady
    <2>5. CASE OnClose(p, m.target)
        BY <1>0, <2>3, <2>5, RoutingAssumption
           DEF OnClose, HostsAreReady, Hosts, Clients
    <2>6. CASE UNCHANGED swVars
        BY <2>6, <1>1 DEF swVars
    <2> QED BY <1>2, <2>4, <2>5, <2>6 DEF Message, m
  <1>3. ASSUME NEW r \in Requests, NEW p \in Pages, NEW t \in Targets,
               Probe(r, p, t)
        PROVE  HostsAreReady'
      BY <1>0, <1>3 DEF Probe, Claims, HostsAreReady
  <1>4. CASE Restart
      BY <1>4 DEF Restart, HostsAreReady
  <1>5. ASSUME NEW p \in Pages,
               \/ \E t \in Targets :
                    \/ DcOpens(p, t) \/ DcCloses(p, t) \/ DropsTunnel(p, t)
                    \/ \E type \in {"dc open", "dc close"} : Repeats(p, type, t)
               \/ Leaves(p)
        PROVE  UNCHANGED <<ready, hostOf>>
      BY <1>5 DEF DcOpens, DcCloses, DropsTunnel, Repeats, Leaves, swVars
  <1>6. ASSUME NEW r \in Requests,
               \/ \E d \in Docs, asks, ref \in MaybeTarget :
                    Fetch(r, d, asks, ref) \/ Navigate(r, d, asks, ref)
               \/ FollowRedirect(r) \/ Look(r) \/ Tick(r)
               \/ Pick(r) \/ Bridge(r) \/ Timeout(r) \/ Over(r)
        PROVE  UNCHANGED <<ready, hostOf>>
      BY <1>6 DEF Fetch, Navigate, FollowRedirect, Handle, Look, Tick, Pick,
                  Bridge, Timeout, Over, swVars
  <1>7. CASE UNCHANGED vars
      BY <1>7, <1>1 DEF vars, swVars
  <1> QED
      BY <1>1, <1>2, <1>3, <1>4, <1>5, <1>6, <1>7 DEF Next, OfPage, OfFetch

\* Whatever the pages report and probe, and in whatever order, a tab that is
\* the host of a target is known as ready (p2p-sw.js:38-53, 90-96).
THEOREM HostsStayReady == Spec => []HostsAreReady
  <1> QED BY TypedInit, TypedNext, HostsInit, HostsNext, PTL DEF Spec

----------------------------------------------------------------------------
(* No cross-routing.  While a document is navigated to it has one request, *)
(* so the redirect that gives it a URL finds no other with a guessed       *)
(* target; from then on all it is given is named.                          *)

Alone == \A r, q \in Requests :
    r # q /\ Navigating(req[r]) => req[q].by # req[r].by

Fresh(d) == life[d] = "new" =>
    /\ targetOf[d] = None /\ url[d] = None
    /\ \A r \in Requests : req[r].by # d

Own(d) == url[d] # None =>
    /\ url[d] \in named[d]
    /\ targetOf[d] # None => targetOf[d] \in named[d]
    /\ \A r \in Requests :
        req[r].by = d /\ req[r].target # None => req[r].target \in named[d]

RoutingInv == Alone /\ \A d \in Docs : Fresh(d) /\ Own(d)

LEMMA RoutingInit == Init => RoutingInv
  <1> SUFFICES ASSUME Init
               PROVE  RoutingInv
      OBVIOUS
  <1>1. \A r \in Requests : req[r] = Idle
      BY DEF Init
  <1>2. Idle.by = None /\ Idle.mode = "no-cors"
      BY DEF Idle, Event
  <1>3. \A d \in Docs : d # None
      BY RoutingAssumption DEF Clients
  <1> QED
      BY <1>1, <1>2, <1>3
         DEF Init, RoutingInv, Alone, Fresh, Own, Navigating, Clients

\* A request that is settled, or goes on with the target it has.
LEMMA RoutingSame ==
    ASSUME Typed, RoutingInv, NEW r \in Requests,
           UNCHANGED <<life, url, named, targetOf>>,
           \A q \in Requests \ {r} : req'[q] = req[q],
           \/ req'[r].by = None /\ ~Navigating(req'[r])
           \/ /\ req'[r].by = req[r].by /\ req'[r].target = req[r].target
              /\ Navigating(req'[r]) => Navigating(req[r])
    PROVE  RoutingInv'
  <1>1. \A q \in Requests : Navigating(req[q]) => req[q].by \in Docs
      BY DEF Typed, FetchesOK, Complete, Navigating
  <1>2. \A d \in Docs : d # None
      BY RoutingAssumption DEF Clients
  <1>3. Alone'
      BY <1>1, <1>2 DEF RoutingInv, Alone, Navigating
  <1>4. ASSUME NEW d \in Docs
        PROVE  Fresh(d)' /\ Own(d)'
      BY <1>2 DEF RoutingInv, Fresh, Own
  <1> QED BY <1>3, <1>4 DEF RoutingInv

\* A document has a request of its own handled or looked up.
LEMMA RoutingOf ==
    ASSUME Typed, RoutingInv, NEW r \in Requests, NEW d \in Docs,
           req'[r].by = d,
           \A q \in Requests \ {r} : req'[q] = req[q],
           \A e \in Docs \ {d} :
               /\ url'[e] = url[e] /\ named'[e] = named[e]
               /\ targetOf'[e] = targetOf[e] /\ life'[e] = life[e],
           \A q \in Requests \ {r} :
               req[q].by = d => ~Navigating(req[q]) /\ ~Navigating(req'[r]),
           life'[d] # "new",
           url'[d] # None =>
               /\ url'[d] \in named'[d]
               /\ targetOf'[d] # None => targetOf'[d] \in named'[d]
               /\ req'[r].target # None => req'[r].target \in named'[d]
               /\ \A q \in Requests \ {r} :
                   req[q].by = d /\ req[q].target # None
                     => req[q].target \in named'[d]
    PROVE  RoutingInv'
  <1>1. Alone'
      BY DEF RoutingInv, Alone, Navigating
  <1>2. Fresh(d)' /\ Own(d)'
      BY DEF Fresh, Own
  <1>3. ASSUME NEW e \in Docs \ {d}
        PROVE  Fresh(e)' /\ Own(e)'
      BY <1>3 DEF RoutingInv, Fresh, Own
  <1> QED BY <1>1, <1>2, <1>3 DEF RoutingInv

\* A request is settled, or goes on.
LEMMA RoutingEnds ==
    ASSUME Typed, RoutingInv, NEW r \in Requests, Ends(r),
           UNCHANGED <<life, url, named, targetOf>>
    PROVE  RoutingInv'
  <1>1. Idle.by = None /\ Idle.mode = "no-cors"
      BY DEF Idle, Event
  <1>2. /\ req'[r] = Idle
        /\ \A q \in Requests \ {r} : req'[q] = req[q]
      BY DEF Ends, Typed, FetchesOK
  <1> QED BY <1>1, <1>2, RoutingSame DEF Navigating

LEMMA RoutingGoes ==
    ASSUME Typed, RoutingInv, NEW r \in Requests,
           req[r].at \in {"waiting", "picking", "posted"},
           NEW at \in {"waiting", "picking", "posted", "served"},
           NEW h, NEW n, Goes(r, at, h, n),
           UNCHANGED <<life, url, named, targetOf>>
    PROVE  RoutingInv'
  <1>1. /\ req'[r].by = req[r].by /\ req'[r].target = req[r].target
        /\ req'[r].mode = req[r].mode
        /\ \A q \in Requests \ {r} : req'[q] = req[q]
      BY DEF Goes, Event, Typed, FetchesOK
  <1>2. Navigating(req'[r]) => Navigating(req[r])
      BY <1>1 DEF Navigating, Busy
  <1> QED BY <1>1, <1>2, RoutingSame

LEMMA RoutingStep ==
    ASSUME Typed, RoutingInv, NEW r \in Requests, OfFetch(r)
    PROVE  RoutingInv'
  <1> USE DEF Modes
  <1>0. MapsOK /\ FetchesOK
      BY DEF Typed
  <1>1. ASSUME NEW p \in Pages, NEW t \in Targets, Probe(r, p, t)
        PROVE  RoutingInv'
    <2>1. req' = [req EXCEPT ![r] = Route(p, "no-cors", t, t, Claims(p, t))]
        BY <1>1 DEF Probe
    <2> DEFINE f == Route(p, "no-cors", t, t, Claims(p, t))
    <2>2. f.by = p /\ f.mode = "no-cors" /\ f \in Fetches /\ Complete(f)
        BY <1>0, RouteOK, ClaimsOK DEF Clients
    <2> HIDE DEF f
    <2>3. req'[r] = f /\ \A q \in Requests \ {r} : req'[q] = req[q]
        BY <1>0, <2>1, <2>2, OneFetch DEF f
    <2>4. UNCHANGED <<life, url, named, targetOf>>
        BY <1>1 DEF Probe
    <2>5. Alone'
        BY <1>0, <2>2, <2>3, RoutingAssumption
           DEF RoutingInv, Alone, Navigating, FetchesOK, Complete
    <2>6. ASSUME NEW d \in Docs
          PROVE  Fresh(d)' /\ Own(d)'
        BY <2>2, <2>3, <2>4, RoutingAssumption DEF RoutingInv, Fresh, Own
    <2> QED BY <2>5, <2>6 DEF RoutingInv
  <1>2. ASSUME NEW d \in Docs, NEW asks \in MaybeTarget,
               NEW ref \in MaybeTarget, Fetch(r, d, asks, ref)
        PROVE  RoutingInv'
    <2>1. /\ req'[r].by = d /\ req'[r].mode = "no-cors"
          /\ req'[r].target =
                IF asks # None THEN asks
                ELSE IF targetOf[d] # None THEN targetOf[d] ELSE ref
          /\ \A q \in Requests \ {r} : req'[q] = req[q]
        BY <1>0, <1>2, HandleOK DEF Fetch
    <2>2. /\ targetOf' = IF asks # None \/ targetOf[d] = None
                         THEN [targetOf EXCEPT ![d] =
                                IF asks # None THEN asks
                                ELSE IF targetOf[d] # None THEN targetOf[d]
                                ELSE ref]
                         ELSE targetOf
          /\ named' = IF None \in {asks, url[d]} THEN named
                      ELSE [named EXCEPT ![d] = @ \cup {asks}]
          /\ life' = life /\ url' = url /\ life[d] = "alive"
          /\ ref \in {None, url[d]}
        BY <1>2 DEF Fetch, Handle
    <2>3. ~Navigating(req'[r])
        BY <2>1 DEF Navigating
    <2>4. \A q \in Requests : req[q].by = d => ~Navigating(req[q])
        BY <1>2 DEF Fetch
    <2>5. Own(d)
        BY DEF RoutingInv
    <2>6. targetOf \in [Docs -> MaybeTarget] /\ named \in [Docs -> SUBSET Targets]
        BY <1>0 DEF MapsOK
    <2>7. url'[d] # None =>
               /\ url'[d] \in named'[d]
               /\ targetOf'[d] # None => targetOf'[d] \in named'[d]
               /\ req'[r].target # None => req'[r].target \in named'[d]
               /\ \A q \in Requests \ {r} :
                   req[q].by = d /\ req[q].target # None
                     => req[q].target \in named'[d]
        BY <2>1, <2>2, <2>5, <2>6 DEF Own
    <2> QED BY <2>1, <2>2, <2>3, <2>4, <2>6, <2>7, RoutingOf
  <1>3. ASSUME NEW d \in Docs, NEW asks \in MaybeTarget,
               NEW ref \in MaybeTarget, Navigate(r, d, asks, ref)
        PROVE  RoutingInv'
    <2>1. /\ req'[r].by = d
          /\ req'[r].target =
                IF asks # None THEN asks
                ELSE IF targetOf[d] # None THEN targetOf[d] ELSE ref
          /\ \A q \in Requests \ {r} : req'[q] = req[q]
        BY <1>0, <1>3, HandleOK DEF Navigate
    <2>2. /\ targetOf' = IF asks # None \/ targetOf[d] = None
                         THEN [targetOf EXCEPT ![d] =
                                IF asks # None THEN asks
                                ELSE IF targetOf[d] # None THEN targetOf[d]
                                ELSE ref]
                         ELSE targetOf
          /\ named' = [named EXCEPT ![d] = {asks} \ {None}]
          /\ life[d] = "new" /\ life' = [life EXCEPT ![d] = "alive"]
          /\ url' = [url EXCEPT ![d] = asks]
        BY <1>3 DEF Navigate, Handle
    <2>3. \A q \in Requests : req[q].by # d
        BY <2>2 DEF RoutingInv, Fresh
    <2>4. /\ targetOf \in [Docs -> MaybeTarget]
          /\ named \in [Docs -> SUBSET Targets]
          /\ url \in [Docs -> MaybeTarget] /\ d \in Clients
          /\ life \in [Clients -> {"new", "alive", "gone"}]
        BY <1>0 DEF MapsOK, Clients
    <2>5. \A e \in Docs \ {d} :
               /\ url'[e] = url[e] /\ named'[e] = named[e]
               /\ targetOf'[e] = targetOf[e] /\ life'[e] = life[e]
        BY <2>2, <2>4 DEF Clients
    <2>6. /\ life'[d] # "new" /\ url'[d] = asks
          /\ asks # None => /\ asks \in named'[d] /\ targetOf'[d] = asks
                            /\ req'[r].target = asks
        BY <2>1, <2>2, <2>4
    <2> QED BY <2>1, <2>3, <2>5, <2>6, RoutingOf
  <1>4. CASE FollowRedirect(r)
    <2> DEFINE d == req[r].by
               t == req[r].target
    <2>1. /\ d \in Docs /\ t \in Targets /\ t \in MaybeTarget /\ t # None
          /\ None \in MaybeTarget /\ Navigating(req[r])
        BY <1>0, <1>4 DEF FollowRedirect, FetchesOK, Fetches, Complete,
                          MaybeTarget, Navigating, Busy
    <2>2. /\ Handle(r, d, "navigate", t, None)
          /\ url' = [url EXCEPT ![d] = t]
          /\ named' = [named EXCEPT ![d] = @ \cup {t}]
          /\ life' = life
        BY <1>4 DEF FollowRedirect
    <2>3. \A q \in Requests \ {r} : req[q].by # d
        BY <2>1 DEF RoutingInv, Alone
    <2>4. life[d] # "new"
        BY <2>1 DEF RoutingInv, Fresh
    <2> HIDE DEF d, t
    <2>5. /\ req'[r].by = d /\ req'[r].target = t
          /\ \A q \in Requests \ {r} : req'[q] = req[q]
        BY <1>0, <2>1, <2>2, HandleOK
    <2>6. targetOf' = [targetOf EXCEPT ![d] = t]
        BY <2>1, <2>2 DEF Handle
    <2>7. /\ targetOf \in [Docs -> MaybeTarget]
          /\ named \in [Docs -> SUBSET Targets]
          /\ url \in [Docs -> MaybeTarget]
        BY <1>0 DEF MapsOK
    <2>8. /\ url'[d] = t /\ t \in named'[d] /\ targetOf'[d] = t
          /\ life'[d] # "new"
          /\ \A e \in Docs \ {d} :
               /\ url'[e] = url[e] /\ named'[e] = named[e]
               /\ targetOf'[e] = targetOf[e] /\ life'[e] = life[e]
        BY <2>1, <2>2, <2>4, <2>6, <2>7
    <2> QED BY <2>1, <2>3, <2>5, <2>8, RoutingOf
  <1>5. CASE Look(r)
    <2> DEFINE d   == req[r].by
               own == LookedUp(d)
               t   == IF own # None THEN own ELSE Single
               f   == Route(d, req[r].mode, None, t, hostOf)
    <2>1. /\ d \in Docs /\ d \in Clients /\ req[r].mode \in Modes
          /\ req[r].at = "looking"
        BY <1>0, <1>5 DEF Look, FetchesOK, Fetches, Complete, Clients
    <2>2. own = url[d] /\ own \in MaybeTarget /\ Single \in MaybeTarget
        BY <1>0, <2>1 DEF LookedUp, MapsOK, Single, Hosted, MaybeTarget
    <2>3. /\ targetOf' = IF own = None THEN targetOf
                         ELSE [targetOf EXCEPT ![d] = own]
          /\ IF t = None THEN Ends(r) ELSE req' = [req EXCEPT ![r] = f]
          /\ UNCHANGED <<life, url, named>>
        BY <1>5 DEF Look
    <2>4. CASE t = None
        BY <2>3, <2>4, RoutingEnds
    <2>5. CASE t # None
      <3>1. t \in Targets /\ hostOf \in [Targets -> Pages \cup {None}]
          BY <1>0, <2>2, <2>5 DEF MaybeTarget, MapsOK
      <3>2. Own(d) /\ life[d] # "new" /\ targetOf \in [Docs -> MaybeTarget]
          BY <1>0, <2>1 DEF RoutingInv, Fresh, MapsOK
      <3>3. own # None => t = own
          OBVIOUS
      <3>4. \A q \in Requests \ {r} :
               /\ req[q].by = d => ~Navigating(req[q])
               /\ Navigating(req[r]) => req[q].by # d
          BY DEF RoutingInv, Alone
      <3> HIDE DEF d, own, t
      <3>5. f \in Fetches /\ Complete(f)
            /\ f.by = d /\ f.mode = req[r].mode /\ f.target = t
          BY <1>0, <2>1, <3>1, RouteOK
      <3> HIDE DEF f
      <3>6. req'[r] = f /\ \A q \in Requests \ {r} : req'[q] = req[q]
          BY <1>0, <2>3, <2>5, <3>5, OneFetch
      <3>7. Navigating(req'[r]) => Navigating(req[r])
          BY <2>1, <3>5, <3>6 DEF Navigating, Busy
      <3>8. url'[d] # None =>
               /\ url'[d] \in named'[d]
               /\ targetOf'[d] # None => targetOf'[d] \in named'[d]
               /\ req'[r].target # None => req'[r].target \in named'[d]
               /\ \A q \in Requests \ {r} :
                   req[q].by = d /\ req[q].target # None
                     => req[q].target \in named'[d]
          BY <2>1, <2>2, <2>3, <3>2, <3>3, <3>5, <3>6 DEF Own
      <3> QED
          BY <2>1, <2>3, <3>2, <3>4, <3>5, <3>6, <3>7, <3>8, RoutingOf
    <2> QED BY <2>4, <2>5
  <1>6. UNCHANGED <<life, url, named, pageVars, swVars>>
          => UNCHANGED <<life, url, named, targetOf>>
      BY DEF swVars
  <1>7. CASE Tick(r)
    <2>1. \/ Ends(r)
          \/ \E at \in {"waiting", "picking"} : \E h, n : Goes(r, at, h, n)
        BY <1>7 DEF Tick, LooksAgain
    <2> QED BY <1>6, <1>7, <2>1, RoutingEnds, RoutingGoes DEF Tick
  <1>8. CASE Pick(r)
    <2>1. \E h : Goes(r, "posted", h, 0)
        BY <1>8 DEF Pick
    <2> QED BY <1>6, <1>8, <2>1, RoutingGoes DEF Pick
  <1>9. CASE Bridge(r)
      BY <1>6, <1>9, RoutingEnds, RoutingGoes DEF Bridge
  <1>10. CASE Timeout(r) \/ Over(r)
      BY <1>6, <1>10, RoutingEnds DEF Timeout, Over
  <1> QED
      BY <1>1, <1>2, <1>3, <1>4, <1>5, <1>7, <1>8, <1>9, <1>10 DEF OfFetch

LEMMA RoutingNext == Typed /\ RoutingInv /\ [Next]_vars => RoutingInv'
  <1> SUFFICES ASSUME Typed, RoutingInv, [Next]_vars
               PROVE  RoutingInv'
      OBVIOUS
  <1>1. ASSUME NEW p \in Pages, OfPage(p)
        PROVE  RoutingInv'
    <2>1. UNCHANGED <<life, url, named, targetOf, req>>
        BY <1>1 DEF OfPage, DcOpens, DcCloses, DropsTunnel, Repeats, Message,
                    OnOpen, OnClose, swVars
    <2> QED BY <2>1 DEF RoutingInv, Alone, Fresh, Own
  <1>2. ASSUME NEW p \in Pages, Leaves(p)
        PROVE  RoutingInv'
    <2>1. /\ UNCHANGED <<url, named, targetOf, req>>
          /\ \A d \in Docs : life'[d] = life[d]
        BY <1>2, RoutingAssumption DEF Leaves, swVars, Typed, MapsOK, Clients
    <2> QED BY <2>1 DEF RoutingInv, Alone, Fresh, Own
  <1>3. ASSUME NEW r \in Requests, OfFetch(r)
        PROVE  RoutingInv'
      BY <1>3, RoutingStep
  <1>4. CASE Restart
      BY <1>4 DEF Restart, RoutingInv, Alone, Fresh, Own
  <1>5. CASE UNCHANGED vars
      BY <1>5 DEF vars, swVars, RoutingInv, Alone, Fresh, Own
  <1> QED BY <1>1, <1>2, <1>3, <1>4, <1>5 DEF Next

\* No document is served through a tunnel it has not named: not after a restart
\* of the worker, not while another tunnel is the only one, not while it is
\* still being opened (p2p-sw.js:87-131, client.js:657-667).
THEOREM NeverCrossRouted == Spec => []NoCrossRouting
  <1>1. Typed /\ RoutingInv => NoCrossRouting
      BY DEF Typed, FetchesOK, Complete, RoutingInv, Own, NoCrossRouting
  <1> QED
      BY <1>1, TypedInit, TypedNext, RoutingInit, RoutingNext, PTL DEF Spec

----------------------------------------------------------------------------
(* NeverBack: every step of a busy fetch lowers its distance.              *)

\* g is what one step may make of the fetch f.
Nearer(f, g) ==
    /\ Distance(g) < Distance(f)
    /\ g.at # "idle" => g.by = f.by /\ f.target \in {None, g.target}

LEMMA DistanceOf ==
    ASSUME NEW f \in Fetches
    PROVE  /\ f.at = "looking"  => Distance(f) = MaxTries + 4
           /\ f.at = "redirect" => Distance(f) = MaxTries + 3
           /\ f.at = "waiting"  => Distance(f) = MaxTries + 2 - f.tries
           /\ f.at = "picking"  => Distance(f) = 2
           /\ f.at = "posted"   => Distance(f) = 1
           /\ f.at \in {"idle", "served"} => Distance(f) = 0
           /\ f.tries \in 0..MaxTries - 1 /\ f.at \in {"idle", "served"} \cup Busy
  <1>1. f.tries \in 0..MaxTries - 1 /\ f.at \in {"idle", "served"} \cup Busy
      BY DEF Fetches
  <1> QED BY <1>1 DEF Distance

\* An idle fetch has nothing left to do, a busy one has.
LEMMA EndsNearer ==
    ASSUME Typed, NEW r \in Requests, req[r].at \in Busy, Ends(r)
    PROVE  Nearer(req[r], req'[r])
  <1>1. req'[r] = Idle /\ req[r] \in Fetches
      BY DEF Ends, Typed, FetchesOK
  <1>2. Idle \in Fetches /\ Idle.at = "idle"
      BY IdleIsComplete DEF Idle, Event
  <1>3. Distance(Idle) = 0
      BY <1>2, DistanceOf
  <1>4. Distance(req[r]) > 0
    <2>1. req[r].tries \in 0..MaxTries - 1 /\ MaxTries \in Nat
        BY <1>1, DistanceOf, RoutingAssumption
    <2>2. CASE req[r].at = "waiting"
      <3>1. Distance(req[r]) = MaxTries + 2 - req[r].tries
          BY <1>1, <2>2, DistanceOf
      <3> QED BY <2>1, <3>1
    <2>3. CASE req[r].at \in {"looking", "redirect"}
      <3>1. Distance(req[r]) \in {MaxTries + 3, MaxTries + 4}
          BY <1>1, <2>3, DistanceOf
      <3> QED BY <2>1, <3>1
    <2>4. CASE req[r].at \in {"picking", "posted"}
        BY <1>1, <2>4, DistanceOf
    <2> QED BY <2>2, <2>3, <2>4 DEF Busy
  <1> QED BY <1>1, <1>2, <1>3, <1>4 DEF Nearer

\* A fetch that goes on takes its client and its target along.
LEMMA GoesNearer ==
    ASSUME Typed, NEW r \in Requests,
           NEW at \in {"waiting", "picking", "posted", "served"},
           NEW h \in MaybeClient, NEW n \in 0..MaxTries - 1, Goes(r, at, h, n),
           \/ req[r].at = "waiting" /\ at = "waiting" /\ n = req[r].tries + 1
           \/ req[r].at = "waiting" /\ at = "picking"
           \/ req[r].at = "picking" /\ at = "posted"
           \/ req[r].at = "posted" /\ at = "served"
    PROVE  Nearer(req[r], req'[r])
  <1> DEFINE f == Event(at, req[r].by, req[r].mode, req[r].target, h, n)
  <1>1. /\ req[r] \in Fetches
        /\ req[r].by \in MaybeClient /\ req[r].mode \in Modes
        /\ req[r].target \in MaybeTarget /\ at \in {"idle", "served"} \cup Busy
      BY DEF Typed, FetchesOK, Fetches, Busy
  <1>2. /\ f \in Fetches /\ f.at = at /\ f.by = req[r].by
        /\ f.target = req[r].target /\ f.tries = n
      BY <1>1 DEF Event, Fetches
  <1>3. req'[r] = f
      BY DEF Goes, Typed, FetchesOK
  <1> HIDE DEF f
  <1>4. Distance(f) < Distance(req[r])
    <2>1. CASE at = "waiting"
        BY <1>1, <1>2, <2>1, DistanceOf, RoutingAssumption
    <2>2. CASE at = "picking"
        BY <1>1, <1>2, <2>2, DistanceOf, RoutingAssumption
    <2>3. CASE at \in {"posted", "served"}
        BY <1>1, <1>2, <2>3, DistanceOf
    <2> QED BY <2>1, <2>2, <2>3
  <1> QED BY <1>2, <1>3, <1>4 DEF Nearer

\* Once its target is known a fetch is redirected once, then looks for a tab.
LEMMA RouteNearer ==
    ASSUME MapsOK, NEW c \in Clients, NEW mode \in Modes, NEW asks,
           NEW t \in Targets, NEW hosts \in [Targets -> Pages \cup {None}],
           mode = "navigate" => c \in Docs
    PROVE  LET f == Route(c, mode, asks, t, hosts) IN
           /\ Distance(f) \in Nat /\ Distance(f) < MaxTries + 4
           /\ asks # None => Distance(f) < MaxTries + 3
  <1> DEFINE f == Route(c, mode, asks, t, hosts)
  <1>1. f \in Fetches
      BY RouteOK
  <1>2. \/ f.at = "redirect" /\ asks = None
        \/ f.at = "picking"
        \/ f.at = "waiting" /\ f.tries = 1
      BY DEF Route, Event
  <1> HIDE DEF f
  <1>3. /\ Distance(f) \in Nat /\ Distance(f) < MaxTries + 4
        /\ asks # None => Distance(f) < MaxTries + 3
    <2>1. CASE f.at = "redirect" /\ asks = None
      <3>1. Distance(f) = MaxTries + 3
          BY <1>1, <2>1, DistanceOf
      <3> QED BY <2>1, <3>1, RoutingAssumption
    <2>2. CASE f.at = "picking"
      <3>1. Distance(f) = 2
          BY <1>1, <2>2, DistanceOf
      <3> QED BY <3>1, RoutingAssumption
    <2>3. CASE f.at = "waiting" /\ f.tries = 1
      <3>1. Distance(f) = MaxTries + 2 - 1
          BY <1>1, <2>3, DistanceOf
      <3> QED BY <3>1, RoutingAssumption
    <2> QED BY <1>2, <2>1, <2>2, <2>3
  <1> QED BY <1>3 DEF f

LEMMA NearerStep ==
    ASSUME Typed, NEW q \in Requests, OfFetch(q), NEW r \in Requests,
           req[r].at \in Busy, req'[r] # req[r]
    PROVE  Nearer(req[r], req'[r])
  <1> USE DEF Typed
  <1>0. MapsOK /\ FetchesOK /\ req[r] \in Fetches
      BY DEF FetchesOK
  \* A fetch that is idle or served is not the busy one.
  <1>1. ASSUME NEW p \in Pages, NEW t \in Targets, Probe(q, p, t) PROVE FALSE
      BY <1>0, <1>1 DEF Probe, Busy, FetchesOK
  <1>2. ASSUME NEW d \in Docs, NEW asks \in MaybeTarget, NEW ref \in MaybeTarget,
               Fetch(q, d, asks, ref) \/ Navigate(q, d, asks, ref)
        PROVE  FALSE
    <2>1. req[q].at = "idle" /\ \E mode \in Modes : Handle(q, d, mode, asks, ref)
        BY <1>2 DEF Fetch, Navigate, Modes
    <2>2. \A s \in Requests \ {q} : req'[s] = req[s]
        BY <1>0, <2>1 DEF Handle, FetchesOK
    <2> QED BY <2>1, <2>2 DEF Busy
  <1>3. CASE Over(q)
      BY <1>0, <1>3 DEF Over, Ends, Busy, FetchesOK
  <1>4. CASE FollowRedirect(q)
    <2> DEFINE d == req[q].by
               t == req[q].target
    <2>1. d \in Docs /\ t \in Targets /\ t # None /\ d \in Clients
        BY <1>0, <1>4 DEF FollowRedirect, FetchesOK, Fetches, Complete,
                          MaybeTarget, Clients
    <2>2. req[q].at = "redirect" /\ Handle(q, d, "navigate", t, None)
        BY <1>4 DEF FollowRedirect
    <2> HIDE DEF d, t
    <2>3. req' = [req EXCEPT ![q] = Route(d, "navigate", t, t, hostOf)]
        BY <2>1, <2>2 DEF Handle
    <2>4. q = r /\ req'[r] = Route(d, "navigate", t, t, hostOf)
        BY <1>0, <2>3 DEF FetchesOK
    <2>5. req'[r].by = d /\ req'[r].target = t
        BY <1>0, <2>1, <2>4, RouteOK DEF Modes, MapsOK
    <2>6. Distance(req'[r]) \in Nat /\ Distance(req'[r]) < MaxTries + 3
        BY <1>0, <2>1, <2>4, RouteNearer DEF Modes, MapsOK
    <2>7. Distance(req[r]) = MaxTries + 3
        BY <1>0, <2>2, <2>4, DistanceOf
    <2> QED BY <2>4, <2>5, <2>6, <2>7 DEF Nearer, d, t
  <1>5. CASE Look(q)
    <2> DEFINE d   == req[q].by
               own == LookedUp(d)
               t   == IF own # None THEN own ELSE Single
               f   == Route(d, req[q].mode, None, t, hostOf)
    <2>1. /\ d \in Docs /\ d \in Clients /\ req[q].mode \in Modes
          /\ req[q].at = "looking"
        BY <1>0, <1>5 DEF Look, FetchesOK, Fetches, Complete, Clients
    <2>2. t \in MaybeTarget
        BY <1>0, <2>1 DEF LookedUp, MapsOK, Single, Hosted, MaybeTarget
    <2>3. IF t = None THEN Ends(q) ELSE req' = [req EXCEPT ![q] = f]
        BY <1>5 DEF Look
    <2>4. q = r
        BY <1>0, <2>3 DEF Ends, FetchesOK
    <2>5. CASE t = None
        BY <2>3, <2>4, <2>5, EndsNearer
    <2>6. CASE t # None
      <3> HIDE DEF d, own, t
      <3>1. t \in Targets /\ hostOf \in [Targets -> Pages \cup {None}]
          BY <1>0, <2>2, <2>6 DEF MaybeTarget, MapsOK
      <3>2. f.by = d /\ f.target = t
          BY <1>0, <2>1, <3>1, RouteOK
      <3>3. Distance(f) \in Nat /\ Distance(f) < MaxTries + 4
          BY <1>0, <2>1, <3>1, RouteNearer
      <3> HIDE DEF f
      <3>4. req'[r] = f /\ Distance(req[r]) = MaxTries + 4
          BY <1>0, <2>1, <2>3, <2>4, <2>6, DistanceOf DEF FetchesOK
      \* A fetch whose client is looked up has no target yet.
      <3>5. req[r].target = None
          BY <1>0, <2>1, <2>4 DEF FetchesOK, Complete
      <3> QED BY <2>4, <3>2, <3>3, <3>4, <3>5 DEF Nearer, d
    <2> QED BY <2>5, <2>6
  <1>6. CASE Tick(q)
    <2> DEFINE h == hostOf[req[q].target]
    <2>1. req[q].at = "waiting" /\ req[q].tries \in 0..MaxTries - 1
        BY <1>0, <1>6 DEF Tick, FetchesOK, Fetches
    <2>2. q = r
        BY <1>0, <1>6 DEF Tick, LooksAgain, Goes, Ends, FetchesOK
    <2>3. CASE h \in ready
      <3>1. h \in MaybeClient /\ Goes(q, "picking", h, 0)
          BY <1>0, <1>6, <2>3 DEF Tick, MapsOK, MaybeClient, Clients
      <3> QED BY <2>1, <2>2, <3>1, GoesNearer, FewTries
    <2>4. CASE h \notin ready
      <3>1. \/ Ends(q)
            \/ req[q].tries + 1 < MaxTries /\ Goes(q, "waiting", None, req[q].tries + 1)
          BY <1>6, <2>1, <2>4, RoutingAssumption DEF Tick, LooksAgain
      <3>2. CASE Ends(q)
          BY <2>2, <3>2, EndsNearer
      <3>3. CASE req[q].tries + 1 < MaxTries /\ Goes(q, "waiting", None, req[q].tries + 1)
        <4>1. req[q].tries + 1 \in 0..MaxTries - 1 /\ None \in MaybeClient
            BY <2>1, <3>3, RoutingAssumption DEF MaybeClient
        <4> QED BY <2>1, <2>2, <3>3, <4>1, GoesNearer
      <3> QED BY <3>1, <3>2, <3>3
    <2> QED BY <2>3, <2>4
  <1>7. CASE Pick(q)
    <2>1. q = r
        BY <1>0, <1>7 DEF Pick, Goes, FetchesOK
    <2>2. PICK h \in MaybeClient : Goes(q, "posted", h, 0)
      <3>1. req[q].host \in MaybeClient /\ None \in MaybeClient
          BY <1>0 DEF FetchesOK, Fetches, MaybeClient
      <3> QED BY <1>7, <3>1 DEF Pick, MaybeClient
    <2>3. req[q].at = "picking"
        BY <1>7 DEF Pick
    <2> QED BY <2>1, <2>2, <2>3, GoesNearer, FewTries
  <1>8. CASE Bridge(q)
    <2>1. q = r /\ req[q].at = "posted" /\ None \in MaybeClient
        BY <1>0, <1>8 DEF Bridge, Goes, Ends, FetchesOK, MaybeClient
    <2>2. Ends(q) \/ Goes(q, "served", None, 0)
        BY <1>8 DEF Bridge
    <2> QED BY <2>1, <2>2, EndsNearer, GoesNearer, FewTries
  <1>9. CASE Timeout(q)
    <2>1. q = r /\ Ends(q)
        BY <1>0, <1>9 DEF Timeout, Ends, FetchesOK
    <2> QED BY <2>1, EndsNearer
  <1> QED BY <1>1, <1>2, <1>3, <1>4, <1>5, <1>6, <1>7, <1>8, <1>9 DEF OfFetch

LEMMA NearerNext ==
    ASSUME Typed, [Next]_vars, NEW r \in Requests,
           req[r].at \in Busy, req'[r] # req[r]
    PROVE  Nearer(req[r], req'[r])
  <1>1. ASSUME NEW p \in Pages, OfPage(p) \/ Leaves(p)
        PROVE  FALSE
      BY <1>1, PageMaps DEF Typed
  <1>2. CASE Restart \/ UNCHANGED vars
      BY <1>2 DEF Restart, vars
  <1> QED BY <1>1, <1>2, NearerStep DEF Next

\* Each step of a fetch brings it nearer to its answer, with its client and its
\* target (p2p-sw.js:87-131, 158-171, 215-231).
THEOREM FetchesGoForward == Spec => NeverBack
  <1>1. Typed /\ [Next]_vars =>
          [\A r \in Requests : req[r].at \in Busy /\ req'[r] # req[r] =>
              /\ Distance(req'[r]) < Distance(req[r])
              /\ req'[r].at # "idle" =>
                    req'[r].by = req[r].by
                      /\ req[r].target \in {None, req'[r].target}]_vars
      BY NearerNext DEF Nearer
  <1> QED BY <1>1, TypedInit, TypedNext, PTL DEF Spec, NeverBack
=============================================================================
