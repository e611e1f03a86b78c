------------------------ MODULE PeerLifecycleProofs ------------------------
(***************************************************************************)
(* Proofs about PeerLifecycle.tla, for any number of connections, any      *)
(* capacities and any number of candidates.                                *)
(***************************************************************************)
EXTENDS PeerLifecycle, HubProofs, FiniteSetTheorems

----------------------------------------------------------------------------
(* The WebRTC layer uses the hub only as the hub's environment may.        *)

LEMMA InitIsHub == Init => HubInit
  BY DEF Init

LEMMA HandleIsHub ==
    ASSUME NEW p \in Peers, Handle(p)
    PROVE  [HubNext]_hubVars
  <1>1. CASE SendOffer(p)
      BY <1>1, LifecycleAssumption DEF SendOffer, HubNext
  <1>2. CASE SendOfferPanics(p)
      BY <1>2 DEF SendOfferPanics, HubNext, Opening
  <1>3. CASE Pumps(p)
    <2>1. PICK ok \in BOOLEAN : StartPumps(p, ok)
        BY <1>3 DEF Pumps
    <2> QED BY <2>1 DEF HubNext, Opening
  <1>4. CASE Create(p) \/ CreateFails(p) \/ OfferFails(p) \/ SetLocalDescription(p)
             \/ StartLoop(p) \/ AddPeer(p) \/ SetTarget(p)
      BY <1>4 DEF Create, CreateFails, OfferFails, SetLocalDescription,
                  StartLoop, AddPeer, SetTarget
  <1> QED BY <1>1, <1>2, <1>3, <1>4 DEF Handle

LEMMA CloseIsHub ==
    ASSUME NEW p \in Peers, NEW t \in Threads, Close(p, t)
    PROVE  [HubNext]_hubVars
  <1>1. CASE CloseSig(p, t)
      BY <1>1 DEF CloseSig, HubNext
  <1>2. CASE CloseInbox(p, t) \/ ClosePC(p, t) \/ RemovePeer(p, t)
      BY <1>2 DEF CloseInbox, ClosePC, RemovePeer
  <1> QED BY <1>1, <1>2 DEF Close

LEMMA StepIsHub == [Next]_vars => [HubNext]_hubVars
  <1> SUFFICES ASSUME [Next]_vars PROVE [HubNext]_hubVars
      OBVIOUS
  <1>1. CASE UNCHANGED vars
      BY <1>1 DEF vars
  <1>2. ASSUME NEW p \in Peers, Handle(p) PROVE [HubNext]_hubVars
      BY <1>2, HandleIsHub
  <1>3. ASSUME NEW p \in Peers, Loop(p) PROVE [HubNext]_hubVars
      BY <1>3 DEF Loop, LoopReceives, LoopEnds
  <1>4. ASSUME NEW p \in Peers, HubWorks(p) PROVE [HubNext]_hubVars
      BY <1>4 DEF HubWorks, HubNext
  <1>5. ASSUME NEW p \in Peers, HubOpens(p) PROVE [HubNext]_hubVars
      BY <1>5 DEF HubOpens, HubNext
  <1>6. ASSUME NEW p \in Peers, NEW t \in Threads, Close(p, t) PROVE [HubNext]_hubVars
      BY <1>6, CloseIsHub
  <1>7. ASSUME NEW p \in Peers, Candidate(p) PROVE [HubNext]_hubVars
      BY <1>7, LifecycleAssumption DEF Candidate, HubNext
  <1>8. ASSUME NEW p \in Peers, Connect(p) PROVE [HubNext]_hubVars
      BY <1>8 DEF Connect
  <1>9. ASSUME NEW p \in Peers, NEW s \in Lost, LoseConnection(p, s) PROVE [HubNext]_hubVars
      BY <1>9 DEF LoseConnection
  <1>10. ASSUME NEW p \in Peers, Deliver(p) PROVE [HubNext]_hubVars
      BY <1>10 DEF Deliver, HubNext
  <1>11. ASSUME NEW p \in Peers, ReadMessage(p) PROVE [HubNext]_hubVars
      BY <1>11 DEF ReadMessage, HubNext
  <1>12. ASSUME NEW p \in Peers, NEW m \in Inputs, BrowserSends(p, m) PROVE [HubNext]_hubVars
      BY <1>12 DEF BrowserSends
  <1> QED BY <1>1, <1>2, <1>3, <1>4, <1>5, <1>6, <1>7, <1>8, <1>9, <1>10, <1>11, <1>12
          DEF Next

\* Every behaviour of the composition is one of the hub's: the WebRTC layer
\* does to it what Hub.tla lets its environment do, and nothing else.
THEOREM ImplementsHub == Spec => HubSpec
  BY InitIsHub, StepIsHub, PTL DEF Spec, HubSpec

\* So what is proved of the hub holds in the gateway (hub.go:163, 192-200).
THEOREM GatewayLeavesNothing == Spec => []NothingLeftBehind
  BY ImplementsHub, NothingStays, PTL

----------------------------------------------------------------------------
(* Types.                                                                  *)

LEMMA HubInvHolds == Spec => []HubInv
  BY ImplementsHub, HubInvariant, PTL

Places == {"idle", "running", "call", "closing pc", "closing signaling",
           "remove", "done"}

LEMMA InitTypes == Init => TypeOK
  <1>1. HubInit => HubTypeOK
      BY HubInitInv DEF HubInv
  <1> SUFFICES ASSUME Init PROVE TypeOK
      OBVIOUS
  <1>2. at \in [Peers -> [Threads -> Places]]
    <2>1. at = [p \in Peers |-> [t \in Threads |-> "idle"]]
        BY DEF Init
    <2>2. [t \in Threads |-> "idle"] \in [Threads -> Places]
        BY DEF Places
    <2> QED BY <2>1, <2>2
  <1>3. loopInbox \in [Peers -> Seq(Inputs)] /\ toHub \in [Peers -> Seq(Inputs)]
    <2>1. <<>> \in Seq(Inputs)
        OBVIOUS
    <2>2. loopInbox = [p \in Peers |-> <<>>] /\ toHub = [p \in Peers |-> <<>>]
        BY DEF Init
    <2> QED BY <2>1, <2>2
  <1>4. /\ setup = [p \in Peers |-> "none"] /\ pcs = [p \in Peers |-> "none"]
        /\ remote = [p \in Peers |-> FALSE] /\ gathered = [p \in Peers |-> 0]
        /\ dc = [p \in Peers |-> "none"] /\ peers = {}
        /\ target = [p \in Peers |-> ""] /\ inboxClosed = [p \in Peers |-> FALSE]
        /\ page = [p \in Peers |-> {}] /\ sent = [p \in Peers |-> {}]
        /\ fault = "none" /\ HubInit
      BY DEF Init
  <1>5. gathered \in [Peers -> 0 .. MaxCandidates]
    <2>1. 0 \in 0 .. MaxCandidates
        BY LifecycleAssumption
    <2> QED BY <1>4, <2>1
  <1>6. page \in [Peers -> SUBSET Messages] /\ sent \in [Peers -> SUBSET Inputs]
      BY <1>4
  <1>7. HubTypeOK
      BY <1>1, <1>4
  <1>8. /\ setup \in [Peers -> {"none", "unwired", "wired", "failed", "local", "offered",
                               "looping", "added", "ready"}]
        /\ pcs \in [Peers -> {"none", "new", "connected"} \cup Lost]
        /\ remote \in [Peers -> BOOLEAN] /\ dc \in [Peers -> {"none", "open", "closed"}]
        /\ target \in [Peers -> {"", "resolved", "switched"}]
        /\ inboxClosed \in [Peers -> BOOLEAN]
      BY <1>4
  <1> QED BY <1>2, <1>3, <1>4, <1>5, <1>6, <1>7, <1>8 DEF TypeOK, Places

LEMMA ChangeStateTypes ==
    ASSUME TypeOK, NEW p \in Peers, NEW s \in {"new", "closed", "disconnected", "failed"},
           ChangeState(p, s)
    PROVE  /\ pcs' \in [Peers -> {"none", "new", "connected"} \cup Lost]
           /\ dc' \in [Peers -> {"none", "open", "closed"}]
  BY DEF TypeOK, ChangeState, Lost

LEMMA AtTypes ==
    ASSUME TypeOK, NEW p \in Peers, NEW t \in Threads, NEW to \in Places
    PROVE  /\ [at EXCEPT ![p][t] = to] \in [Peers -> [Threads -> Places]]
           /\ Handler(p, t) \in [Peers -> [Threads -> Places]]
           /\ \A h \in [Peers -> [Threads -> Places]] :
                  [h EXCEPT ![p][t] = to] \in [Peers -> [Threads -> Places]]
  BY DEF TypeOK, Handler, Places

LEMMA HandleTypes ==
    ASSUME TypeOK, HubTypeOK', NEW p \in Peers, Handle(p),
           setup[p] \in {"offered", "looping"} => p \in Connectable
    PROVE  TypeOK'
  <1>1. CASE Create(p)
      BY <1>1, ChangeStateTypes DEF Create, Setup, TypeOK, loopVars, webVars
  <1>2. CASE CreateFails(p)
      BY <1>2 DEF CreateFails, Setup, TypeOK, pcVars, loopVars, webVars
  <1>3. CASE OfferFails(p)
    <2>1. at' \in [Peers -> [Threads -> Places]]
      <3>1. Handler(p, "closed") \in [Peers -> [Threads -> Places]]
          BY AtTypes DEF Threads, Lost, Places
      <3> QED BY <1>3, <3>1 DEF OfferFails, TypeOK, Places
    <2> QED BY <1>3, <2>1, ChangeStateTypes DEF OfferFails, Setup, TypeOK, webVars, Places
  <1>4. CASE SetLocalDescription(p)
      BY <1>4 DEF SetLocalDescription, Setup, TypeOK, pcVars, loopVars, webVars
  <1>5. CASE SendOffer(p)
      BY <1>5 DEF SendOffer, Setup, TypeOK, pcVars, loopVars, webVars
  <1>6. CASE SendOfferPanics(p) \/ Pumps(p)
      BY <1>6 DEF SendOfferPanics, Pumps, TypeOK, rtcVars, mgrVars, pcVars,
                  loopVars, webVars
  <1>7. CASE StartLoop(p)
    <2>1. at' \in [Peers -> [Threads -> Places]]
        BY <1>7, AtTypes DEF StartLoop, Step, Threads, Places
    <2> QED BY <1>7, <2>1 DEF StartLoop, Setup, TypeOK, pcVars, webVars, Places
  <1>8. CASE AddPeer(p)
      BY <1>8 DEF AddPeer, Setup, TypeOK, pcVars, loopVars, webVars
  <1>9. CASE SetTarget(p)
      BY <1>9 DEF SetTarget, Setup, TypeOK, pcVars, loopVars, webVars
  <1> QED BY <1>1, <1>2, <1>3, <1>4, <1>5, <1>6, <1>7, <1>8, <1>9 DEF Handle

LEMMA CloseTypes ==
    ASSUME TypeOK, HubTypeOK', NEW p \in Peers, NEW t \in Threads, Close(p, t)
    PROVE  TypeOK'
  <1>1. CASE CloseInbox(p, t)
    <2>1. at' \in [Peers -> [Threads -> Places]]
        BY <1>1, AtTypes DEF CloseInbox, Step, Return, Places
    <2> QED BY <1>1, <2>1 DEF CloseInbox, TypeOK, mgrVars, pcVars, webVars, Places
  <1>2. CASE ClosePC(p, t)
    <2>1. Handler(p, "closed") \in [Peers -> [Threads -> Places]]
        BY AtTypes DEF Threads, Lost, Places
    <2>2. at' \in [Peers -> [Threads -> Places]]
        BY <1>2, <2>1, AtTypes DEF ClosePC, Places
    <2> QED BY <1>2, <2>2, ChangeStateTypes
            DEF ClosePC, TypeOK, mgrVars, webVars, Places
  <1>3. CASE CloseSig(p, t)
    <2>1. at' \in [Peers -> [Threads -> Places]]
        BY <1>3, AtTypes DEF CloseSig, Step, Return, Places
    <2> QED BY <1>3, <2>1 DEF CloseSig, TypeOK, mgrVars, pcVars, webVars, Places
  <1>4. CASE RemovePeer(p, t)
    <2>1. at' \in [Peers -> [Threads -> Places]]
        BY <1>4, AtTypes DEF RemovePeer, Step, Places
    <2> QED BY <1>4, <2>1 DEF RemovePeer, TypeOK, pcVars, webVars, Places
  <1> QED BY <1>1, <1>2, <1>3, <1>4 DEF Close

LEMMA StepTypes ==
    ASSUME TypeOK, HubTypeOK', Next,
           \A p \in Peers : setup[p] \in {"offered", "looping"} => p \in Connectable
    PROVE  TypeOK'
  <1>2. ASSUME NEW p \in Peers, Handle(p) PROVE TypeOK'
      BY <1>2, HandleTypes
  <1>3. ASSUME NEW p \in Peers, LoopReceives(p) PROVE TypeOK'
    <2>0. loopInbox[p] \in Seq(Inputs) /\ loopInbox[p] # <<>>
        BY <1>3 DEF LoopReceives, TypeOK
    <2>1. Tail(loopInbox[p]) \in Seq(Inputs)
        BY <2>0
    <2> QED BY <1>3, <2>1 DEF LoopReceives, TypeOK, webVars
  <1>4. ASSUME NEW p \in Peers, LoopEnds(p) PROVE TypeOK'
    <2>1. at' \in [Peers -> [Threads -> Places]]
        BY <1>4, AtTypes DEF LoopEnds, Step, Threads, Places
    <2> QED BY <1>4, <2>1 DEF LoopEnds, TypeOK, mgrVars, pcVars, webVars, Places
  <1>5. ASSUME NEW p \in Peers, HubWorks(p) \/ HubOpens(p) PROVE TypeOK'
      BY <1>5 DEF HubWorks, HubOpens, TypeOK, rtcVars, mgrVars, pcVars, loopVars, webVars
  <1>6. ASSUME NEW p \in Peers, NEW t \in Threads, Close(p, t) PROVE TypeOK'
      BY <1>6, CloseTypes
  <1>7. ASSUME NEW p \in Peers, Candidate(p) PROVE TypeOK'
    <2>1. gathered' \in [Peers -> 0 .. MaxCandidates]
      <3>1. /\ gathered' = [gathered EXCEPT ![p] = @ + 1]
            /\ gathered \in [Peers -> 0 .. MaxCandidates]
            /\ gathered[p] < MaxCandidates
          BY <1>7 DEF Candidate, TypeOK
      <3>2. gathered[p] + 1 \in 0 .. MaxCandidates
          BY <3>1, LifecycleAssumption
      <3> QED BY <3>1, <3>2
    <2>2. fault' \in {"none", "send on closed Send"}
        BY <1>7 DEF Candidate, TypeOK
    <2> QED BY <1>7, <2>1, <2>2 DEF Candidate, TypeOK, mgrVars, loopVars, webVars
  <1>8. ASSUME NEW p \in Peers, Connect(p) PROVE TypeOK'
      BY <1>8 DEF Connect, TypeOK, mgrVars, loopVars, webVars
  <1>9. ASSUME NEW p \in Peers, NEW s \in Lost, LoseConnection(p, s) PROVE TypeOK'
    <2>1. at' \in [Peers -> [Threads -> Places]]
        BY <1>9, AtTypes DEF LoseConnection, Threads, Places
    <2>2. s \in {"new", "closed", "disconnected", "failed"}
        BY DEF Lost
    <2> QED BY <1>9, <2>1, <2>2, ChangeStateTypes
            DEF LoseConnection, TypeOK, mgrVars, webVars, Places
  <1>10. ASSUME NEW p \in Peers, Deliver(p) PROVE TypeOK'
    <2>0. send[p] \in Seq(Messages) /\ send[p] # <<>>
        BY <1>10 DEF Deliver, Write, TypeOK, HubTypeOK
    <2>1. Head(send[p]) \in Messages
        BY <2>0
    <2> QED BY <1>10, <2>1 DEF Deliver, TypeOK, mgrVars, pcVars, loopVars
  <1>11. ASSUME NEW p \in Peers, ReadMessage(p) PROVE TypeOK'
    <2>0. /\ toHub[p] \in Seq(Inputs) /\ toHub[p] # <<>>
          /\ loopInbox[p] \in Seq(Inputs)
        BY <1>11 DEF ReadMessage, TypeOK
    <2>1. /\ Tail(toHub[p]) \in Seq(Inputs)
          /\ Append(loopInbox[p], Head(toHub[p])) \in Seq(Inputs)
        BY <2>0
    <2>2. loopInbox' \in [Peers -> Seq(Inputs)] /\ toHub' \in [Peers -> Seq(Inputs)]
        BY <1>11, <2>1 DEF ReadMessage, TypeOK
    <2> QED BY <1>11, <2>2 DEF ReadMessage, TypeOK, mgrVars, pcVars
  <1>12. ASSUME NEW p \in Peers, NEW m \in Inputs, BrowserSends(p, m) PROVE TypeOK'
    <2>0. toHub[p] \in Seq(Inputs)
        BY DEF TypeOK
    <2>1. Append(toHub[p], m) \in Seq(Inputs)
        BY <2>0
    <2>2. toHub' \in [Peers -> Seq(Inputs)] /\ sent' \in [Peers -> SUBSET Inputs]
        BY <1>12, <2>1 DEF BrowserSends, TypeOK
    <2> QED BY <1>12, <2>2 DEF BrowserSends, TypeOK, mgrVars, pcVars, loopVars
  <1> QED BY <1>2, <1>3, <1>4, <1>5, <1>6, <1>7, <1>8, <1>9, <1>10, <1>11, <1>12
          DEF Next, Loop

----------------------------------------------------------------------------
(* Queues.                                                                 *)

Has(s, m) == \E i \in 1 .. Len(s) : s[i] = m

\* Nothing the browser has to answer stands before the first "join".
JoinLeads(s) ==
    \A i \in 1 .. Len(s) :
        s[i] \in {"offer", "candidate"} => \E j \in 1 .. (i - 1) : s[j] = "join"

LEMMA HasAppend ==
    ASSUME NEW S, NEW s \in Seq(S), NEW m \in S, NEW x
    PROVE  Has(Append(s, m), x) <=> (Has(s, x) \/ m = x)
  <1>1. /\ Len(Append(s, m)) = Len(s) + 1 /\ Len(s) \in Nat
        /\ \A i \in 1 .. Len(s) : Append(s, m)[i] = s[i]
        /\ Append(s, m)[Len(s) + 1] = m
      OBVIOUS
  <1> QED BY <1>1 DEF Has

LEMMA HasTail ==
    ASSUME NEW S, NEW s \in Seq(S), s # <<>>, NEW x
    PROVE  Has(s, x) <=> (Has(Tail(s), x) \/ Head(s) = x)
  <1>1. /\ Len(s) \in Nat \ {0} /\ Len(Tail(s)) = Len(s) - 1
        /\ \A i \in 1 .. Len(Tail(s)) : Tail(s)[i] = s[i + 1]
        /\ Head(s) = s[1]
      OBVIOUS
  <1>2. ASSUME Has(s, x) PROVE Has(Tail(s), x) \/ Head(s) = x
    <2>1. PICK i \in 1 .. Len(s) : s[i] = x
        BY <1>2 DEF Has
    <2>2. CASE i = 1
        BY <1>1, <2>1, <2>2
    <2>3. CASE i # 1
      <3>1. i - 1 \in 1 .. Len(Tail(s)) /\ Tail(s)[i - 1] = x
          BY <1>1, <2>1, <2>3
      <3> QED BY <3>1 DEF Has
    <2> QED BY <2>2, <2>3
  <1>3. ASSUME Has(Tail(s), x) PROVE Has(s, x)
    <2>1. PICK i \in 1 .. Len(Tail(s)) : Tail(s)[i] = x
        BY <1>3 DEF Has
    <2>2. i + 1 \in 1 .. Len(s) /\ s[i + 1] = x
        BY <1>1, <2>1
    <2> QED BY <2>2 DEF Has
  <1>4. Head(s) = x => Has(s, x)
      BY <1>1 DEF Has
  <1> QED BY <1>2, <1>3, <1>4

LEMMA JoinLeadsAppend ==
    ASSUME NEW S, NEW s \in Seq(S), NEW m \in S, JoinLeads(s),
           m \in {"offer", "candidate"} => Has(s, "join")
    PROVE  JoinLeads(Append(s, m))
  <1>1. /\ Len(Append(s, m)) = Len(s) + 1 /\ Len(s) \in Nat
        /\ \A i \in 1 .. Len(s) : Append(s, m)[i] = s[i]
        /\ Append(s, m)[Len(s) + 1] = m
      OBVIOUS
  <1>2. SUFFICES ASSUME NEW i \in 1 .. (Len(s) + 1),
                        Append(s, m)[i] \in {"offer", "candidate"}
                 PROVE  \E j \in 1 .. (i - 1) : Append(s, m)[j] = "join"
      BY <1>1 DEF JoinLeads
  <1>3. CASE i \in 1 .. Len(s)
    <2>1. PICK j \in 1 .. (i - 1) : s[j] = "join"
        BY <1>1, <1>2, <1>3 DEF JoinLeads
    <2> QED BY <1>1, <1>3, <2>1
  <1>4. CASE i = Len(s) + 1
    <2>1. PICK j \in 1 .. Len(s) : s[j] = "join"
        BY <1>1, <1>2, <1>4 DEF Has
    <2> QED BY <1>1, <1>4, <2>1
  <1> QED BY <1>1, <1>3, <1>4

LEMMA JoinLeadsTail ==
    ASSUME NEW S, NEW s \in Seq(S), s # <<>>, JoinLeads(s), Head(s) # "join"
    PROVE  JoinLeads(Tail(s)) /\ Head(s) \notin {"offer", "candidate"}
  <1>1. /\ Len(s) \in Nat \ {0} /\ Len(Tail(s)) = Len(s) - 1
        /\ \A i \in 1 .. Len(Tail(s)) : Tail(s)[i] = s[i + 1]
        /\ Head(s) = s[1]
      OBVIOUS
  <1>2. Head(s) \notin {"offer", "candidate"}
      BY <1>1 DEF JoinLeads
  <1>3. SUFFICES ASSUME NEW i \in 1 .. Len(Tail(s)),
                        Tail(s)[i] \in {"offer", "candidate"}
                 PROVE  \E j \in 1 .. (i - 1) : Tail(s)[j] = "join"
      BY <1>2 DEF JoinLeads
  <1>4. PICK j \in 1 .. i : s[j] = "join"
      BY <1>1, <1>3 DEF JoinLeads
  <1>5. j # 1
      BY <1>1, <1>4
  <1>6. j - 1 \in 1 .. (i - 1) /\ Tail(s)[j - 1] = "join"
      BY <1>1, <1>3, <1>4, <1>5
  <1> QED BY <1>6

----------------------------------------------------------------------------
(* The inductive invariant.                                                *)

\* Until it is set up, or setting it up has failed, nothing closes a peer.
Untouched(p) ==
    setup[p] \notin {"failed", "ready"} =>
        /\ ~inboxClosed[p] /\ pcs[p] \in {"none", "new"}
        /\ at[p]["loop"] \in {"idle", "running"}
        /\ \A t \in Lost : at[p][t] = "idle"

\* So SetTarget finds the peer that AddPeer has added.
Managed(p) ==
    /\ setup[p] \notin {"none", "unwired"} => p \in Connectable
    /\ setup[p] = "added" => p \in peers
    /\ setup[p] = "ready" => target[p] # ""

\* The offer leaves, and what answers it comes back, after the setup only.
Handshake(p) ==
    /\ writer[p] # "none" => setup[p] \in {"ready", "failed", "unwired"}
    /\ Has(send[p], "offer") => setup[p] \in {"offered", "looping", "added", "ready"}
    /\ setup[p] # "ready" => /\ "offer" \notin page[p] /\ ~remote[p]
                             /\ ~Has(toHub[p], "answer") /\ ~Has(loopInbox[p], "answer")
    /\ dc[p] = "open" => remote[p]

\* The id was queued first and is still there, or has arrived.
Introduced(p) ==
    /\ serve[p] \in {"idle", "added", "joined"} => writer[p] = "none"
    /\ page[p] \cap {"offer", "candidate"} # {} => "join" \in page[p]
    /\ writer[p] # "done" /\ "join" \notin page[p] =>
           /\ JoinLeads(send[p])
           /\ setup[p] # "none" \/ serve[p] = "joined" => Has(send[p], "join")

Closing(p, t) == at[p][t] \in {"closing pc", "closing signaling"}

\* Who runs the body of Close has set the flag, and there is only one.
ClosesOnce(p) ==
    /\ \A t \in Threads : Closing(p, t) => inboxClosed[p]
    /\ \A t, u \in Threads : Closing(p, t) /\ Closing(p, u) => t = u

LifeInv ==
    /\ HubInv /\ TypeOK
    /\ \A p \in Peers : /\ Untouched(p) /\ Managed(p) /\ Handshake(p)
                        /\ Introduced(p) /\ ClosesOnce(p)

LEMMA InitInv == Init => LifeInv
  <1> SUFFICES ASSUME Init PROVE LifeInv
      OBVIOUS
  <1>1. HubInv /\ TypeOK
      BY InitIsHub, HubInitInv, InitTypes
  <1>2. ASSUME NEW p \in Peers
        PROVE  /\ setup[p] = "none" /\ pcs[p] = "none" /\ ~remote[p] /\ dc[p] = "none"
               /\ toHub[p] = <<>> /\ loopInbox[p] = <<>> /\ ~inboxClosed[p]
               /\ page[p] = {} /\ \A t \in Threads : at[p][t] = "idle"
      BY DEF Init
  <1>3. ASSUME NEW p \in Peers
        PROVE  writer[p] = "none" /\ send[p] = <<>> /\ serve[p] = "idle"
      BY DEF Init, HubInit
  <1>4. ASSUME NEW p \in Peers PROVE Untouched(p) /\ Managed(p) /\ ClosesOnce(p)
    <2>1. \A t \in Threads : ~Closing(p, t)
        BY <1>2 DEF Closing
    <2>2. Untouched(p)
        BY <1>2 DEF Untouched, Threads, Lost
    <2>3. Managed(p)
        BY <1>2 DEF Managed
    <2> QED BY <2>1, <2>2, <2>3 DEF ClosesOnce
  <1>5. ASSUME NEW p \in Peers PROVE Handshake(p) /\ Introduced(p)
      BY <1>2, <1>3 DEF Handshake, Introduced, Has, JoinLeads
  <1> QED BY <1>1, <1>4, <1>5 DEF LifeInv

----------------------------------------------------------------------------
(* Each part is preserved.                                                 *)

LEMMA UntouchedStep ==
    ASSUME LifeInv, Next, NEW q \in Peers
    PROVE  Untouched(q)'
  <1> USE DEF Untouched, Threads, Lost
  <1>0. /\ setup \in [Peers -> {"none", "unwired", "wired", "failed", "local", "offered",
                                "looping", "added", "ready"}]
        /\ pcs \in [Peers -> {"none", "new", "connected"} \cup Lost]
        /\ inboxClosed \in [Peers -> BOOLEAN]
        /\ at \in [Peers -> [Threads -> Places]]
        /\ remote \in [Peers -> BOOLEAN]
        /\ Untouched(q)
        /\ setup[q] # "ready" => ~remote[q]
      BY DEF LifeInv, TypeOK, Places, Handshake
  <1>1. ASSUME NEW p \in Peers, Handle(p) PROVE Untouched(q)'
    <2>1. CASE Create(p)
        BY <1>0, <2>1 DEF Create, Setup, ChangeState, loopVars
    <2>2. CASE CreateFails(p)
        BY <1>0, <2>2 DEF CreateFails, Setup, pcVars, loopVars
    <2>3. CASE OfferFails(p)
        BY <1>0, <2>3 DEF OfferFails, Setup, ChangeState, Handler
    <2>4. CASE SetLocalDescription(p)
        BY <1>0, <2>4 DEF SetLocalDescription, Setup, pcVars, loopVars
    <2>5. CASE SendOffer(p)
        BY <1>0, <2>5 DEF SendOffer, Setup, pcVars, loopVars
    <2>6. CASE SendOfferPanics(p) \/ Pumps(p)
        BY <1>0, <2>6 DEF SendOfferPanics, Pumps, rtcVars, mgrVars, pcVars, loopVars
    <2>7. CASE StartLoop(p)
        BY <1>0, <2>7 DEF StartLoop, Setup, Step, pcVars
    <2>8. CASE AddPeer(p)
        BY <1>0, <2>8 DEF AddPeer, Setup, pcVars, loopVars
    <2>9. CASE SetTarget(p)
        BY <1>0, <2>9 DEF SetTarget, Setup, pcVars, loopVars
    <2> QED BY <1>1, <2>1, <2>2, <2>3, <2>4, <2>5, <2>6, <2>7, <2>8, <2>9 DEF Handle
  <1>2. ASSUME NEW p \in Peers, LoopReceives(p) PROVE Untouched(q)'
      BY <1>0, <1>2 DEF LoopReceives
  <1>3. ASSUME NEW p \in Peers, LoopEnds(p) PROVE Untouched(q)'
      BY <1>0, <1>3 DEF LoopEnds, Step, mgrVars, pcVars
  <1>4. ASSUME NEW p \in Peers, HubWorks(p) \/ HubOpens(p) PROVE Untouched(q)'
      BY <1>0, <1>4 DEF HubWorks, HubOpens, rtcVars, mgrVars, pcVars, loopVars
  <1>5. ASSUME NEW p \in Peers, NEW t \in Threads, Close(p, t) PROVE Untouched(q)'
    <2>1. CASE CloseInbox(p, t)
        BY <1>0, <2>1 DEF CloseInbox, Step, Return, mgrVars, pcVars
    <2>2. CASE ClosePC(p, t)
        BY <1>0, <2>2 DEF ClosePC, ChangeState, Handler, mgrVars
    <2>3. CASE CloseSig(p, t)
        BY <1>0, <2>3 DEF CloseSig, Step, Return, mgrVars, pcVars
    <2>4. CASE RemovePeer(p, t)
        BY <1>0, <2>4 DEF RemovePeer, Step, pcVars
    <2> QED BY <1>5, <2>1, <2>2, <2>3, <2>4 DEF Close
  <1>6. ASSUME NEW p \in Peers, Candidate(p) PROVE Untouched(q)'
      BY <1>0, <1>6 DEF Candidate, mgrVars, loopVars
  <1>7. ASSUME NEW p \in Peers, Connect(p) PROVE Untouched(q)'
      BY <1>0, <1>7 DEF Connect, mgrVars, loopVars
  <1>8. ASSUME NEW p \in Peers, NEW s \in Lost, LoseConnection(p, s) PROVE Untouched(q)'
      BY <1>0, <1>8 DEF LoseConnection, ChangeState, Handler, mgrVars
  <1>9. ASSUME NEW p \in Peers, Deliver(p) PROVE Untouched(q)'
      BY <1>0, <1>9 DEF Deliver, mgrVars, pcVars, loopVars
  <1>10. ASSUME NEW p \in Peers, ReadMessage(p) PROVE Untouched(q)'
      BY <1>0, <1>10 DEF ReadMessage, mgrVars, pcVars
  <1>11. ASSUME NEW p \in Peers, NEW m \in Inputs, BrowserSends(p, m) PROVE Untouched(q)'
      BY <1>0, <1>11 DEF BrowserSends, mgrVars, pcVars, loopVars
  <1> QED BY <1>1, <1>2, <1>3, <1>4, <1>5, <1>6, <1>7, <1>8, <1>9, <1>10, <1>11
          DEF Next, Loop

LEMMA ManagedStep ==
    ASSUME LifeInv, Next, NEW q \in Peers
    PROVE  Managed(q)'
  <1> USE DEF Managed
  <1>0. /\ setup \in [Peers -> {"none", "unwired", "wired", "failed", "local", "offered",
                                "looping", "added", "ready"}]
        /\ target \in [Peers -> {"", "resolved", "switched"}]
        /\ Managed(q)
        /\ setup[q] = "added" => \A t \in Threads : at[q][t] # "remove"
      BY DEF LifeInv, TypeOK, Untouched, Threads, Lost
  <1>1. ASSUME NEW p \in Peers, Handle(p) PROVE Managed(q)'
    <2>1. CASE Create(p)
        BY <1>0, <2>1 DEF Create, Setup
    <2>2. CASE CreateFails(p)
        BY <1>0, <2>2 DEF CreateFails, Setup
    <2>3. CASE OfferFails(p)
        BY <1>0, <2>3 DEF OfferFails, Setup
    <2>4. CASE SetLocalDescription(p)
        BY <1>0, <2>4 DEF SetLocalDescription, Setup
    <2>5. CASE SendOffer(p)
        BY <1>0, <2>5 DEF SendOffer, Setup
    <2>6. CASE SendOfferPanics(p) \/ Pumps(p)
        BY <1>0, <2>6 DEF SendOfferPanics, Pumps, rtcVars, mgrVars
    <2>7. CASE StartLoop(p)
        BY <1>0, <2>7 DEF StartLoop, Setup
    <2>8. CASE AddPeer(p)
        BY <1>0, <2>8 DEF AddPeer, Setup
    <2>9. CASE SetTarget(p)
        BY <1>0, <2>9 DEF SetTarget, Setup
    <2> QED BY <1>1, <2>1, <2>2, <2>3, <2>4, <2>5, <2>6, <2>7, <2>8, <2>9 DEF Handle
  <1>2. ASSUME NEW p \in Peers, LoopReceives(p) PROVE Managed(q)'
      BY <1>0, <1>2 DEF LoopReceives
  <1>3. ASSUME NEW p \in Peers, LoopEnds(p) PROVE Managed(q)'
      BY <1>0, <1>3 DEF LoopEnds, mgrVars
  <1>4. ASSUME NEW p \in Peers, HubWorks(p) \/ HubOpens(p) PROVE Managed(q)'
      BY <1>0, <1>4 DEF HubWorks, HubOpens, rtcVars, mgrVars
  <1>5. ASSUME NEW p \in Peers, NEW t \in Threads, Close(p, t) PROVE Managed(q)'
      BY <1>0, <1>5 DEF Close, CloseInbox, ClosePC, CloseSig, RemovePeer, Step, mgrVars
  <1>6. ASSUME NEW p \in Peers, Candidate(p) \/ Connect(p) PROVE Managed(q)'
      BY <1>0, <1>6 DEF Candidate, Connect, mgrVars
  <1>7. ASSUME NEW p \in Peers, NEW s \in Lost, LoseConnection(p, s) PROVE Managed(q)'
      BY <1>0, <1>7 DEF LoseConnection, mgrVars
  <1>8. ASSUME NEW p \in Peers, Deliver(p) \/ ReadMessage(p) PROVE Managed(q)'
      BY <1>0, <1>8 DEF Deliver, ReadMessage, mgrVars
  <1>9. ASSUME NEW p \in Peers, NEW m \in Inputs, BrowserSends(p, m) PROVE Managed(q)'
      BY <1>0, <1>9 DEF BrowserSends, mgrVars
  <1> QED BY <1>1, <1>2, <1>3, <1>4, <1>5, <1>6, <1>7, <1>8, <1>9 DEF Next, Loop

LEMMA ClosesOnceStep ==
    ASSUME LifeInv, Next, NEW q \in Peers
    PROVE  ClosesOnce(q)'
  <1> USE DEF ClosesOnce, Closing
  <1>0. /\ inboxClosed \in [Peers -> BOOLEAN]
        /\ at \in [Peers -> [Threads -> Places]]
        /\ "loop" \in Threads /\ Lost \subseteq Threads /\ "closed" \in Lost
        /\ ClosesOnce(q)
      BY DEF LifeInv, TypeOK, Places, Threads, Lost
  <1>1. ASSUME NEW p \in Peers, Handle(p) PROVE ClosesOnce(q)'
    <2>1. CASE OfferFails(p)
      <3>1. inboxClosed' = inboxClosed /\ (at' = at \/ at' = Handler(p, "closed"))
          BY <2>1 DEF OfferFails
      <3>2. at' = at \/ at' = [at EXCEPT ![p]["closed"] = "call"]
          BY <3>1 DEF Handler
      <3>3. \A t \in Threads : at'[q][t] \in {at[q][t], "call"}
        <4>1. CASE at' = at
            BY <4>1
        <4>2. CASE at' = [at EXCEPT ![p]["closed"] = "call"]
            BY <1>0, <4>2
        <4> QED BY <3>2, <4>1, <4>2
      <3>4. \A t \in Threads : Closing(q, t)' => Closing(q, t)
          BY <3>3
      <3> QED BY <1>0, <3>1, <3>4
    <2>2. CASE StartLoop(p)
        BY <1>0, <2>2 DEF StartLoop, Step
    <2>3. CASE Create(p) \/ CreateFails(p) \/ SetLocalDescription(p) \/ SendOffer(p)
               \/ SendOfferPanics(p) \/ AddPeer(p) \/ SetTarget(p) \/ Pumps(p)
        BY <1>0, <2>3 DEF Create, CreateFails, SetLocalDescription, SendOffer,
               SendOfferPanics, AddPeer, SetTarget, Pumps, rtcVars, loopVars
    <2> QED BY <1>1, <2>1, <2>2, <2>3 DEF Handle
  <1>2. ASSUME NEW p \in Peers, Loop(p) PROVE ClosesOnce(q)'
    <2>1. CASE LoopReceives(p)
        BY <1>0, <2>1 DEF LoopReceives
    <2>2. CASE LoopEnds(p)
        BY <1>0, <2>2 DEF LoopEnds, Step
    <2> QED BY <1>2, <2>1, <2>2 DEF Loop
  <1>3. ASSUME NEW p \in Peers, HubWorks(p) \/ HubOpens(p) PROVE ClosesOnce(q)'
      BY <1>0, <1>3 DEF HubWorks, HubOpens, rtcVars, loopVars
  <1>4. ASSUME NEW p \in Peers, NEW t \in Threads, Close(p, t) PROVE ClosesOnce(q)'
    <2>1. CASE CloseInbox(p, t)
        BY <1>0, <2>1 DEF CloseInbox, Step, Return
    <2>2. CASE ClosePC(p, t)
        BY <1>0, <2>2 DEF ClosePC, Handler
    <2>3. CASE CloseSig(p, t)
        BY <1>0, <2>3 DEF CloseSig, Step, Return
    <2>4. CASE RemovePeer(p, t)
        BY <1>0, <2>4 DEF RemovePeer, Step
    <2> QED BY <1>4, <2>1, <2>2, <2>3, <2>4 DEF Close
  <1>5. ASSUME NEW p \in Peers, Candidate(p) \/ Connect(p) PROVE ClosesOnce(q)'
      BY <1>0, <1>5 DEF Candidate, Connect, loopVars
  <1>6. ASSUME NEW p \in Peers, NEW s \in Lost, LoseConnection(p, s) PROVE ClosesOnce(q)'
      BY <1>0, <1>6 DEF LoseConnection, Handler
  <1>7. ASSUME NEW p \in Peers, Deliver(p) \/ ReadMessage(p) PROVE ClosesOnce(q)'
      BY <1>0, <1>7 DEF Deliver, ReadMessage, loopVars
  <1>8. ASSUME NEW p \in Peers, NEW m \in Inputs, BrowserSends(p, m) PROVE ClosesOnce(q)'
      BY <1>0, <1>8 DEF BrowserSends, loopVars
  <1> QED BY <1>1, <1>2, <1>3, <1>4, <1>5, <1>6, <1>7, <1>8 DEF Next

\* What the hub does by itself to the channel and the goroutines of q.
LEMMA HubFrame ==
    ASSUME LifeInv, NEW p \in Peers, HubWorks(p) \/ HubOpens(p), NEW q \in Peers
    PROVE  /\ UNCHANGED rtcVars
           /\ \/ writer'[q] = writer[q]
              \/ writer[q] = "running" /\ writer'[q] = "done"
           /\ \/ send'[q] = send[q]
              \/ \E m \in {"join", "broadcast"} : send'[q] = Append(send[q], m)
              \/ writer'[q] = "done" /\ send[q] # <<>> /\ send'[q] = Tail(send[q])
           /\ serve'[q] = "joined" =>
                  \/ serve[q] = "joined"
                  \/ serve[q] = "added" /\ send'[q] = Append(send[q], "join")
           /\ serve'[q] = "added" => serve[q] \in {"idle", "added"}
           /\ serve'[q] = "idle" => serve[q] = "idle"
  <1>0. /\ serve \in [Peers -> Stages] /\ send \in [Peers -> Seq(Messages)]
        /\ writer \in [Peers -> {"none", "running", "done"}]
      BY DEF LifeInv, TypeOK, HubTypeOK
  <1>1. CASE Serving(p) /\ UNCHANGED rtcVars
    <2>1. CASE Join(p)
        BY <1>0, <1>1, <2>1 DEF Join, At, Queue, Stages
    <2>2. CASE JoinPanics(p) \/ ReadFails(p) \/ RelayDone(p)
        BY <1>0, <1>1, <2>2 DEF JoinPanics, ReadFails, RelayDone, Moves, At, Stages
    <2>3. CASE LeaveRoom(p) \/ Notice(p) \/ Leave(p)
        BY <1>0, <1>1, <2>3 DEF LeaveRoom, Notice, Leave, At, Stages
    <2>4. ASSUME NEW r \in Peers, Cast(p, r)
          PROVE  /\ send'[q] = send[q] \/ send'[q] = Append(send[q], "broadcast")
                 /\ serve' = serve /\ writer' = writer
        BY <1>0, <2>4 DEF Cast, Queue
    <2>5. ASSUME NEW r \in Peers, CastPanics(p, r)
          PROVE  /\ send' = send /\ writer' = writer
                 /\ serve'[q] = serve[q] \/ serve'[q] \in {"leaving", "panicked"}
        BY <1>0, <2>5 DEF CastPanics, Moves, At, Stages
    <2> QED BY <1>1, <2>1, <2>2, <2>3, <2>4, <2>5 DEF Serving
  <1>2. CASE WriterEnds(p) /\ UNCHANGED rtcVars
      BY <1>0, <1>2 DEF WriterEnds
  <1>3. CASE DropSlow(p) /\ UNCHANGED rtcVars
      BY <1>3 DEF DropSlow
  <1>4. CASE (Upgrade(p) \/ ConnLost(p)) /\ UNCHANGED rtcVars
      BY <1>0, <1>4 DEF Upgrade, ConnLost, At, Stages
  <1>5. CASE Reading(p) /\ UNCHANGED rtcVars
    <2>1. CASE Relay(p)
        BY <1>0, <1>5, <2>1 DEF Relay, At, Stages
    <2>2. ASSUME NEW r \in Peers, Forward(p, r)
          PROVE  send' = send /\ writer' = writer /\ serve' = serve
        BY <2>2 DEF Forward
    <2> QED BY <1>5, <2>1, <2>2 DEF Reading
  <1> QED BY <1>1, <1>2, <1>3, <1>4, <1>5 DEF HubWorks, HubOpens

\* What TrySend may do to the channel of q.
LEMMA TrySendFrame ==
    ASSUME LifeInv, NEW p \in Peers, NEW m, TrySend(p, m), NEW q \in Peers
    PROVE  /\ send'[q] = send[q] \/ (q = p /\ send'[q] = Append(send[q], m))
           /\ UNCHANGED <<serve, writer>>
  <1>1. send \in [Peers -> Seq(Messages)]
      BY DEF LifeInv, TypeOK, HubTypeOK
  <1>2. send' = send \/ send' = [send EXCEPT ![p] = Append(@, m)]
      BY DEF TrySend, Queue
  <1>3. UNCHANGED <<serve, writer>>
      BY DEF TrySend
  <1> QED BY <1>1, <1>2, <1>3

LEMMA HandshakeStep ==
    ASSUME LifeInv, Next, NEW q \in Peers
    PROVE  Handshake(q)'
  <1> USE DEF Handshake
  <1>0. /\ setup \in [Peers -> {"none", "unwired", "wired", "failed", "local", "offered",
                                "looping", "added", "ready"}]
        /\ writer \in [Peers -> {"none", "running", "done"}]
        /\ dc \in [Peers -> {"none", "open", "closed"}]
        /\ remote \in [Peers -> BOOLEAN]
        /\ page \in [Peers -> SUBSET Messages]
        /\ loopInbox \in [Peers -> Seq(Inputs)] /\ toHub \in [Peers -> Seq(Inputs)]
        /\ send \in [Peers -> Seq(Messages)]
        /\ Handshake(q)
      BY DEF LifeInv, TypeOK, HubTypeOK
  <1>1. ASSUME NEW p \in Peers, Handle(p) PROVE Handshake(q)'
    <2>1. CASE Create(p)
        BY <1>0, <2>1 DEF Create, Setup, ChangeState, hubVars, loopVars, webVars
    <2>2. CASE CreateFails(p)
        BY <1>0, <2>2 DEF CreateFails, Setup, hubVars, pcVars, loopVars, webVars
    <2>3. CASE OfferFails(p)
        BY <1>0, <2>3 DEF OfferFails, Setup, ChangeState, hubVars, webVars
    <2>4. CASE SetLocalDescription(p)
        BY <1>0, <2>4 DEF SetLocalDescription, Setup, hubVars, pcVars, loopVars, webVars
    <2>5. CASE SendOffer(p)
      <3>1. /\ send'[q] = send[q] \/ (q = p /\ send'[q] = Append(send[q], "offer"))
            /\ UNCHANGED <<serve, writer>>
          BY <2>5, TrySendFrame DEF SendOffer
      <3>2. Has(send'[q], "offer") => Has(send[q], "offer") \/ q = p
          BY <3>1
      <3> QED BY <1>0, <2>5, <3>1, <3>2 DEF SendOffer, Setup, pcVars, loopVars, webVars
    <2>6. CASE SendOfferPanics(p)
        BY <1>0, <2>6 DEF SendOfferPanics, OnPeerPanics, Moves, rtcVars, mgrVars, pcVars,
                          loopVars, webVars
    <2>7. CASE Pumps(p)
      <3>1. UNCHANGED send /\ writer' = [writer EXCEPT ![p] = "running"]
          BY <2>7 DEF Pumps, StartPumps
      <3> QED BY <1>0, <2>7, <3>1 DEF Pumps, rtcVars, mgrVars, pcVars, loopVars, webVars
    <2>8. CASE StartLoop(p)
        BY <1>0, <2>8 DEF StartLoop, Setup, hubVars, pcVars, webVars
    <2>9. CASE AddPeer(p)
        BY <1>0, <2>9 DEF AddPeer, Setup, hubVars, pcVars, loopVars, webVars
    <2>10. CASE SetTarget(p)
        BY <1>0, <2>10 DEF SetTarget, Setup, hubVars, pcVars, loopVars, webVars
    <2> QED BY <1>1, <2>1, <2>2, <2>3, <2>4, <2>5, <2>6, <2>7, <2>8, <2>9, <2>10 DEF Handle
  <1>2. ASSUME NEW p \in Peers, LoopReceives(p) PROVE Handshake(q)'
    <2>1. loopInbox[p] \in Seq(Inputs) /\ loopInbox[p] # <<>>
        BY <1>0, <1>2 DEF LoopReceives
    <2>2. Has(loopInbox[p], "answer") <=>
              (Has(Tail(loopInbox[p]), "answer") \/ Head(loopInbox[p]) = "answer")
        BY <2>1, HasTail
    <2>3. /\ UNCHANGED <<setup, writer, send, page, toHub, dc>>
          /\ loopInbox' = [loopInbox EXCEPT ![p] = Tail(@)]
          /\ \A r \in Peers \ {p} : remote'[r] = remote[r]
          /\ remote[p] => remote'[p]
          /\ remote'[p] => remote[p] \/ Head(loopInbox[p]) = "answer"
        BY <1>0, <1>2 DEF LoopReceives, hubVars, webVars
    <2> QED BY <1>0, <2>2, <2>3
  <1>3. ASSUME NEW p \in Peers, LoopEnds(p) PROVE Handshake(q)'
      BY <1>0, <1>3 DEF LoopEnds, hubVars, mgrVars, pcVars, webVars
  <1>4. ASSUME NEW p \in Peers, HubWorks(p) \/ HubOpens(p) PROVE Handshake(q)'
    <2>1. send[q] \in Seq(Messages) /\ {"join", "broadcast"} \subseteq Messages
        BY <1>0 DEF Messages
    <2>2. Has(send'[q], "offer") => Has(send[q], "offer")
      <3>1. CASE send'[q] = send[q]
          BY <3>1
      <3>2. ASSUME NEW m \in {"join", "broadcast"}, send'[q] = Append(send[q], m)
            PROVE  Has(send'[q], "offer") => Has(send[q], "offer")
        <4>1. Has(Append(send[q], m), "offer") <=> (Has(send[q], "offer") \/ m = "offer")
            BY <2>1, HasAppend
        <4> QED BY <3>2, <4>1
      <3>3. CASE send[q] # <<>> /\ send'[q] = Tail(send[q])
        <4>1. Has(send[q], "offer") <=> (Has(Tail(send[q]), "offer") \/ Head(send[q]) = "offer")
            BY <2>1, <3>3, HasTail
        <4> QED BY <3>3, <4>1
      <3> QED BY <1>4, <3>1, <3>2, <3>3, HubFrame
    <2>3. writer'[q] = "none" <=> writer[q] = "none"
        BY <1>4, HubFrame
    <2>4. UNCHANGED <<setup, page, toHub, loopInbox, remote, dc>>
        BY <1>4, HubFrame DEF rtcVars, mgrVars, pcVars, loopVars, webVars
    <2> QED BY <1>0, <2>2, <2>3, <2>4
  <1>5. ASSUME NEW p \in Peers, NEW t \in Threads, Close(p, t) PROVE Handshake(q)'
    <2>1. UNCHANGED <<setup, page, toHub, loopInbox, remote, send, writer>>
        BY <1>5 DEF Close, CloseInbox, ClosePC, CloseSig, RemovePeer, CloseSignaling,
                    hubVars, mgrVars, pcVars, webVars
    <2>2. dc'[q] = "open" => dc[q] = "open"
        BY <1>0, <1>5 DEF Close, CloseInbox, ClosePC, CloseSig, RemovePeer, ChangeState, pcVars
    <2> QED BY <1>0, <2>1, <2>2
  <1>6. ASSUME NEW p \in Peers, Candidate(p) PROVE Handshake(q)'
    <2>1. Has(send'[q], "offer") => Has(send[q], "offer")
      <3>1. CASE closed[p]
          BY <1>6, <3>1 DEF Candidate, hubVars
      <3>2. CASE ~closed[p]
        <4>1. send'[q] = send[q] \/ send'[q] = Append(send[q], "candidate")
            BY <1>6, <3>2, TrySendFrame DEF Candidate
        <4>2. send[q] \in Seq(Messages) /\ "candidate" \in Messages
            BY <1>0, LifecycleAssumption DEF Messages
        <4>3. Has(Append(send[q], "candidate"), "offer") <=> Has(send[q], "offer")
            BY <4>2, HasAppend
        <4> QED BY <4>1, <4>3
      <3> QED BY <3>1, <3>2
    <2>2. UNCHANGED <<setup, page, toHub, loopInbox, remote, dc, writer>>
        BY <1>6 DEF Candidate, TrySend, hubVars, mgrVars, loopVars, webVars
    <2> QED BY <1>0, <2>1, <2>2
  <1>7. ASSUME NEW p \in Peers, Connect(p) PROVE Handshake(q)'
      BY <1>0, <1>7 DEF Connect, hubVars, mgrVars, loopVars, webVars
  <1>8. ASSUME NEW p \in Peers, NEW s \in Lost, LoseConnection(p, s) PROVE Handshake(q)'
      BY <1>0, <1>8 DEF LoseConnection, ChangeState, hubVars, mgrVars, webVars
  <1>9. ASSUME NEW p \in Peers, Deliver(p) PROVE Handshake(q)'
    <2>1. /\ send[p] \in Seq(Messages) /\ send[p] # <<>> /\ writer[p] = "running"
          /\ send' = [send EXCEPT ![p] = Tail(@)]
          /\ page' = [page EXCEPT ![p] = @ \cup ({Head(send[p])} \ {"broadcast"})]
          /\ UNCHANGED <<setup, toHub, loopInbox, remote, dc, writer>>
        BY <1>0, <1>9 DEF Deliver, Write, mgrVars, pcVars, loopVars
    <2>2. Has(send[p], "offer") <=> (Has(Tail(send[p]), "offer") \/ Head(send[p]) = "offer")
        BY <2>1, HasTail
    <2>3. p = q /\ Head(send[p]) = "offer" => setup[q] = "ready"
        BY <1>0, <2>1, <2>2
    <2> QED BY <1>0, <2>1, <2>2, <2>3
  <1>10. ASSUME NEW p \in Peers, ReadMessage(p) PROVE Handshake(q)'
    <2>1. /\ toHub[p] \in Seq(Inputs) /\ toHub[p] # <<>> /\ loopInbox[p] \in Seq(Inputs)
          /\ toHub' = [toHub EXCEPT ![p] = Tail(@)]
          /\ \/ loopInbox' = loopInbox
             \/ loopInbox' = [loopInbox EXCEPT ![p] = Append(@, Head(toHub[p]))]
          /\ UNCHANGED <<setup, page, remote, dc, writer, send>>
        BY <1>0, <1>10 DEF ReadMessage, OnMessagePanics, Moves, hubVars, mgrVars, pcVars
    <2>2. Has(toHub[p], "answer") <=>
              (Has(Tail(toHub[p]), "answer") \/ Head(toHub[p]) = "answer")
        BY <2>1, HasTail
    <2>3. Head(toHub[p]) \in Inputs
        BY <2>1
    <2>4. Has(Append(loopInbox[p], Head(toHub[p])), "answer") <=>
              (Has(loopInbox[p], "answer") \/ Head(toHub[p]) = "answer")
        BY <2>1, <2>3, HasAppend
    <2> QED BY <1>0, <2>1, <2>2, <2>4
  <1>11. ASSUME NEW p \in Peers, NEW m \in Inputs, BrowserSends(p, m) PROVE Handshake(q)'
    <2>1. /\ toHub[p] \in Seq(Inputs)
          /\ toHub' = [toHub EXCEPT ![p] = Append(@, m)]
          /\ m = "target" \/ "offer" \in page[p]
          /\ UNCHANGED <<setup, page, loopInbox, remote, dc, writer, send>>
        BY <1>0, <1>11 DEF BrowserSends, hubVars, mgrVars, pcVars, loopVars
    <2>2. Has(Append(toHub[p], m), "answer") <=> (Has(toHub[p], "answer") \/ m = "answer")
        BY <2>1, HasAppend
    <2> QED BY <1>0, <2>1, <2>2
  <1> QED BY <1>1, <1>2, <1>3, <1>4, <1>5, <1>6, <1>7, <1>8, <1>9, <1>10, <1>11
          DEF Next, Loop

LEMMA IntroducedStep ==
    ASSUME LifeInv, Next, NEW q \in Peers
    PROVE  Introduced(q)'
  <1> USE DEF Introduced
  <1>0. /\ setup \in [Peers -> {"none", "unwired", "wired", "failed", "local", "offered",
                                "looping", "added", "ready"}]
        /\ serve \in [Peers -> Stages]
        /\ writer \in [Peers -> {"none", "running", "done"}]
        /\ page \in [Peers -> SUBSET Messages]
        /\ send \in [Peers -> Seq(Messages)]
        /\ {"join", "broadcast", "offer", "candidate"} \subseteq Messages
        /\ Introduced(q)
    <2>1. {"join", "broadcast", "offer", "candidate"} \subseteq Messages
        BY LifecycleAssumption DEF Messages
    <2> QED BY <2>1 DEF LifeInv, TypeOK, HubTypeOK
  \* A message that follows "join" does no harm.
  <1>app. ASSUME NEW m \in Messages, send'[q] = Append(send[q], m),
                m \in {"offer", "candidate"} => setup[q] # "none",
                UNCHANGED <<page, writer>>,
                setup'[q] # "none" \/ serve'[q] = "joined" =>
                    setup[q] # "none" \/ serve[q] = "joined" \/ m = "join",
                serve'[q] \in {"idle", "added", "joined"} =>
                    serve[q] \in {"idle", "added", "joined"}
         PROVE  Introduced(q)'
    <2>1. JoinLeads(send[q]) /\ (m \in {"offer", "candidate"} => Has(send[q], "join"))
              => JoinLeads(send'[q])
        BY <1>0, <1>app, JoinLeadsAppend
    <2>2. Has(send'[q], "join") <=> (Has(send[q], "join") \/ m = "join")
        BY <1>0, <1>app, HasAppend
    <2> QED BY <1>0, <1>app, <2>1, <2>2
  <1>1. ASSUME NEW p \in Peers, Handle(p) PROVE Introduced(q)'
    <2>1. CASE Create(p) \/ CreateFails(p) \/ OfferFails(p) \/ SetLocalDescription(p)
      <3>1. UNCHANGED <<serve, writer, send, page>>
          BY <2>1 DEF Create, CreateFails, OfferFails, SetLocalDescription, hubVars, webVars
      <3>2. setup'[q] # setup[q] => serve[q] = "joined"
          BY <1>0, <2>1 DEF Create, CreateFails, OfferFails, SetLocalDescription, Setup
      <3> QED BY <1>0, <3>1, <3>2
    <2>2. CASE SendOffer(p)
      <3>1. /\ send'[q] = send[q] \/ (q = p /\ send'[q] = Append(send[q], "offer"))
            /\ UNCHANGED <<serve, writer, page>>
            /\ setup' = [setup EXCEPT ![p] = "offered"] /\ setup[p] = "local"
          BY <2>2, TrySendFrame DEF SendOffer, Setup, webVars
      <3>2. CASE send'[q] = send[q]
          BY <1>0, <3>1, <3>2
      <3>3. CASE q = p /\ send'[q] = Append(send[q], "offer")
          BY <1>0, <1>app, <3>1, <3>3
      <3> QED BY <3>1, <3>2, <3>3
    <2>3. CASE SendOfferPanics(p)
        BY <1>0, <2>3 DEF SendOfferPanics, OnPeerPanics, Moves, At, Stages, rtcVars,
                          mgrVars, webVars
    <2>4. CASE Pumps(p)
      <3>1. /\ UNCHANGED <<send, setup, page>>
            /\ writer' = [writer EXCEPT ![p] = "running"]
            /\ serve[p] = "joined" /\ serve' = [serve EXCEPT ![p] = "pumping"]
          BY <2>4 DEF Pumps, StartPumps, At, rtcVars, mgrVars, webVars
      <3> QED BY <1>0, <3>1 DEF Stages
    <2>5. CASE StartLoop(p) \/ AddPeer(p) \/ SetTarget(p)
      <3>1. UNCHANGED <<serve, writer, send, page>>
          BY <2>5 DEF StartLoop, AddPeer, SetTarget, hubVars, webVars
      <3>2. setup'[q] # setup[q] => setup[q] # "none"
          BY <1>0, <2>5 DEF StartLoop, AddPeer, SetTarget, Setup
      <3> QED BY <1>0, <3>1, <3>2
    <2> QED BY <1>1, <2>1, <2>2, <2>3, <2>4, <2>5 DEF Handle
  <1>2. ASSUME NEW p \in Peers, HubWorks(p) \/ HubOpens(p) PROVE Introduced(q)'
    <2>1. UNCHANGED <<setup, page>>
        BY <1>2, HubFrame DEF rtcVars, mgrVars, webVars
    <2>2. serve'[q] \in {"idle", "added", "joined"} => serve[q] \in {"idle", "added", "joined"}
        BY <1>2, HubFrame
    <2>3. \/ writer'[q] = writer[q]
          \/ writer[q] = "running" /\ writer'[q] = "done"
        BY <1>2, HubFrame
    <2>4. serve'[q] = "joined" => serve[q] = "joined" \/ send'[q] = Append(send[q], "join")
        BY <1>2, HubFrame
    <2>5. CASE writer'[q] = "done"
        BY <1>0, <2>1, <2>2, <2>3, <2>5
    <2>6. CASE writer'[q] # "done" /\ send'[q] = send[q]
      <3>1. serve'[q] = "joined" => serve[q] = "joined" \/ Has(send[q], "join")
          BY <1>0, <2>4, <2>6, HasAppend
      <3> QED BY <1>0, <2>1, <2>2, <2>3, <2>6, <3>1
    <2>7. ASSUME NEW m \in {"join", "broadcast"},
                 writer'[q] # "done", send'[q] = Append(send[q], m)
          PROVE  Introduced(q)'
      <3>1. JoinLeads(send[q]) => JoinLeads(send'[q])
          BY <1>0, <2>7, JoinLeadsAppend
      <3>2. Has(send'[q], "join") <=> (Has(send[q], "join") \/ m = "join")
          BY <1>0, <2>7, HasAppend
      <3>3. serve'[q] = "joined" => serve[q] = "joined" \/ Has(send'[q], "join")
        <4>1. Has(Append(send[q], "join"), "join")
            BY <1>0, HasAppend
        <4> QED BY <2>4, <4>1
      <3> QED BY <1>0, <2>1, <2>2, <2>3, <2>7, <3>1, <3>2, <3>3
    <2> QED BY <1>2, <2>5, <2>6, <2>7, HubFrame
  <1>3. ASSUME NEW p \in Peers, Candidate(p) PROVE Introduced(q)'
    <2>1. CASE closed[p]
        BY <1>0, <1>3, <2>1 DEF Candidate, hubVars, mgrVars, webVars
    <2>2. CASE ~closed[p]
      <3>1. /\ send'[q] = send[q] \/ (q = p /\ send'[q] = Append(send[q], "candidate"))
            /\ UNCHANGED <<serve, writer, page, setup>> /\ setup[p] # "none"
          BY <1>3, <2>2, TrySendFrame DEF Candidate, mgrVars, webVars
      <3>2. CASE send'[q] = send[q]
          BY <1>0, <3>1, <3>2
      <3>3. CASE q = p /\ send'[q] = Append(send[q], "candidate")
          BY <1>0, <1>app, <3>1, <3>3
      <3> QED BY <3>1, <3>2, <3>3
    <2> QED BY <2>1, <2>2
  <1>4. ASSUME NEW p \in Peers, Deliver(p) PROVE Introduced(q)'
    <2>1. /\ send[p] # <<>> /\ writer[p] = "running"
          /\ send' = [send EXCEPT ![p] = Tail(@)]
          /\ page' = [page EXCEPT ![p] = @ \cup ({Head(send[p])} \ {"broadcast"})]
          /\ UNCHANGED <<setup, serve, writer>>
        BY <1>0, <1>4 DEF Deliver, Write, mgrVars
    <2>2. CASE q # p
        BY <1>0, <2>1, <2>2
    <2>3. CASE q = p /\ ("join" \in page[q] \/ Head(send[q]) = "join")
        BY <1>0, <2>1, <2>3
    <2>4. CASE q = p /\ "join" \notin page[q] /\ Head(send[q]) # "join"
      <3>1. JoinLeads(Tail(send[q])) /\ Head(send[q]) \notin {"offer", "candidate"}
          BY <1>0, <2>1, <2>4, JoinLeadsTail
      <3>2. Has(send[q], "join") <=> Has(Tail(send[q]), "join")
          BY <1>0, <2>1, <2>4, HasTail
      <3> QED BY <1>0, <2>1, <2>4, <3>1, <3>2
    <2> QED BY <2>2, <2>3, <2>4
  <1>5. ASSUME NEW p \in Peers, ReadMessage(p) PROVE Introduced(q)'
    <2>1. /\ UNCHANGED <<setup, page, writer, send>>
          /\ serve' = serve \/ serve' = [serve EXCEPT ![p] = "leaving"]
        BY <1>5 DEF ReadMessage, OnMessagePanics, Moves, At, hubVars, mgrVars
    <2> QED BY <1>0, <2>1
  <1>6. ASSUME NEW p \in Peers, NEW t \in Threads, Close(p, t) PROVE Introduced(q)'
    <2>1. UNCHANGED <<setup, serve, writer, send, page>>
        BY <1>6 DEF Close, CloseInbox, ClosePC, CloseSig, RemovePeer, CloseSignaling,
                    hubVars, mgrVars, webVars
    <2> QED BY <1>0, <2>1
  <1>7. ASSUME NEW p \in Peers, Loop(p) \/ Connect(p) PROVE Introduced(q)'
      BY <1>0, <1>7 DEF Loop, LoopReceives, LoopEnds, Connect, hubVars, mgrVars, webVars
  <1>8. ASSUME NEW p \in Peers, NEW s \in Lost, LoseConnection(p, s) PROVE Introduced(q)'
      BY <1>0, <1>8 DEF LoseConnection, hubVars, mgrVars, webVars
  <1>9. ASSUME NEW p \in Peers, NEW m \in Inputs, BrowserSends(p, m) PROVE Introduced(q)'
      BY <1>0, <1>9 DEF BrowserSends, hubVars, mgrVars
  <1> QED BY <1>1, <1>2, <1>3, <1>4, <1>5, <1>6, <1>7, <1>8, <1>9 DEF Next

----------------------------------------------------------------------------
(* The theorems.                                                           *)

LEMMA LifeStepInv == LifeInv /\ [Next]_vars => LifeInv'
  <1> SUFFICES ASSUME LifeInv, [Next]_vars PROVE LifeInv'
      OBVIOUS
  <1>1. HubInv'
      BY StepIsHub, HubStepInv DEF LifeInv
  <1>2. CASE Next
    <2>1. HubTypeOK'
        BY <1>1 DEF HubInv
    <2>2. \A p \in Peers : setup[p] \in {"offered", "looping"} => p \in Connectable
        BY DEF LifeInv, Managed
    <2>3. TypeOK'
        BY <1>2, <2>1, <2>2, StepTypes DEF LifeInv
    <2>4. ASSUME NEW q \in Peers
          PROVE  /\ Untouched(q)' /\ Managed(q)' /\ Handshake(q)'
                 /\ Introduced(q)' /\ ClosesOnce(q)'
        BY <1>2, UntouchedStep, ManagedStep, HandshakeStep, IntroducedStep, ClosesOnceStep
    <2> QED BY <1>1, <2>3, <2>4 DEF LifeInv
  <1>3. CASE UNCHANGED vars
    <2>1. UNCHANGED <<hubVars, rtcVars>>
        BY <1>3 DEF vars
    <2>2. TypeOK'
        BY <2>1 DEF LifeInv, TypeOK, HubTypeOK, hubVars, rtcVars, mgrVars, pcVars,
                    loopVars, webVars
    <2>3. ASSUME NEW p \in Peers
          PROVE  /\ Untouched(p)' /\ Managed(p)' /\ Handshake(p)'
                 /\ Introduced(p)' /\ ClosesOnce(p)'
      <3>1. UNCHANGED <<serve, writer, send, setup, peers, target, pcs, remote, dc,
                        loopInbox, inboxClosed, at, page, toHub>>
          BY <2>1 DEF hubVars, rtcVars, mgrVars, pcVars, loopVars, webVars
      <3>2. Untouched(p)' /\ Managed(p)'
        <4>1. Untouched(p) /\ Managed(p)
            BY DEF LifeInv
        <4> QED BY <3>1, <4>1 DEF Untouched, Managed
      <3>3. Handshake(p)' /\ Introduced(p)'
          BY <3>1 DEF LifeInv, Handshake, Introduced
      <3>4. ClosesOnce(p)'
          BY <3>1 DEF LifeInv, ClosesOnce, Closing
      <3> QED BY <3>2, <3>3, <3>4
    <2> QED BY <1>1, <2>2, <2>3 DEF LifeInv
  <1> QED BY <1>2, <1>3

LEMMA LifeInvariant == Spec => []LifeInv
  BY InitInv, LifeStepInv, PTL DEF Spec

\* Types; in particular no goroutine is ever where Peer.Close has no line.
THEOREM TypeCorrect == Spec => []TypeOK
  <1>1. LifeInv => TypeOK
      BY DEF LifeInv
  <1> QED BY <1>1, LifeInvariant, PTL

\* No request can reach a gateway peer without a target, although the target
\* is set after the offer has been queued (main.go:153-161).
THEOREM TargetComesFirst == Spec => []TargetBeforeTraffic
  <1>1. LifeInv => TargetBeforeTraffic
    <2> SUFFICES ASSUME LifeInv, NEW p \in Peers, dc[p] = "open"
                 PROVE  target[p] # ""
        BY DEF TargetBeforeTraffic
    <2>1. remote[p] /\ (setup[p] # "ready" => ~remote[p])
        BY DEF LifeInv, Handshake
    <2> QED BY <2>1 DEF LifeInv, Managed
  <1> QED BY <1>1, LifeInvariant, PTL

\* The browser knows its id before it has anything to answer, whatever other
\* connections write to its Send channel (hub.go:149-158).
THEOREM IdComesFirst == Spec => []IdBeforeOffer
  <1>1. LifeInv => IdBeforeOffer
      BY DEF LifeInv, Introduced, IdBeforeOffer
  <1> QED BY <1>1, LifeInvariant, PTL

\* However many handlers call Peer.Close, one of them closes the inbox
\* (peer.go:226-243).
THEOREM ClosedOnce == Spec => []OneCloser
  <1>1. LifeInv => OneCloser
    <2> SUFFICES ASSUME LifeInv, NEW p \in Peers
                 PROVE  Cardinality({t \in Threads : Closing(p, t)}) <= 1
        BY DEF OneCloser, Closing
    <2>1. CASE {t \in Threads : Closing(p, t)} = {}
        BY <2>1, FS_EmptySet
    <2>2. CASE {t \in Threads : Closing(p, t)} # {}
      <3>1. PICK t \in Threads : Closing(p, t)
          BY <2>2
      <3>2. {u \in Threads : Closing(p, u)} = {t}
          BY <3>1 DEF LifeInv, ClosesOnce
      <3>3. Cardinality({t}) = 1
          BY FS_Singleton
      <3> QED BY <3>2, <3>3
    <2> QED BY <2>1, <2>2
  <1> QED BY <1>1, LifeInvariant, PTL
----------------------------------------------------------------------------
(* What a close leaves behind.                                             *)

\* Whoever set the flag still has the rest of Close to do, or has done it;
\* the loop that will remove the peer from the manager has not passed it.
TornApart(p) ==
    /\ inboxClosed[p] =>
           \/ \E t \in Threads : at[p][t] = "closing pc"
           \/ /\ pcs[p] = "closed"
              /\ closed[p] \/ \E t \in Threads : at[p][t] = "closing signaling"
    /\ setup[p] \in {"looping", "added"} => at[p]["loop"] = "running"
    /\ p \in peers => at[p]["loop"] \in {"running", "remove"}
    /\ pcs[p] = "closed" => dc[p] # "open"

\* A closed signaling peer stays closed.
LEMMA StaysClosed ==
    ASSUME HubTypeOK, [HubNext]_hubVars, NEW q \in Peers, closed[q]
    PROVE  closed'[q]
  <1> USE DEF HubTypeOK
  <1>1. ASSUME NEW p \in Peers, PeerClose(p) PROVE closed'[q]
      BY <1>1 DEF PeerClose
  <1>2. CASE UNCHANGED hubVars
      BY <1>2 DEF hubVars
  <1>3. ASSUME NEW p \in Peers, Serving(p) PROVE closed'[q]
      BY <1>1, <1>3 DEF Serving, Join, JoinPanics, ReadFails, LeaveRoom, Notice,
                        RelayDone, Leave, Cast, CastPanics, Moves
  <1>4. ASSUME NEW p \in Peers, Opening(p) \/ Reading(p) PROVE closed'[q]
      BY <1>4 DEF Opening, Reading, StartPumps, OnPeerPanics, Relay, Forward, Moves
  <1>5. ASSUME NEW p \in Peers,
               WriterEnds(p) \/ DropSlow(p) \/ CloseSignaling(p)
        PROVE  closed'[q]
      BY <1>1, <1>5 DEF WriterEnds, DropSlow, CloseSignaling
  <1>6. ASSUME NEW p \in Peers,
               Upgrade(p) \/ ConnLost(p) \/ Write(p) \/ OnMessagePanics(p)
        PROVE  closed'[q]
      BY <1>6 DEF Upgrade, ConnLost, Write, OnMessagePanics, Moves
  <1>7. ASSUME NEW p \in Peers, NEW m \in Outgoing, TrySend(p, m) PROVE closed'[q]
      BY <1>7 DEF TrySend
  <1> QED BY <1>2, <1>3, <1>4, <1>5, <1>6, <1>7 DEF HubNext

LEMMA TornApartStep ==
    ASSUME LifeInv, Next, NEW q \in Peers, TornApart(q)
    PROVE  TornApart(q)'
  <1> USE DEF TornApart
  <1>0. /\ setup \in [Peers -> {"none", "unwired", "wired", "failed", "local", "offered",
                                "looping", "added", "ready"}]
        /\ pcs \in [Peers -> {"none", "new", "connected"} \cup Lost]
        /\ dc \in [Peers -> {"none", "open", "closed"}]
        /\ inboxClosed \in [Peers -> BOOLEAN]
        /\ at \in [Peers -> [Threads -> Places]]
        /\ "loop" \in Threads /\ Lost \subseteq Threads /\ "closed" \in Lost
        /\ "loop" \notin Lost
        /\ Untouched(q)
        /\ closed[q] => closed'[q]
    <2>1. [HubNext]_hubVars
        BY StepIsHub
    <2> QED BY <2>1, StaysClosed DEF LifeInv, TypeOK, Places, Threads, Lost
  <1>1. ASSUME NEW p \in Peers, Handle(p) PROVE TornApart(q)'
    <2>1. CASE Create(p)
        BY <1>0, <2>1 DEF Create, Setup, ChangeState, loopVars, Untouched
    <2>2. CASE OfferFails(p)
      <3>1. /\ UNCHANGED <<peers, inboxClosed>>
            /\ setup' = [setup EXCEPT ![p] = "failed"] /\ setup[p] = "wired"
            /\ ChangeState(p, "closed") /\ (at' = at \/ at' = Handler(p, "closed"))
          BY <2>2 DEF OfferFails, Setup
      <3>2. /\ at'[q]["loop"] = at[q]["loop"]
            /\ \A t \in Threads :
                 at[q][t] \in {"closing pc", "closing signaling"} => at'[q][t] = at[q][t]
        <4>1. CASE at' = at
            BY <4>1
        <4>2. CASE at' = Handler(p, "closed")
            BY <1>0, <4>2 DEF Handler
        <4> QED BY <3>1, <4>1, <4>2
      <3>3. pcs'[q] = "closed" => dc'[q] # "open"
          BY <1>0, <3>1 DEF ChangeState
      <3>4. inboxClosed[q] => q # p /\ pcs'[q] = pcs[q]
          BY <1>0, <3>1 DEF ChangeState, Untouched
      <3> QED BY <1>0, <3>1, <3>2, <3>3, <3>4
    <2>3. CASE StartLoop(p)
        BY <1>0, <2>3 DEF StartLoop, Setup, Step, pcVars
    <2>4. CASE AddPeer(p)
        BY <1>0, <2>4 DEF AddPeer, Setup, pcVars, loopVars
    <2>5. CASE SetTarget(p)
        BY <1>0, <2>5 DEF SetTarget, Setup, pcVars, loopVars
    <2>6. CASE CreateFails(p) \/ SetLocalDescription(p) \/ SendOffer(p)
        BY ZenonT(30), <1>0, <2>6 DEF CreateFails, SetLocalDescription, SendOffer,
                                      Setup, pcVars, loopVars
    <2>7. CASE SendOfferPanics(p) \/ Pumps(p)
        BY <1>0, <2>7 DEF SendOfferPanics, Pumps, rtcVars, mgrVars, pcVars, loopVars
    <2> QED BY <1>1, <2>1, <2>2, <2>3, <2>4, <2>5, <2>6, <2>7 DEF Handle
  <1>2. ASSUME NEW p \in Peers, LoopReceives(p) PROVE TornApart(q)'
      BY <1>0, <1>2 DEF LoopReceives
  <1>3. ASSUME NEW p \in Peers, LoopEnds(p) PROVE TornApart(q)'
    <2>1. /\ UNCHANGED <<setup, peers, pcs, dc, inboxClosed>>
          /\ inboxClosed[p] /\ at[p]["loop"] = "running"
          /\ at' = [at EXCEPT ![p]["loop"] = "remove"]
        BY <1>3 DEF LoopEnds, Step, mgrVars, pcVars
    <2>2. CASE q # p
      <3>1. at'[q] = at[q]
          BY <1>0, <2>1, <2>2
      <3> QED BY <1>0, <2>1, <3>1
    <2>3. CASE q = p
      <3>1. at'[q] = [at[q] EXCEPT !["loop"] = "remove"]
          BY <1>0, <2>1, <2>3
      <3>2. at'[q]["loop"] = "remove" /\ \A t \in Lost : at'[q][t] = at[q][t]
        <4>1. at[q] \in [Threads -> Places] /\ "loop" \in Threads
              /\ Lost \subseteq Threads /\ "loop" \notin Lost
            BY <1>0
        <4> HIDE DEF TornApart
        <4> QED BY <3>1, <4>1
      <3>3. setup[q] \notin {"looping", "added"}
          BY <1>0, <2>1, <2>3 DEF Untouched
      <3>4. ASSUME NEW t \in Threads, at[q][t] \in {"closing pc", "closing signaling"}
            PROVE  at'[q][t] = at[q][t]
          BY <2>1, <2>3, <3>2, <3>4 DEF Threads
      <3>5. pcs' = pcs /\ dc' = dc /\ peers' = peers /\ setup' = setup
            /\ inboxClosed' = inboxClosed /\ (closed[q] => closed'[q])
          BY <1>0, <2>1
      <3>6. inboxClosed[q] => \/ \E t \in Threads : at'[q][t] = "closing pc"
                              \/ /\ pcs[q] = "closed"
                                 /\ \/ closed'[q]
                                    \/ \E t \in Threads : at'[q][t] = "closing signaling"
          BY <3>4, <3>5
      <3> QED BY <3>2, <3>3, <3>5, <3>6
    <2> QED BY <2>2, <2>3
  <1>4. ASSUME NEW p \in Peers, HubWorks(p) \/ HubOpens(p) PROVE TornApart(q)'
      BY <1>0, <1>4 DEF HubWorks, HubOpens, rtcVars, mgrVars, pcVars, loopVars
  <1>5. ASSUME NEW p \in Peers, NEW t \in Threads, Close(p, t) PROVE TornApart(q)'
    <2>0. at[q]["loop"] \in {"call", "closing pc", "closing signaling", "remove"} =>
              setup[q] \notin {"looping", "added"}
        BY DEF TornApart
    <2>1. CASE CloseInbox(p, t)
        BY <1>0, <2>0, <2>1 DEF CloseInbox, Step, Return, mgrVars, pcVars
    <2>2. CASE ClosePC(p, t)
        BY <1>0, <2>0, <2>2 DEF ClosePC, ChangeState, Handler, mgrVars
    <2>3. CASE CloseSig(p, t)
      <3>1. /\ UNCHANGED <<mgrVars, pcVars, inboxClosed, setup>>
            /\ at[p][t] = "closing signaling"
            /\ \A u \in Threads : u # t => at'[p][u] = at[p][u]
            /\ \A r \in Peers \ {p} : at'[r] = at[r]
          BY <1>0, <2>3 DEF CloseSig, Step, mgrVars
      <3>2. closed'[p] /\ \A r \in Peers : closed[r] => closed'[r]
          BY <2>3 DEF CloseSig, CloseSignaling, PeerClose, LifeInv, HubInv, HubTypeOK
      <3>3. CASE q # p
          BY <1>0, <3>1, <3>2, <3>3 DEF mgrVars, pcVars
      <3>4. CASE q = p
          BY <1>0, <2>0, <3>1, <3>2, <3>4 DEF mgrVars, pcVars
      <3> QED BY <3>3, <3>4
    <2>4. CASE RemovePeer(p, t)
        BY <1>0, <2>0, <2>4 DEF RemovePeer, Step, pcVars
    <2> QED BY <1>5, <2>1, <2>2, <2>3, <2>4 DEF Close
  <1>6. ASSUME NEW p \in Peers, Candidate(p) PROVE TornApart(q)'
      BY <1>0, <1>6 DEF Candidate, mgrVars, loopVars
  <1>7. ASSUME NEW p \in Peers, Connect(p) PROVE TornApart(q)'
      BY <1>0, <1>7 DEF Connect, mgrVars, loopVars, Lost
  <1>8. ASSUME NEW p \in Peers, NEW s \in Lost, LoseConnection(p, s) PROVE TornApart(q)'
      BY <1>0, <1>8 DEF LoseConnection, ChangeState, Handler, mgrVars, Lost
  <1>9. ASSUME NEW p \in Peers, Deliver(p) \/ ReadMessage(p) PROVE TornApart(q)'
      BY <1>0, <1>9 DEF Deliver, ReadMessage, mgrVars, pcVars, loopVars
  <1>10. ASSUME NEW p \in Peers, NEW m \in Inputs, BrowserSends(p, m) PROVE TornApart(q)'
      BY <1>0, <1>10 DEF BrowserSends, mgrVars, pcVars, loopVars
  <1> QED BY <1>1, <1>2, <1>3, <1>4, <1>5, <1>6, <1>7, <1>8, <1>9, <1>10 DEF Next, Loop

TornInv == \A p \in Peers : TornApart(p)

LEMMA TornApartHolds == Spec => [](LifeInv /\ TornInv)
  <1> USE DEF TornInv
  <1>1. Init => TornInv
      BY DEF Init, TornApart
  <1>2. LifeInv /\ TornInv /\ [Next]_vars => TornInv'
    <2> SUFFICES ASSUME LifeInv, \A p \in Peers : TornApart(p), [Next]_vars,
                        NEW q \in Peers
                 PROVE  TornApart(q)'
        OBVIOUS
    <2>1. CASE Next
        BY <2>1, TornApartStep
    <2>2. CASE UNCHANGED vars
        BY <2>2 DEF TornApart, vars, hubVars, rtcVars, mgrVars, pcVars, loopVars
    <2> QED BY <2>1, <2>2
  <1> QED BY <1>1, <1>2, InitInv, LifeStepInv, PTL DEF Spec

\* When a peer is closed and the goroutines that close have ended, nothing of
\* it is left: not in the manager, no connection, no channel (peer.go:133-139,
\* 171-177, 226-243).
THEOREM ClosedForGood == Spec => []NothingSurvives
  <1>1. LifeInv /\ TornInv /\ OneCloser => NothingSurvives
    <2> SUFFICES ASSUME LifeInv, NEW p \in Peers, TornApart(p), inboxClosed[p],
                        \A t \in Threads : at[p][t] \in {"idle", "done"}
                 PROVE  /\ p \notin peers /\ closed[p] /\ conn[p] = "down"
                        /\ pcs[p] = "closed" /\ dc[p] # "open"
        BY DEF NothingSurvives, TornInv, OneCloser
    <2>1. closed[p] => conn[p] = "down"
        BY DEF LifeInv, HubInv, Ends
    <2>2. pcs[p] = "closed" /\ closed[p]
        BY DEF TornApart
    <2>3. p \notin peers /\ dc[p] # "open"
        BY <2>2 DEF TornApart, Threads
    <2> QED BY <2>1, <2>2, <2>3
  <1> QED BY <1>1, TornApartHolds, ClosedOnce, PTL

=============================================================================
