--------------------------- MODULE PeerLifecycle ---------------------------
(***************************************************************************)
(* The life of a gateway peer, from the signaling connection to its        *)
(* teardown: Manager.HandleSignalingPeer, Peer.runGatewaySignalingLoop,    *)
(* Peer.Close and the pion callbacks (internal/webrtc/peer.go), called     *)
(* from the /p2p/signal handler (cmd/gateway/main.go:151-162) and composed *)
(* with the hub that carries the signaling (Hub.tla).                      *)
(*                                                                         *)
(* Peer.Close runs in several goroutines: the signaling loop, and one per  *)
(* connection state change, since pion starts each handler in a goroutine  *)
(* of its own.  A panic in any of these, unlike one in ServeWS, ends the   *)
(* process.  Closing the WebSocket streams is in WsBridge.tla.             *)
(*                                                                         *)
(* Connectable are the peers for which NewPeerConnection succeeds; LoopCap *)
(* stands for the 64 of Peer.inbox, MaxCandidates bounds the local         *)
(* candidates pion reports.                                                *)
(***************************************************************************)
EXTENDS Hub

CONSTANTS Connectable, LoopCap, MaxCandidates,
          Inputs        \* what the browser sends

ASSUME LifecycleAssumption ==
    /\ Connectable \subseteq Peers
    /\ LoopCap \in Nat /\ MaxCandidates \in Nat
    /\ Inputs \subseteq {"answer", "candidate", "target"}
    /\ {"offer", "candidate"} \subseteq Outgoing

VARIABLES
    setup,      \* progress of HandleSignalingPeer and its caller
    pcs,        \* pc's connection state
    remote,     \* the answer has been set
    gathered,   \* local candidates pion has reported
    dc,         \* the DataChannel's state
    peers,      \* the keys of Manager.peers
    target,     \* Peer.target
    loopInbox,  \* Peer.inbox, read by the signaling loop
    inboxClosed,\* Peer.closed, and close(p.inbox) has been called
    at,         \* where each goroutine that may call Peer.Close stands
    page,       \* what the browser has received
    sent,       \* what the browser has sent
    toHub,      \* sent and not yet read by readPump
    fault       \* why the process has died

mgrVars  == <<setup, peers, target>>
pcVars   == <<pcs, remote, gathered, dc>>
loopVars == <<loopInbox, inboxClosed, at>>
webVars  == <<page, sent, toHub>>
rtcVars  == <<mgrVars, pcVars, loopVars, webVars, fault>>
vars     == <<hubVars, rtcVars>>

Lost    == {"disconnected", "failed", "closed"}    \* states whose handler closes
Threads == Lost \cup {"loop"}

Init ==
    /\ HubInit
    /\ setup = [p \in Peers |-> "none"]
    /\ pcs = [p \in Peers |-> "none"]
    /\ remote = [p \in Peers |-> FALSE]
    /\ gathered = [p \in Peers |-> 0]
    /\ dc = [p \in Peers |-> "none"]
    /\ peers = {}
    /\ target = [p \in Peers |-> ""]
    /\ loopInbox = [p \in Peers |-> <<>>]
    /\ inboxClosed = [p \in Peers |-> FALSE]
    /\ at = [p \in Peers |-> [t \in Threads |-> "idle"]]
    /\ page = [p \in Peers |-> {}]
    /\ sent = [p \in Peers |-> {}]
    /\ toHub = [p \in Peers |-> <<>>]
    /\ fault = "none"

Setup(p, from, to) == setup[p] = from /\ setup' = [setup EXCEPT ![p] = to]

Step(p, t, from, to) == at[p][t] = from /\ at' = [at EXCEPT ![p][t] = to]

\* pc changes state: the channel follows, and a goroutine runs the handler.
ChangeState(p, s) ==
    /\ pcs' = [pcs EXCEPT ![p] = s]
    /\ dc' = IF s = "closed" /\ dc[p] = "open" THEN [dc EXCEPT ![p] = "closed"] ELSE dc

Handler(p, s) == IF at[p][s] = "idle" THEN [at EXCEPT ![p][s] = "call"] ELSE at

----------------------------------------------------------------------------
(* HandleSignalingPeer and SetTarget, in the ServeWS goroutine.            *)

\* NewPeerConnection, OnMessage, the DataChannel and the callbacks.
Create(p) ==
    /\ serve[p] = "joined" /\ p \in Connectable
    /\ Setup(p, "none", "wired")
    /\ ChangeState(p, "new")
    /\ UNCHANGED <<hubVars, loopVars, webVars, remote, gathered, peers,
                   target, fault>>

CreateFails(p) ==
    /\ serve[p] = "joined" /\ p \notin Connectable
    /\ Setup(p, "none", "unwired")
    /\ UNCHANGED <<hubVars, pcVars, loopVars, webVars, peers, target, fault>>

\* CreateDataChannel, CreateOffer or SetLocalDescription fails: pc.Close(),
\* whose handler is registered only after the first of them.
OfferFails(p) ==
    /\ serve[p] = "joined"
    /\ Setup(p, "wired", "failed")
    /\ ChangeState(p, "closed")
    /\ at' \in {at, Handler(p, "closed")}
    /\ UNCHANGED <<hubVars, webVars, remote, gathered, peers, target,
                   loopInbox, inboxClosed, fault>>

SetLocalDescription(p) ==
    /\ serve[p] = "joined"
    /\ Setup(p, "wired", "local")
    /\ UNCHANGED <<hubVars, pcVars, loopVars, webVars, peers, target, fault>>

SendOffer(p) ==
    /\ serve[p] = "joined"
    /\ Setup(p, "local", "offered")
    /\ TrySend(p, "offer")
    /\ UNCHANGED <<pcVars, loopVars, webVars, peers, target, fault>>

SendOfferPanics(p) ==
    /\ setup[p] = "local"
    /\ OnPeerPanics(p)
    /\ UNCHANGED rtcVars

StartLoop(p) ==
    /\ Setup(p, "offered", "looping")
    /\ Step(p, "loop", "idle", "running")
    /\ UNCHANGED <<hubVars, pcVars, webVars, peers, target, loopInbox,
                   inboxClosed, fault>>

\* Mutant: the peer is not added.
AddPeerForgets(p) ==
    /\ Setup(p, "looping", "added")
    /\ UNCHANGED <<hubVars, pcVars, loopVars, webVars, peers, target, fault>>

AddPeer(p) ==
    /\ Setup(p, "looping", "added")
    /\ peers' = peers \cup {p}
    /\ UNCHANGED <<hubVars, pcVars, loopVars, webVars, target, fault>>

\* if pc := mgr.Peer(p.ID); pc != nil { pc.SetTarget(target) }
SetTarget(p) ==
    /\ Setup(p, "added", "ready")
    /\ target' = IF p \in peers THEN [target EXCEPT ![p] = "resolved"] ELSE target
    /\ UNCHANGED <<hubVars, pcVars, loopVars, webVars, peers, fault>>

Pumps(p) ==
    /\ setup[p] \in {"ready", "failed", "unwired"}
    /\ StartPumps(p, setup[p] # "unwired")
    /\ UNCHANGED rtcVars

----------------------------------------------------------------------------
(* The callbacks of pion, in goroutines of their own.                      *)

\* OnICECandidate: select { case sp.Send <- msg: default: }
Candidate(p) ==
    /\ setup[p] \notin {"none", "unwired", "wired"} /\ pcs[p] # "closed"
    /\ gathered[p] < MaxCandidates
    /\ gathered' = [gathered EXCEPT ![p] = @ + 1]
    /\ IF closed[p]
       THEN fault' = "send on closed Send" /\ UNCHANGED hubVars
       ELSE TrySend(p, "candidate") /\ UNCHANGED fault
    /\ UNCHANGED <<mgrVars, loopVars, webVars, pcs, remote, dc>>

Connect(p) ==
    /\ pcs[p] = "new" /\ remote[p]
    /\ pcs' = [pcs EXCEPT ![p] = "connected"]
    /\ dc' = [dc EXCEPT ![p] = "open"]
    /\ UNCHANGED <<hubVars, mgrVars, loopVars, webVars, remote, gathered,
                   fault>>

LoseConnection(p, s) ==
    /\ \/ s = "disconnected" /\ pcs[p] = "connected"
       \/ s = "failed" /\ pcs[p] \in {"new", "disconnected"} /\ remote[p]
    /\ ChangeState(p, s)
    /\ at' = Handler(p, s)
    /\ UNCHANGED <<hubVars, mgrVars, webVars, remote, gathered, loopInbox,
                   inboxClosed, fault>>

----------------------------------------------------------------------------
(* runGatewaySignalingLoop.                                                *)

LoopReceives(p) ==
    /\ at[p]["loop"] = "running" /\ loopInbox[p] # <<>>
    /\ loopInbox' = [loopInbox EXCEPT ![p] = Tail(@)]
    /\ remote' = [remote EXCEPT ![p] =
                      @ \/ (Head(loopInbox[p]) = "answer" /\ pcs[p] # "closed")]
    /\ target' = IF Head(loopInbox[p]) = "target"
                 THEN [target EXCEPT ![p] = "switched"] ELSE target
    /\ UNCHANGED <<hubVars, webVars, setup, pcs, gathered, dc, peers,
                   inboxClosed, at, fault>>

\* The range over the closed inbox ends; the deferred function removes first.
LoopEnds(p) ==
    /\ loopInbox[p] = <<>> /\ inboxClosed[p]
    /\ Step(p, "loop", "running", "remove")
    /\ UNCHANGED <<hubVars, mgrVars, pcVars, webVars, loopInbox, inboxClosed,
                   fault>>

\* removePeer: before Close in the loop, after it in a state handler.
RemovePeer(p, t) ==
    /\ Step(p, t, "remove", IF t = "loop" THEN "call" ELSE "done")
    /\ peers' = peers \ {p}
    /\ UNCHANGED <<hubVars, pcVars, webVars, setup, target, loopInbox,
                   inboxClosed, fault>>

----------------------------------------------------------------------------
(* Peer.Close in goroutine t: the flag and the inbox under p.mu, then      *)
(* without it pc.Close() and the Close of the signaling peer.              *)

Return(t) == IF t = "loop" THEN "done" ELSE "remove"

\* Mutant: p.closed is not looked at.
CloseInboxAlways(p, t) ==
    /\ Step(p, t, "call", "closing pc")
    /\ inboxClosed' = [inboxClosed EXCEPT ![p] = TRUE]
    /\ UNCHANGED <<hubVars, mgrVars, pcVars, webVars, loopInbox, fault>>

CloseInbox(p, t) ==
    /\ Step(p, t, "call", IF inboxClosed[p] THEN Return(t) ELSE "closing pc")
    /\ inboxClosed' = [inboxClosed EXCEPT ![p] = TRUE]
    /\ UNCHANGED <<hubVars, mgrVars, pcVars, webVars, loopInbox, fault>>

ClosePC(p, t) ==
    /\ at[p][t] = "closing pc"
    /\ ChangeState(p, "closed")
    /\ at' = [Handler(p, "closed") EXCEPT ![p][t] = "closing signaling"]
    /\ UNCHANGED <<hubVars, mgrVars, webVars, remote, gathered, loopInbox,
                   inboxClosed, fault>>

\* Mutant: the signaling peer is left open.
CloseSigForgets(p, t) ==
    /\ Step(p, t, "closing signaling", Return(t))
    /\ UNCHANGED <<hubVars, mgrVars, pcVars, webVars, loopInbox, inboxClosed,
                   fault>>

\* Mutant: the WebSocket is closed directly, past the hub's Peer.Close.
CloseSigConn(p, t) ==
    /\ Step(p, t, "closing signaling", Return(t))
    /\ closed' = [closed EXCEPT ![p] = TRUE]
    /\ UNCHANGED <<room, serve, wired, send, conn, writer, slow, cast, inbox>>
    /\ UNCHANGED <<mgrVars, pcVars, webVars, loopInbox, inboxClosed, fault>>

CloseSig(p, t) ==
    /\ Step(p, t, "closing signaling", Return(t))
    /\ CloseSignaling(p)
    /\ UNCHANGED <<mgrVars, pcVars, webVars, loopInbox, inboxClosed, fault>>

----------------------------------------------------------------------------
(* The browser (buildTunnel in client.js) and the two ends of its socket.  *)

\* writePump delivers; ws.onmessage keeps the id, answers an offer, adds a
\* candidate and ignores the rest.
Deliver(p) ==
    /\ Write(p)
    /\ page' = [page EXCEPT ![p] = @ \cup ({Head(send[p])} \ {"broadcast"})]
    /\ UNCHANGED <<mgrVars, pcVars, loopVars, sent, toHub, fault>>

\* An answer and local candidates follow an offer; a target switch does not.
BrowserSends(p, m) ==
    /\ conn[p] = "up" /\ m \notin sent[p]
    /\ m = "target" \/ "offer" \in page[p]
    /\ sent' = [sent EXCEPT ![p] = @ \cup {m}]
    /\ toHub' = [toHub EXCEPT ![p] = Append(@, m)]
    /\ UNCHANGED <<hubVars, mgrVars, pcVars, loopVars, page, fault>>

\* readPump calls OnMessage: select { case p.inbox <- msg: default: }
ReadMessage(p) ==
    /\ serve[p] = "pumping" /\ wired[p] /\ toHub[p] # <<>>
    /\ toHub' = [toHub EXCEPT ![p] = Tail(@)]
    /\ IF inboxClosed[p]
       THEN OnMessagePanics(p) /\ UNCHANGED loopInbox
       ELSE /\ UNCHANGED hubVars
            /\ loopInbox' = IF Len(loopInbox[p]) < LoopCap
                            THEN [loopInbox EXCEPT ![p] = Append(@, Head(toHub[p]))]
                            ELSE loopInbox
    /\ UNCHANGED <<mgrVars, pcVars, inboxClosed, at, page, sent, fault>>

----------------------------------------------------------------------------
Handle(p) == \/ Create(p) \/ CreateFails(p) \/ OfferFails(p)
             \/ SetLocalDescription(p) \/ SendOffer(p) \/ SendOfferPanics(p)
             \/ StartLoop(p) \/ AddPeer(p) \/ SetTarget(p) \/ Pumps(p)
Loop(p)   == LoopReceives(p) \/ LoopEnds(p)
Close(p, t) == CloseInbox(p, t) \/ ClosePC(p, t) \/ CloseSig(p, t) \/ RemovePeer(p, t)
HubWorks(p) == (Serving(p) \/ WriterEnds(p) \/ DropSlow(p)) /\ UNCHANGED rtcVars
HubOpens(p) == (Upgrade(p) \/ ConnLost(p) \/ Reading(p)) /\ UNCHANGED rtcVars

Next ==
    /\ fault = "none"
    /\ \E p \in Peers :
        \/ Handle(p) \/ Loop(p) \/ HubWorks(p) \/ HubOpens(p)
        \/ \E t \in Threads : Close(p, t)
        \/ Candidate(p) \/ Connect(p) \/ \E s \in Lost : LoseConnection(p, s)
        \/ Deliver(p) \/ ReadMessage(p) \/ \E m \in Inputs : BrowserSends(p, m)

Spec == Init /\ [][Next]_vars

Alive(A) == fault = "none" /\ A

(* The gateway's goroutines run.  Pion, the network and the browser are    *)
(* bound to nothing.                                                       *)
FairSpec ==
    /\ Spec
    /\ \A p \in Peers :
        /\ WF_vars(Alive(Handle(p))) /\ WF_vars(Alive(Loop(p)))
        /\ WF_vars(Alive(Serving(p) /\ UNCHANGED rtcVars))
        /\ WF_vars(Alive(WriterEnds(p) /\ UNCHANGED rtcVars))
        /\ WF_vars(Alive(DropSlow(p) /\ UNCHANGED rtcVars))
        /\ WF_vars(Alive(Deliver(p))) /\ WF_vars(Alive(ReadMessage(p)))
        /\ \A t \in Threads : WF_vars(Alive(Close(p, t)))

----------------------------------------------------------------------------
(* Properties.                                                             *)

TypeOK ==
    /\ HubTypeOK
    /\ setup \in [Peers -> {"none", "unwired", "wired", "failed", "local", "offered",
                            "looping", "added", "ready"}]
    /\ pcs \in [Peers -> {"none", "new", "connected"} \cup Lost]
    /\ remote \in [Peers -> BOOLEAN]
    /\ gathered \in [Peers -> 0 .. MaxCandidates]
    /\ dc \in [Peers -> {"none", "open", "closed"}]
    /\ peers \subseteq Connectable
    /\ target \in [Peers -> {"", "resolved", "switched"}]
    /\ loopInbox \in [Peers -> Seq(Inputs)] /\ toHub \in [Peers -> Seq(Inputs)]
    /\ inboxClosed \in [Peers -> BOOLEAN]
    /\ at \in [Peers -> [Threads -> {"idle", "running", "call", "closing pc",
                                     "closing signaling", "remove", "done"}]]
    /\ page \in [Peers -> SUBSET Messages] /\ sent \in [Peers -> SUBSET Inputs]
    /\ fault \in {"none", "send on closed Send"}

\* A request can arrive only when its peer has a target: the target is set
\* before writePump carries the offer without which no channel opens, so no
\* request is refused with "no target for peer" (main.go:153-161, 276-279).
TargetBeforeTraffic == \A p \in Peers : dc[p] = "open" => target[p] # ""

\* The browser knows its id before anything it has to answer arrives; what
\* it sends is addressed with that id (hub.go:149-158, client.js:684-685).
IdBeforeOffer ==
    \A p \in Peers : page[p] \cap {"offer", "candidate"} # {} => "join" \in page[p]

\* However many state handlers and the loop call Close, its body runs in at
\* most one of them: p.inbox is closed once (peer.go:226-243).
OneCloser ==
    \A p \in Peers :
        Cardinality({t \in Threads : at[p][t] \in {"closing pc", "closing signaling"}}) <= 1

\* Once a peer is closed nothing of it stays: not in the manager, not in the
\* room, no loop, no open signaling connection (peer.go:133-139, 171-177).
TornDown ==
    \A p \in Peers :
        inboxClosed[p] ~> \/ fault # "none"
                          \/ /\ p \notin peers /\ closed[p] /\ conn[p] = "down"
                             /\ p \notin room \/ serve[p] = "panicked"
                             /\ at[p]["loop"] \in {"idle", "done"}

\* Close runs once and to its end: when the flag is set and none of the
\* goroutines that close is still at work, nothing of the peer is left,
\* whichever of them ran the body of Close and in which order the others came
\* (peer.go:133-139, 171-177, 226-243).
NothingSurvives ==
    /\ OneCloser
    /\ \A p \in Peers :
        inboxClosed[p] /\ (\A t \in Threads : at[p][t] \in {"idle", "done"}) =>
            /\ p \notin peers /\ closed[p] /\ conn[p] = "down"
            /\ pcs[p] = "closed" /\ dc[p] # "open"

(* What a log message and a comment say and the code does not do.          *)

\* peer.go:125 "signaling Send full, dropping candidate": a candidate that
\* the signaling cannot take is dropped, and the process lives.
CandidateIsDropped == fault = "none"

\* hub.go:198 "Closing the peer also closes Inbox so WebRTC loops unblock":
\* when the signaling connection of a peer has been closed its loop ends, also
\* when no answer has come and no connection state will ever change, so that
\* nothing else ends it (peer.go:179, 201-236).
LoopUnblocks ==
    \A p \in Peers :
        closed[p] ~> \/ at[p]["loop"] \in {"idle", "done"}
                    \/ remote[p] \/ fault # "none"
=============================================================================
