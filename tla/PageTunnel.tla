----------------------------- MODULE PageTunnel -----------------------------
(***************************************************************************)
(* The tunnels one gateway page builds to one target, one after another    *)
(* (web/files/client.js): ensureTunnel, buildTunnel, the callbacks of its  *)
(* WebSocket, PeerConnection and DataChannel, the timers they start, the   *)
(* keepalive, closeTunnel, pruneStaleTunnels, and the page's own entry in  *)
(* the registry.  A callback or a timer belongs to the tunnel that made    *)
(* it, and acts on the map and on the entry by their key: one of an old    *)
(* tunnel may find a new one there.                                        *)
(*                                                                         *)
(* What other pages do to the entry is TunnelRegistry.tla; what travels in *)
(* an open channel is Tunnel.tla. The user's Connect (switchTarget) opens  *)
(* a window before the tunnel is there, which waits until one of the       *)
(* callbacks, or the caller of ensureTunnel, finds the tunnel open. Times  *)
(* are abstract: a timer fires at any time after it was set, an entry is   *)
(* stale whenever the code looks at it, or not. One call of ensureTunnel   *)
(* at a time waits for a probe. dc.send does not throw on an open channel. *)
(***************************************************************************)
EXTENDS Naturals

CONSTANTS Tunnels,      \* the tunnels the page may build
          MaxFails,     \* failCount at which a channel is given up (3)
          None

ASSUME PageAssumption == None \notin Tunnels /\ MaxFails \in Nat \ {0}

VARIABLES
    ws,         \* ws[e]: the signaling WebSocket; "none" before e is built
    pc,         \* pc[e]: the PeerConnection may still connect
    dc,         \* dc[e]: "dying" is closed by the page, its onclose to come
    touching,   \* the tunnels whose touchTimer runs
    missed,     \* missed[e]: 0, or failCount + 1 while a ping is unanswered
    late,       \* pending clean-ups of ws.onclose and of a lost connection
    listed,     \* tunnels.get(k)
    entry,      \* the page's entry of the registry
    checks,     \* who waits in ensureTunnel for verifyTunnelAlive: "none",
                \* the page itself or its user, who has clicked Connect
    pending,    \* pendingNavWindow waits for this target
    navigated   \* this target is in navigatedKeys

tunnelVars == <<ws, pc, dc, touching, missed>>
nav == <<pending, navigated>>
vars == <<tunnelVars, late, listed, entry, checks, nav>>

Init ==
    /\ ws = [e \in Tunnels |-> "none"]
    /\ pc = [e \in Tunnels |-> "off"]
    /\ dc = [e \in Tunnels |-> "none"]
    /\ touching = {} /\ late = {}
    /\ missed = [e \in Tunnels |-> 0]
    /\ listed = None /\ entry = "none" /\ checks = "none"
    /\ pending = FALSE /\ navigated = FALSE

IsOpen(e)  == e # None /\ dc[e] = "open"

\* touchTunnel on the page's own entry: what is ready stays ready.
Touched(old, isReady) ==
    IF isReady THEN "ready" ELSE IF old = "none" THEN "pending" ELSE old

\* ws.close(): its onclose is still to come.
Closing(e) == IF ws[e] = "up" THEN [ws EXCEPT ![e] = "closing"] ELSE ws

----------------------------------------------------------------------------
(* Building.                                                               *)

\* The part of buildTunnel that runs in the caller's task, on the entry old.
Build(e, old) ==
    /\ ws[e] = "none" /\ ws' = [ws EXCEPT ![e] = "up"]
    /\ pc' = [pc EXCEPT ![e] = "on"]
    /\ touching' = touching \cup {e}
    /\ listed' = e
    /\ entry' = Touched(old, FALSE)
    /\ UNCHANGED <<dc, missed, late>>

\* A window is sent to the target: the one that waits for it, or a new one.
Show == pending' = FALSE /\ navigated' = TRUE

\* switchTarget opens a window, which the browser may block, before it calls
\* ensureTunnel; what becomes of it if the tunnel is not there yet.
Waits(by) ==
    /\ pending' \in IF by = "user" /\ ~navigated THEN {TRUE, pending} ELSE {pending}
    /\ UNCHANGED navigated

\* The tunnel is there.
Answered(by) == IF by = "user" THEN Show ELSE UNCHANGED nav

\* ensureTunnel finds an open tunnel.
Reuse(by) ==
    /\ IsOpen(listed)
    /\ entry' = Touched(entry, TRUE)
    /\ Answered(by)
    /\ UNCHANGED <<tunnelVars, late, listed, checks>>

\* Or one that is being built.
BeingBuilt(e) == e # None /\ dc[e] # "open" /\ ws[e] = "up"
Await(by) ==
    /\ BeingBuilt(listed) /\ Waits(by)
    /\ UNCHANGED <<tunnelVars, late, listed, entry, checks>>

Missing == ~(IsOpen(listed) \/ BeingBuilt(listed))

\* Or none, and an entry that is ready, fresh and owned by a living page.
StartCheck(by) ==
    /\ Missing /\ entry = "ready" /\ checks = "none"
    /\ checks' = by
    /\ listed' = None
    /\ Waits(by)
    /\ UNCHANGED <<tunnelVars, late, entry>>

\* Or an entry that is not, or whose keeper has lapsed: that one is removed.
Rebuild(by, e) ==
    /\ Missing
    /\ \/ Build(e, entry)
       \/ entry = "ready" /\ Build(e, "none")
    /\ Waits(by)
    /\ UNCHANGED checks

\* verifyTunnelAlive has answered: some tunnel, of whatever page, has served
\* the probe, or the entry is removed and a tunnel is built, whatever is in
\* the map by now.
CheckEnds ==
    /\ checks # "none" /\ checks' = "none"
    /\ \/ /\ entry' = Touched(entry, TRUE)
          /\ Answered(checks)
          /\ UNCHANGED <<tunnelVars, late, listed>>
       \/ /\ \E e \in Tunnels : Build(e, "none")
          /\ UNCHANGED nav

----------------------------------------------------------------------------
(* The signaling WebSocket and the PeerConnection.                         *)

\* Mutant: the touch timer goes on.
WsClosesTouching(e) ==
    /\ ws[e] \in {"up", "closing"} /\ ws' = [ws EXCEPT ![e] = "closed"]
    /\ late' = IF IsOpen(e) THEN late ELSE late \cup {<<e, "ws">>}
    /\ UNCHANGED <<pc, dc, missed, listed, entry, checks, touching, nav>>

\* Mutant: no clean-up is scheduled.
WsClosesForgets(e) ==
    /\ ws[e] \in {"up", "closing"} /\ ws' = [ws EXCEPT ![e] = "closed"]
    /\ touching' = touching \ {e}
    /\ UNCHANGED <<pc, dc, missed, listed, entry, checks, late, nav>>

\* ws.onclose.
WsCloses(e) ==
    /\ ws[e] \in {"up", "closing"} /\ ws' = [ws EXCEPT ![e] = "closed"]
    /\ touching' = touching \ {e}
    /\ late' = IF IsOpen(e) THEN late ELSE late \cup {<<e, "ws">>}
    /\ UNCHANGED <<pc, dc, missed, listed, entry, checks, nav>>

\* Mutant: whatever tunnel is in the map by then, open or not, is dropped.
WsCleanUpForced(e) ==
    /\ <<e, "ws">> \in late /\ late' = late \ {<<e, "ws">>}
    /\ IF IsOpen(e)
       THEN UNCHANGED <<listed, entry>>
       ELSE entry' = "none" /\ listed' = None
    /\ UNCHANGED <<tunnelVars, checks, nav>>

\* Its clean-up, 3 s later: it drops any tunnel that is not open.
WsCleanUp(e) ==
    /\ <<e, "ws">> \in late /\ late' = late \ {<<e, "ws">>}
    /\ IF IsOpen(e)
       THEN UNCHANGED <<listed, entry>>
       ELSE /\ entry' = "none"
            /\ listed' = IF IsOpen(listed) THEN listed ELSE None
    /\ UNCHANGED <<tunnelVars, checks, nav>>

\* connectionState "failed".
PcFails(e) ==
    /\ pc[e] = "on" /\ pc' = [pc EXCEPT ![e] = "off"]
    /\ ws' = Closing(e)
    /\ entry' = "none" /\ listed' = None
    /\ UNCHANGED <<dc, touching, missed, late, checks, nav>>

\* connectionState "disconnected": it may connect again.
PcDisconnects(e) ==
    /\ pc[e] = "on" /\ ~IsOpen(e)
    /\ late' = late \cup {<<e, "pc">>}
    /\ UNCHANGED <<tunnelVars, listed, entry, checks, nav>>

\* Its clean-up, 2.5 s later.
PcCleanUp(e) ==
    /\ <<e, "pc">> \in late /\ late' = late \ {<<e, "pc">>}
    /\ IF IsOpen(e)
       THEN UNCHANGED <<listed, entry>>
       ELSE entry' = "none" /\ listed' = None
    /\ UNCHANGED <<tunnelVars, checks, nav>>

----------------------------------------------------------------------------
(* The DataChannel and its keepalive.                                      *)

\* Mutant: the waiting window is left to ensureTunnel's caller.
DcOpensAlone(e) ==
    /\ pc[e] = "on" /\ dc[e] = "none"
    /\ dc' = [dc EXCEPT ![e] = "open"]
    /\ missed' = [missed EXCEPT ![e] = 0]
    /\ entry' = "ready"
    /\ UNCHANGED <<ws, pc, touching, late, listed, checks, nav>>

\* dc.onopen.
DcOpens(e) ==
    /\ pc[e] = "on" /\ dc[e] = "none"
    /\ dc' = [dc EXCEPT ![e] = "open"]
    /\ missed' = [missed EXCEPT ![e] = 0]
    /\ entry' = "ready"
    /\ IF pending THEN Show ELSE UNCHANGED nav
    /\ UNCHANGED <<ws, pc, touching, late, listed, checks>>

\* dc.onclose.  After pc.close() it may not come.
DcCloses(e) ==
    /\ dc[e] \in {"open", "dying"} /\ dc' = [dc EXCEPT ![e] = "closed"]
    /\ ws' = Closing(e)
    /\ touching' = touching \ {e}
    /\ missed' = [missed EXCEPT ![e] = 0]
    /\ entry' = "none" /\ listed' = None
    /\ UNCHANGED <<pc, late, checks, nav>>

\* A pong, or any other frame that shows the gateway is there.
Hears(e, pong) ==
    /\ IsOpen(e)
    /\ missed' = IF pong THEN [missed EXCEPT ![e] = 0] ELSE missed
    /\ entry' = Touched(entry, TRUE)
    /\ UNCHANGED <<ws, pc, dc, touching, late, listed, checks, nav>>

\* Mutant: every ping counts as the first.
SendPingForgets(e) ==
    /\ missed' = [missed EXCEPT ![e] = 1]
    /\ entry' = Touched(entry, TRUE)
    /\ UNCHANGED <<ws, pc, dc, touching, late, listed, checks, nav>>

SendPing(e) ==
    /\ missed' = [missed EXCEPT ![e] = @ + 1]
    /\ entry' = Touched(entry, TRUE)
    /\ UNCHANGED <<ws, pc, dc, touching, late, listed, checks, nav>>

GiveUp(e) ==
    /\ dc' = [dc EXCEPT ![e] = "dying"]
    /\ pc' = [pc EXCEPT ![e] = "off"]
    /\ ws' = Closing(e)
    /\ missed' = [missed EXCEPT ![e] = 0]
    /\ entry' = "none" /\ listed' = None
    /\ UNCHANGED <<touching, late, checks, nav>>

\* Mutant: the counter is compared the wrong way round.
PingTickOneMore(e) ==
    /\ IsOpen(e)
    /\ IF missed[e] > MaxFails THEN GiveUp(e) ELSE SendPing(e)

\* The 7 s timer.
PingTick(e) ==
    /\ IsOpen(e)
    /\ IF missed[e] >= MaxFails THEN GiveUp(e) ELSE SendPing(e)

----------------------------------------------------------------------------
(* Timers of the page, and its user.                                       *)

\* The 10 s touchTimer, which a tunnel that left the map may still have.
TouchTick(e) ==
    /\ e \in touching
    /\ entry' = Touched(entry, IsOpen(e))
    /\ UNCHANGED <<tunnelVars, late, listed, checks, nav>>

\* closeTunnel.
CloseTunnel ==
    /\ entry' = "none" /\ listed' = None
    /\ IF listed = None THEN UNCHANGED tunnelVars
       ELSE /\ ws' = Closing(listed)
            /\ pc' = [pc EXCEPT ![listed] = "off"]
            /\ dc' = IF IsOpen(listed) THEN [dc EXCEPT ![listed] = "dying"] ELSE dc
            /\ touching' = touching \ {listed}
            /\ missed' = [missed EXCEPT ![listed] = 0]
    /\ UNCHANGED <<late, checks, nav>>

\* pruneStaleTunnels: a listed tunnel that is dead goes with the entry; an
\* entry without an open tunnel goes when it is stale, or pending too long.
\* With an open one it goes only if it is pending and the WebSocket is closed.
Prune ==
    /\ IsOpen(listed) => ws[listed] = "closed" /\ entry = "pending"
    /\ entry' = "none"
    /\ listed' = IF listed # None /\ ws[listed] = "closed" /\ ~IsOpen(listed)
                 THEN None ELSE listed
    /\ UNCHANGED <<tunnelVars, late, checks, nav>>

\* The window that waits is closed, or the user connects to another target,
\* whose window takes its place; it is never shown then.
LoseWindow ==
    /\ pending /\ pending' = FALSE
    /\ UNCHANGED <<tunnelVars, late, listed, entry, checks, navigated>>

----------------------------------------------------------------------------
Ensure(by) == \/ Reuse(by) \/ Await(by) \/ StartCheck(by)
              \/ \E e \in Tunnels : Rebuild(by, e)

OfTunnel(e) ==
    \/ WsCloses(e) \/ WsCleanUp(e)
    \/ PcFails(e) \/ PcDisconnects(e) \/ PcCleanUp(e)
    \/ DcOpens(e) \/ DcCloses(e) \/ PingTick(e) \/ TouchTick(e)
    \/ \E pong \in BOOLEAN : Hears(e, pong)

Next ==
    \/ \E by \in {"page", "user"} : Ensure(by)
    \/ CheckEnds \/ CloseTunnel \/ Prune \/ LoseWindow
    \/ \E e \in Tunnels : OfTunnel(e)

Spec == Init /\ [][Next]_vars

\* The ping timer of an open channel fires.
Fairness == \A e \in Tunnels : WF_vars(PingTick(e))

FairSpec == Spec /\ Fairness

----------------------------------------------------------------------------
TypeOK ==
    /\ ws \in [Tunnels -> {"none", "up", "closing", "closed"}]
    /\ pc \in [Tunnels -> {"on", "off"}]
    /\ dc \in [Tunnels -> {"none", "open", "dying", "closed"}]
    /\ touching \subseteq Tunnels
    /\ missed \in [Tunnels -> 0 .. MaxFails]
    /\ late \subseteq Tunnels \X {"ws", "pc"}
    /\ listed \in Tunnels \cup {None}
    /\ entry \in {"none", "pending", "ready"}
    /\ checks \in {"none", "page", "user"}
    /\ pending \in BOOLEAN /\ navigated \in BOOLEAN

\* A tunnel in the map whose WebSocket and channel are both gone is about to
\* be removed: whatever order its callbacks came in, one of them has left a
\* clean-up behind (client.js:500-516, README.md:44).
DeadIsSwept ==
    \A e \in Tunnels : listed = e /\ ws[e] = "closed" /\ ~IsOpen(e)
        => <<e, "ws">> \in late

\* A window opened by Connect is waiting only while its target has not been
\* shown and no tunnel of the map is open: whichever of the callbacks and the
\* callers of ensureTunnel sees the tunnel first takes the window with it
\* (client.js:561-575, 737-753).
NoneWaits == pending => ~navigated /\ ~IsOpen(listed)

\* A ping that is not answered is answered later, or its channel is closed:
\* three pings are enough (client.js:579-600).
Noticed == \A e \in Tunnels : missed[e] > 0 ~> missed[e] = 0

\* An open tunnel of the map leaves it only by its own end, unless another
\* tunnel of its key is still connected, or is about to be cleaned up after a
\* lost connection, or a probe is awaited: the clean-ups of the sockets of
\* earlier tunnels, pruning and ensureTunnel let it be (client.js:452-470,
\* 500-516, 171-181).
Rival(e) ==
    \/ checks # "none"
    \/ \E f \in Tunnels \ {e} :
           pc[f] = "on" \/ dc[f] \in {"open", "dying"} \/ <<f, "pc">> \in late
Kept == [][\A e \in Tunnels :
    listed = e /\ IsOpen(e) /\ ~Rival(e) =>
        listed' = e \/ dc'[e] # "open" \/ pc'[e] = "off"]_vars

\* An entry that is gone while the page has no tunnel stays gone, whichever
\* timers and clean-ups of the tunnels it had are still to fire, until one is
\* built or opens, or a probe has been awaited (client.js:492, 505, 611).
NoTunnel == \A e \in Tunnels : ws[e] \in {"none", "closed"} /\ ~IsOpen(e)
StaysWithdrawn == [][
    NoTunnel /\ entry = "none" => entry' = "none" \/ ~NoTunnel' \/ checks' # checks]_vars

\* The page's status says "Ready" (client.js:552): while a channel is open, on a
\* connection that has not failed, the map has a tunnel, or the service worker's
\* messages find none.
OpenIsListed == \A e \in Tunnels : IsOpen(e) /\ pc[e] = "on" => listed # None
=============================================================================
