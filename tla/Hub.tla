-------------------------------- MODULE Hub --------------------------------
(***************************************************************************)
(* The signaling hub (internal/signaling/hub.go): one room of WebSocket    *)
(* connections.  Each connection has a goroutine that serves it (ServeWS,  *)
(* then readPump), a writePump goroutine that drains its Send channel, and *)
(* is written to by the goroutines of the other connections, which notify  *)
(* it of departures, and by the WebRTC layer (PeerLifecycle.tla).          *)
(*                                                                         *)
(* Sending on a closed Go channel panics, also inside a select with a      *)
(* default.  A panic in a ServeWS goroutine runs its deferred calls and is *)
(* then recovered by net/http: that goroutine stops, the process does not. *)
(*                                                                         *)
(* Here the WebRTC layer is an environment that may send to a peer that is *)
(* not closed, close a peer, and break its read loop.  What a room is      *)
(* named after (r.Host) is left out: rooms share nothing but the hub's map.*)
(* SendCap stands for 128 and InboxCap for 64.                             *)
(***************************************************************************)
EXTENDS Naturals, Sequences, FiniteSets

CONSTANTS Peers, SendCap, InboxCap,
          Outgoing      \* what the WebRTC layer sends: offers and candidates

ASSUME CapsAssumption == SendCap \in Nat \ {0} /\ InboxCap \in Nat

VARIABLES
    room,       \* the keys of Room.Peers
    serve,      \* where the ServeWS goroutine of a peer stands
    wired,      \* p.OnMessage is set
    send,       \* p.Send
    closed,     \* p.closed, and close(p.Send) has been called
    conn,       \* the WebSocket connection
    writer,     \* the writePump goroutine
    slow,       \* peers with a "go p.Close()" not yet run
    cast,       \* the peers a running broadcast has still to reach
    inbox       \* messages in p.Inbox, which no goroutine reads

hubVars == <<room, serve, wired, send, closed, conn, writer, slow, cast, inbox>>

Messages == {"join", "broadcast"} \cup Outgoing
Stages   == {"idle", "added", "joined", "pumping", "relaying", "leaving",
             "removed", "noticing", "done", "panicked"}

HubInit ==
    /\ room = {} /\ slow = {}
    /\ serve = [p \in Peers |-> "idle"]
    /\ wired = [p \in Peers |-> FALSE]
    /\ send = [p \in Peers |-> <<>>]
    /\ closed = [p \in Peers |-> FALSE]
    /\ conn = [p \in Peers |-> "none"]
    /\ writer = [p \in Peers |-> "none"]
    /\ cast = [p \in Peers |-> {}]
    /\ inbox = [p \in Peers |-> 0]

At(p, from, to) == serve[p] = from /\ serve' = [serve EXCEPT ![p] = to]

\* The ServeWS goroutine goes on and touches nothing else.
Moves(p, from, to) ==
    /\ At(p, from, to)
    /\ UNCHANGED <<room, wired, send, closed, conn, writer, slow, cast, inbox>>

\* Mutant: one message more than the channel holds.
FullOffByOne(p) == Len(send[p]) > SendCap

Full(p) == Len(send[p]) >= SendCap

Queue(p, m) == send' = [send EXCEPT ![p] = Append(@, m)]

\* Peer.Close: the flag, close(p.Send) and Conn.Close() under p.mu, once.
PeerClose(p) ==
    /\ closed' = [closed EXCEPT ![p] = TRUE]
    /\ conn' = IF closed[p] THEN conn ELSE [conn EXCEPT ![p] = "down"]

----------------------------------------------------------------------------
(* ServeWS.                                                                *)

Upgrade(p) ==
    /\ At(p, "idle", "added")
    /\ conn' = [conn EXCEPT ![p] = "up"]
    /\ room' = room \cup {p}
    /\ UNCHANGED <<wired, send, closed, writer, slow, cast, inbox>>

\* Mutant: the id is not sent.
JoinForgets(p) == ~closed[p] /\ ~Full(p) /\ Moves(p, "added", "joined")

\* peer.Send <- joinMsg: waits for room in the channel, panics once it is closed.
Join(p) ==
    /\ ~closed[p] /\ ~Full(p)
    /\ At(p, "added", "joined")
    /\ Queue(p, "join")
    /\ UNCHANGED <<room, wired, closed, conn, writer, slow, cast, inbox>>

\* There is no deferred clean-up yet: the peer stays in the room.
JoinPanics(p) == closed[p] /\ Moves(p, "added", "panicked")

\* onPeer has returned; it has set OnMessage or not.
StartPumps(p, ok) ==
    /\ At(p, "joined", "pumping")
    /\ wired' = [wired EXCEPT ![p] = ok]
    /\ writer' = [writer EXCEPT ![p] = "running"]
    /\ UNCHANGED <<room, send, closed, conn, slow, cast, inbox>>

----------------------------------------------------------------------------
(* writePump.                                                              *)

Write(p) ==
    /\ writer[p] = "running" /\ send[p] # <<>> /\ conn[p] = "up"
    /\ send' = [send EXCEPT ![p] = Tail(@)]
    /\ UNCHANGED <<room, serve, wired, closed, conn, writer, slow, cast, inbox>>

\* WriteMessage fails, or Send is closed and empty: return, and p.Close().
WriterEnds(p) ==
    /\ writer[p] = "running"
    /\ \/ send[p] # <<>> /\ conn[p] = "down" /\ send' = [send EXCEPT ![p] = Tail(@)]
       \/ send[p] = <<>> /\ closed[p] /\ UNCHANGED send
    /\ writer' = [writer EXCEPT ![p] = "done"]
    /\ PeerClose(p)
    /\ UNCHANGED <<room, serve, wired, slow, cast, inbox>>

----------------------------------------------------------------------------
(* readPump.                                                               *)

\* A message without "to" of a peer without OnMessage is broadcast.
Relay(p) ==
    /\ ~wired[p] /\ conn[p] = "up"
    /\ At(p, "pumping", "relaying")
    /\ cast' = [cast EXCEPT ![p] = room \ {p}]
    /\ UNCHANGED <<room, wired, send, closed, conn, writer, slow, inbox>>

\* One with "to" goes to the Inbox of the named peer, if it is in the room.
Forward(p, q) ==
    /\ serve[p] = "pumping" /\ ~wired[p] /\ conn[p] = "up" /\ q \in room
    /\ inbox[q] < InboxCap
    /\ inbox' = [inbox EXCEPT ![q] = @ + 1]
    /\ UNCHANGED <<room, serve, wired, send, closed, conn, writer, slow, cast>>

\* OnMessage panics on the closed inbox of the WebRTC layer.
OnMessagePanics(p) == wired[p] /\ Moves(p, "pumping", "leaving")

ReadFails(p) == conn[p] = "down" /\ Moves(p, "pumping", "leaving")

\* Mutant: the departing peer stays in the room.
LeaveRoomForgets(p) == Moves(p, "leaving", "removed")

LeaveRoom(p) ==
    /\ At(p, "leaving", "removed")
    /\ room' = room \ {p}
    /\ UNCHANGED <<wired, send, closed, conn, writer, slow, cast, inbox>>

Notice(p) ==
    /\ At(p, "removed", "noticing")
    /\ cast' = [cast EXCEPT ![p] = room \ {p}]
    /\ UNCHANGED <<room, wired, send, closed, conn, writer, slow, inbox>>

\* broadcast, after its snapshot: one send, without the lock.
Cast(p, q) ==
    /\ serve[p] \in {"relaying", "noticing"} /\ q \in cast[p] /\ ~closed[q]
    /\ cast' = [cast EXCEPT ![p] = @ \ {q}]
    /\ IF Full(q)
       THEN slow' = slow \cup {q} /\ UNCHANGED send
       ELSE Queue(q, "broadcast") /\ UNCHANGED slow
    /\ UNCHANGED <<room, serve, wired, closed, conn, writer, inbox>>

\* The send panics.  In readPump's loop the deferred function runs; in the
\* deferred function itself the goroutine ends before its p.Close().
CastPanics(p, q) ==
    /\ q \in cast[p] /\ closed[q]
    /\ Moves(p, "relaying", "leaving") \/ Moves(p, "noticing", "panicked")

RelayDone(p) == cast[p] = {} /\ Moves(p, "relaying", "pumping")

\* Mutant: the deferred p.Close() is missing.
LeaveForgets(p) == cast[p] = {} /\ Moves(p, "noticing", "done")

Leave(p) ==
    /\ cast[p] = {}
    /\ At(p, "noticing", "done")
    /\ PeerClose(p)
    /\ UNCHANGED <<room, wired, send, writer, slow, cast, inbox>>

\* The "go p.Close()" of a broadcast that found Send full.
DropSlow(p) ==
    /\ p \in slow /\ slow' = slow \ {p}
    /\ PeerClose(p)
    /\ UNCHANGED <<room, serve, wired, send, writer, cast, inbox>>

----------------------------------------------------------------------------
(* The environment: the browser, the network and the WebRTC layer.         *)

ConnLost(p) ==
    /\ conn[p] = "up" /\ conn' = [conn EXCEPT ![p] = "down"]
    /\ UNCHANGED <<room, serve, wired, send, closed, writer, slow, cast, inbox>>

\* select { case sp.Send <- msg: default: } on a channel that is open.
TrySend(p, m) ==
    /\ serve[p] \notin {"idle", "added"} /\ ~closed[p]
    /\ IF Full(p) THEN UNCHANGED send ELSE Queue(p, m)
    /\ UNCHANGED <<room, serve, wired, closed, conn, writer, slow, cast, inbox>>

\* The same on a closed channel, in the ServeWS goroutine.
OnPeerPanics(p) == closed[p] /\ Moves(p, "joined", "panicked")

CloseSignaling(p) ==
    /\ serve[p] \notin {"idle", "added"}
    /\ PeerClose(p)
    /\ UNCHANGED <<room, serve, wired, send, writer, slow, cast, inbox>>

----------------------------------------------------------------------------
Serving(p) == \/ Join(p) \/ JoinPanics(p)
              \/ ReadFails(p) \/ LeaveRoom(p) \/ Notice(p) \/ RelayDone(p) \/ Leave(p)
              \/ \E q \in Peers : Cast(p, q) \/ CastPanics(p, q)
Reading(p) == Relay(p) \/ \E q \in Peers : Forward(p, q)
Opening(p) == \/ \E ok \in BOOLEAN : StartPumps(p, ok)
              \/ OnPeerPanics(p)

HubNext ==
    \E p \in Peers :
        \/ Upgrade(p) \/ ConnLost(p)
        \/ Serving(p) \/ Opening(p) \/ Reading(p)
        \/ Write(p) \/ WriterEnds(p) \/ DropSlow(p)
        \/ \E m \in Outgoing : TrySend(p, m)
        \/ OnMessagePanics(p) \/ CloseSignaling(p)

HubSpec == HubInit /\ [][HubNext]_hubVars

(* The goroutines run, and onPeer returns.  Nobody is bound to connect, to *)
(* send, to close or to fail.                                              *)
HubFairSpec ==
    /\ HubSpec
    /\ \A p \in Peers :
        /\ WF_hubVars(Serving(p)) /\ WF_hubVars(Opening(p))
        /\ WF_hubVars(Write(p) \/ WriterEnds(p)) /\ WF_hubVars(DropSlow(p))

----------------------------------------------------------------------------
(* Properties.                                                             *)

HubTypeOK ==
    /\ room \subseteq Peers /\ slow \subseteq Peers
    /\ serve \in [Peers -> Stages]
    /\ wired \in [Peers -> BOOLEAN]
    /\ send \in [Peers -> Seq(Messages)]
    /\ \A p \in Peers : Len(send[p]) <= SendCap
    /\ closed \in [Peers -> BOOLEAN]
    /\ conn \in [Peers -> {"none", "up", "down"}]
    /\ writer \in [Peers -> {"none", "running", "done"}]
    /\ cast \in [Peers -> SUBSET Peers]
    /\ inbox \in [Peers -> 0 .. InboxCap]

\* A goroutine that ends leaves nothing behind that needs it: a peer nobody
\* writes for any more takes no messages, and a peer whose departure was
\* announced in full is closed, out of the room, and left to no writer that
\* could wait for ever (hub.go:163, 192-200).
NothingLeftBehind ==
    \A p \in Peers :
        /\ writer[p] = "done" => closed[p] /\ conn[p] = "down"
        /\ serve[p] = "done"  => closed[p] /\ conn[p] = "down" /\ p \notin room

\* A peer being served whose connection is lost, or that is closed by whoever
\* closes it, leaves the room, and its goroutines end unless its own
\* announcement panicked.
Departs ==
    \A p \in Peers :
        (serve[p] = "pumping" /\ (closed[p] \/ conn[p] = "down"))
            ~> /\ p \notin room
               /\ serve[p] = "panicked" \/ (serve[p] = "done" /\ writer[p] = "done")
=============================================================================
