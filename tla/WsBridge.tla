------------------------------ MODULE WsBridge ------------------------------
(***************************************************************************)
(* The WebSocket streams of one gateway peer: the DataChannel callback     *)
(* that dispatches ws-open, ws-data and ws-close (internal/webrtc/peer.go),*)
(* the goroutine per stream that dials the upstream and pumps its messages *)
(* (internal/proxy/proxy.go), and Peer.Close, which sweeps the streams.    *)
(* They share the map Peer.wsStreams under p.mu; every critical section is *)
(* one action.                                                             *)
(*                                                                         *)
(* The client is any client of the protocol of proxy.go:13-18 that opens a *)
(* stream id once and asks for its close once.  A message is its type:     *)
(* what a ws-data frame carries matters only for where it comes from, so   *)
(* the upstream's messages are "ws-data" and the client's own, sent back,  *)
(* are "echo".  MaxData bounds the messages per stream and direction.      *)
(***************************************************************************)
EXTENDS Naturals, Sequences

CONSTANTS Streams, MaxData

ASSUME MaxDataAssumption == MaxData \in Nat

VARIABLES
    client,      \* what the client has sent on each stream
    toGw,        \* client -> gateway, ordered and reliable while dc is open
    dc,          \* dc.ReadyState() = Open
    bridge,      \* where the goroutine of proxy.handleWSOpen stands
    conn,        \* the upstream connection
    wsStreams,   \* the keys of Peer.wsStreams
    out,         \* the frames SendDC has handed to the channel, per stream
    peer         \* how far Peer.Close has come

vars == <<client, toGw, dc, bridge, conn, wsStreams, out, peer>>

Stages == {"none", "dialing", "dialed", "registered", "pump", "unregister", "done"}
Frames == {"ws-open-ok", "ws-open-err", "ws-data", "ws-closed", "echo"}
Inputs == [type : {"ws-open", "ws-data", "ws-close"}, id : Streams]

Init ==
    /\ client = [s \in Streams |-> [opened |-> FALSE, data |-> 0, closed |-> FALSE]]
    /\ toGw = <<>> /\ dc = TRUE
    /\ bridge = [s \in Streams |-> "none"]
    /\ conn = [s \in Streams |-> "none"]
    /\ wsStreams = {}
    /\ out = [s \in Streams |-> <<>>]
    /\ peer = "open"

\* SendDC: the error of SendText is ignored, and nothing is sent unless open.
SendDC(s, f) == out' = IF dc THEN [out EXCEPT ![s] = Append(@, f)] ELSE out

At(s, from, to) == bridge[s] = from /\ bridge' = [bridge EXCEPT ![s] = to]

CloseConns(S) == conn' = [s \in Streams |-> IF s \in S THEN "closed" ELSE conn[s]]

----------------------------------------------------------------------------
(* The client.                                                             *)

Put(type, s) == dc /\ toGw' = Append(toGw, [type |-> type, id |-> s])

ClientOpen(s) ==
    /\ ~client[s].opened
    /\ client' = [client EXCEPT ![s].opened = TRUE]
    /\ Put("ws-open", s)
    /\ UNCHANGED <<dc, bridge, conn, wsStreams, out, peer>>

ClientData(s) ==
    /\ client[s].opened /\ ~client[s].closed /\ client[s].data < MaxData
    /\ client' = [client EXCEPT ![s].data = @ + 1]
    /\ Put("ws-data", s)
    /\ UNCHANGED <<dc, bridge, conn, wsStreams, out, peer>>

ClientClose(s) ==
    /\ client[s].opened /\ ~client[s].closed
    /\ client' = [client EXCEPT ![s].closed = TRUE]
    /\ Put("ws-close", s)
    /\ UNCHANGED <<dc, bridge, conn, wsStreams, out, peer>>

\* The channel closes under the peer: what is still on the wire is lost.
DcDown ==
    /\ dc /\ dc' = FALSE /\ toGw' = <<>>
    /\ UNCHANGED <<client, bridge, conn, wsStreams, out, peer>>

----------------------------------------------------------------------------
(* dc.OnMessage: frames are handled one after the other.                   *)

Next1(type) == dc /\ toGw # <<>> /\ Head(toGw).type = type /\ toGw' = Tail(toGw)

\* Mutant: the stream is registered before the dial has a connection.
RecvOpenEager ==
    /\ Next1("ws-open")
    /\ At(Head(toGw).id, "none", "dialing")
    /\ wsStreams' = wsStreams \cup {Head(toGw).id}
    /\ UNCHANGED <<client, dc, conn, out, peer>>

RecvOpen ==
    /\ Next1("ws-open")
    /\ At(Head(toGw).id, "none", "dialing")
    /\ UNCHANGED <<client, dc, conn, wsStreams, out, peer>>

\* Handler calls RouteWSData, which sends the data on the DataChannel.
RecvData ==
    /\ Next1("ws-data")
    /\ SendDC(Head(toGw).id, "echo")
    /\ UNCHANGED <<client, dc, bridge, conn, wsStreams, peer>>

\* Mutant: handleWSClose forgets the stream without closing its connection.
RecvCloseForgets ==
    /\ Next1("ws-close")
    /\ wsStreams' = wsStreams \ {Head(toGw).id}
    /\ UNCHANGED <<client, dc, bridge, conn, out, peer>>

RecvClose ==
    /\ Next1("ws-close")
    /\ CloseConns({Head(toGw).id} \cap wsStreams)
    /\ wsStreams' = wsStreams \ {Head(toGw).id}
    /\ UNCHANGED <<client, dc, bridge, out, peer>>

----------------------------------------------------------------------------
(* proxy.handleWSOpen, a goroutine per ws-open.                            *)

\* A target or path that does not parse, or a dial that fails or times out.
DialFail(s) ==
    /\ At(s, "dialing", "done")
    /\ SendDC(s, "ws-open-err")
    /\ UNCHANGED <<client, toGw, dc, conn, wsStreams, peer>>

DialOK(s) ==
    /\ At(s, "dialing", "dialed")
    /\ conn' = [conn EXCEPT ![s] = "open"]
    /\ UNCHANGED <<client, toGw, dc, wsStreams, out, peer>>

RegisterWSStream(s) ==
    /\ At(s, "dialed", "registered")
    /\ wsStreams' = wsStreams \cup {s}
    /\ UNCHANGED <<client, toGw, dc, conn, out, peer>>

SendOK(s) ==
    /\ At(s, "registered", "pump")
    /\ SendDC(s, "ws-open-ok")
    /\ UNCHANGED <<client, toGw, dc, conn, wsStreams, peer>>

\* A message read from the upstream; one may be buffered in a closed connection.
Upstream(s) ==
    /\ bridge[s] = "pump"
    /\ Len(SelectSeq(out[s], LAMBDA f : f = "ws-data")) < MaxData
    /\ SendDC(s, "ws-data")
    /\ UNCHANGED <<client, toGw, dc, bridge, conn, wsStreams, peer>>

UpstreamGone(s) ==
    /\ conn[s] = "open"
    /\ CloseConns({s})
    /\ UNCHANGED <<client, toGw, dc, bridge, wsStreams, out, peer>>

\* Mutant: the pump reports the failed read and goes on reading.
ReadFailsContinues(s) ==
    /\ conn[s] = "closed" /\ bridge[s] = "pump"
    /\ Len(out[s]) < 2 * MaxData + 2
    /\ SendDC(s, "ws-closed")
    /\ UNCHANGED <<client, toGw, dc, bridge, conn, wsStreams, peer>>

ReadFails(s) ==
    /\ conn[s] = "closed"
    /\ At(s, "pump", "unregister")
    /\ SendDC(s, "ws-closed")
    /\ UNCHANGED <<client, toGw, dc, conn, wsStreams, peer>>

UnregisterWSStream(s) ==
    /\ At(s, "unregister", "done")
    /\ wsStreams' = wsStreams \ {s}
    /\ UNCHANGED <<client, toGw, dc, conn, out, peer>>

----------------------------------------------------------------------------
(* Peer.Close: the flag, the sweep and pc.Close() are three steps, and     *)
(* the callback and the goroutines go on between them.                     *)

Mark ==
    /\ peer = "open" /\ peer' = "marked"
    /\ UNCHANGED <<client, toGw, dc, bridge, conn, wsStreams, out>>

\* Mutant: the sweep replaces the map without closing what was in it.
SweepForgets ==
    /\ peer = "marked" /\ peer' = "swept"
    /\ wsStreams' = {}
    /\ UNCHANGED <<client, toGw, dc, bridge, conn, out>>

CloseAllWSStreams ==
    /\ peer = "marked" /\ peer' = "swept"
    /\ CloseConns(wsStreams)
    /\ wsStreams' = {}
    /\ UNCHANGED <<client, toGw, dc, bridge, out>>

ClosePC ==
    /\ peer = "swept" /\ peer' = "down"
    /\ dc' = FALSE /\ toGw' = <<>>
    /\ UNCHANGED <<client, bridge, conn, wsStreams, out>>

----------------------------------------------------------------------------
Recv == RecvOpen \/ RecvData \/ RecvClose
Client(s) == ClientOpen(s) \/ ClientData(s) \/ ClientClose(s)
Dial(s) == DialFail(s) \/ DialOK(s)
Pump(s) == \/ RegisterWSStream(s) \/ SendOK(s) \/ ReadFails(s)
           \/ UnregisterWSStream(s)
Close == CloseAllWSStreams \/ ClosePC

Next ==
    \/ \E s \in Streams : \/ Client(s) \/ Dial(s) \/ Pump(s)
                          \/ Upstream(s) \/ UpstreamGone(s)
    \/ Recv \/ DcDown \/ Mark \/ Close

Spec == Init /\ [][Next]_vars

(* The callback and the goroutines run, a dial ends (HandshakeTimeout is   *)
(* 10 s) and a started Close goes on.  Neither the client, nor the         *)
(* upstream, nor a failing connection is bound to act.                     *)
FairSpec ==
    /\ Spec
    /\ WF_vars(Recv) /\ WF_vars(Close)
    /\ \A s \in Streams : WF_vars(Dial(s)) /\ WF_vars(Pump(s))

----------------------------------------------------------------------------
(* Properties.                                                             *)

Gateway(s) == SelectSeq(out[s], LAMBDA f : f # "echo")

\* Types; and what the map holds can be closed: it is a connection that was
\* dialed, never the nil of a dial that has not ended (peer.go:385, 394).
TypeOK ==
    /\ client \in [Streams -> [opened : BOOLEAN, data : 0 .. MaxData, closed : BOOLEAN]]
    /\ toGw \in Seq(Inputs)
    /\ dc \in BOOLEAN
    /\ bridge \in [Streams -> Stages]
    /\ conn \in [Streams -> {"none", "open", "closed"}]
    /\ wsStreams \subseteq {s \in Streams : conn[s] # "none"}
    /\ out \in [Streams -> Seq(Frames)]
    /\ peer \in {"open", "marked", "swept", "down"}

\* What the gateway says of a stream is an answer to its ws-open first, then
\* data only if the answer was ok, and nothing after ws-closed or an error but
\* echoes of what the client sends, whichever of the client, the upstream and
\* Peer.Close ends it (proxy.go:13-18, 394-431).
Echoes(q, S) == \A i \in S : q[i] = "echo"
Ordered(q) ==
    \A i \in 1 .. Len(q) :
        /\ q[i] \in {"ws-open-ok", "ws-open-err"} <=>
              q[i] # "echo" /\ Echoes(q, 1 .. i - 1)
        /\ q[i] \in {"ws-open-err", "ws-closed"} => Echoes(q, i + 1 .. Len(q))
FrameOrder == \A s \in Streams : Ordered(out[s])

\* A bridge whose upstream connection is up is one ws-close and Peer.Close
\* can find, and the map holds no stream whose goroutine is gone: Register,
\* handleWSClose, the sweep and Unregister never lose or keep an entry
\* (peer.go:382-398, 479-489).
Reachable ==
    \A s \in Streams :
        /\ bridge[s] \in {"registered", "pump"} /\ conn[s] = "open" => s \in wsStreams
        /\ s \in wsStreams => bridge[s] \in {"registered", "pump", "unregister"}

\* No stream hangs at either end of its life. A ws-open the gateway has taken
\* is answered while the channel is open (proxy.go:388-408). Every stream in
\* the map when Peer.Close begins is collected, and so is every stream whose
\* upstream is gone: the goroutine ends and the entry goes (peer.go:479-489).
Concluded ==
    \A s \in Streams :
        /\ bridge[s] = "dialing" ~> (~dc \/ Gateway(s) # <<>>)
        /\ (s \in wsStreams /\ (peer = "marked" \/ conn[s] = "closed"))
             ~> (bridge[s] = "done" /\ s \notin wsStreams)

(* What the documentation of the protocol says and the code does not do.   *)

\* proxy.go:17-18: ws-close is answered by ws-closed (or the stream was
\* refused), as long as the channel is open.
CloseIsAnswered ==
    \A s \in Streams :
        client[s].closed ~> (~dc \/ \E i \in DOMAIN out[s] :
                                        out[s][i] \in {"ws-closed", "ws-open-err"})

=============================================================================
