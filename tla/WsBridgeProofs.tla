--------------------------- MODULE WsBridgeProofs ---------------------------
(***************************************************************************)
(* Proofs about WsBridge.tla, for any set of streams and any amount of     *)
(* data.                                                                   *)
(***************************************************************************)
EXTENDS WsBridge, TLAPS

\* A goroutine past its dial has had a connection.
Dialed(s) == bridge[s] \in {"dialed", "registered", "pump", "unregister"} => conn[s] # "none"

WsInv == TypeOK /\ Reachable /\ \A s \in Streams : Dialed(s)

LEMMA InitWsInv == Init => WsInv
  <1> SUFFICES ASSUME Init PROVE WsInv
      OBVIOUS
  <1>1. client \in [Streams -> [opened : BOOLEAN, data : 0 .. MaxData, closed : BOOLEAN]]
    <2>1. [opened |-> FALSE, data |-> 0, closed |-> FALSE]
              \in [opened : BOOLEAN, data : 0 .. MaxData, closed : BOOLEAN]
        BY MaxDataAssumption
    <2> QED BY <2>1 DEF Init
  <1>2. out \in [Streams -> Seq(Frames)] /\ toGw \in Seq(Inputs)
      BY DEF Init
  <1>3. /\ dc = TRUE /\ wsStreams = {} /\ peer = "open"
        /\ bridge = [s \in Streams |-> "none"] /\ conn = [s \in Streams |-> "none"]
      BY DEF Init
  <1> QED BY <1>1, <1>2, <1>3 DEF WsInv, TypeOK, Reachable, Dialed, Stages

LEMMA SendTypes ==
    ASSUME TypeOK, NEW s \in Streams, NEW f \in Frames, SendDC(s, f)
    PROVE  out' \in [Streams -> Seq(Frames)]
  <1>1. out[s] \in Seq(Frames)
      BY DEF TypeOK
  <1>2. Append(out[s], f) \in Seq(Frames)
      BY <1>1
  <1> QED BY <1>2 DEF TypeOK, SendDC

LEMMA PutTypes ==
    ASSUME TypeOK, NEW s \in Streams, NEW type \in {"ws-open", "ws-data", "ws-close"},
           Put(type, s)
    PROVE  toGw' \in Seq(Inputs)
  <1>1. toGw \in Seq(Inputs) /\ [type |-> type, id |-> s] \in Inputs
      BY DEF TypeOK, Inputs
  <1> QED BY <1>1 DEF Put

LEMMA NextTypes ==
    ASSUME TypeOK, NEW type, Next1(type)
    PROVE  toGw' \in Seq(Inputs) /\ Head(toGw).id \in Streams
  <1>1. toGw \in Seq(Inputs) /\ toGw # <<>>
      BY DEF TypeOK, Next1
  <1>2. Head(toGw) \in Inputs /\ Tail(toGw) \in Seq(Inputs)
      BY <1>1
  <1> QED BY <1>2 DEF Next1, Inputs

LEMMA StepWsInv == WsInv /\ [Next]_vars => WsInv'
  <1> SUFFICES ASSUME WsInv, [Next]_vars PROVE WsInv'
      OBVIOUS
  <1> USE DEF WsInv
  <1>1. CASE UNCHANGED vars
      BY <1>1 DEF vars, TypeOK, Reachable, Dialed
  <1>2. ASSUME NEW s \in Streams, Client(s) PROVE WsInv'
    <2>1. toGw' \in Seq(Inputs)
        BY <1>2, PutTypes DEF Client, ClientOpen, ClientData, ClientClose
    <2>2. client' \in [Streams -> [opened : BOOLEAN, data : 0 .. MaxData, closed : BOOLEAN]]
      <3>1. client[s].data < MaxData => client[s].data + 1 \in 0 .. MaxData
          BY MaxDataAssumption DEF TypeOK
      <3>2. client[s] \in [opened : BOOLEAN, data : 0 .. MaxData, closed : BOOLEAN]
          BY DEF TypeOK
      <3>3. CASE ClientOpen(s)
          BY <3>2, <3>3 DEF TypeOK, ClientOpen
      <3>4. CASE ClientData(s)
          BY <3>1, <3>2, <3>4 DEF TypeOK, ClientData
      <3>5. CASE ClientClose(s)
          BY <3>2, <3>5 DEF TypeOK, ClientClose
      <3> QED BY <1>2, <3>3, <3>4, <3>5 DEF Client
    <2>3. UNCHANGED <<dc, bridge, conn, wsStreams, out, peer>>
        BY <1>2 DEF Client, ClientOpen, ClientData, ClientClose
    <2> QED BY <2>1, <2>2, <2>3 DEF TypeOK, Reachable, Dialed
  <1>3. ASSUME NEW s \in Streams, Dial(s) PROVE WsInv'
    <2>1. CASE DialFail(s)
      <3>1. out' \in [Streams -> Seq(Frames)]
          BY <2>1, SendTypes DEF DialFail, Frames
      <3> QED BY <2>1, <3>1 DEF DialFail, At, TypeOK, Reachable, Dialed, Stages
    <2>2. CASE DialOK(s)
        BY <2>2 DEF DialOK, At, TypeOK, Reachable, Dialed, Stages
    <2> QED BY <1>3, <2>1, <2>2 DEF Dial
  <1>4. ASSUME NEW s \in Streams, Pump(s) PROVE WsInv'
    <2>1. CASE RegisterWSStream(s)
        BY <2>1 DEF RegisterWSStream, At, TypeOK, Reachable, Dialed, Stages
    <2>2. CASE SendOK(s)
      <3>1. out' \in [Streams -> Seq(Frames)]
          BY <2>2, SendTypes DEF SendOK, Frames
      <3> QED BY <2>2, <3>1 DEF SendOK, At, TypeOK, Reachable, Dialed, Stages
    <2>3. CASE ReadFails(s)
      <3>1. out' \in [Streams -> Seq(Frames)]
          BY <2>3, SendTypes DEF ReadFails, Frames
      <3> QED BY <2>3, <3>1 DEF ReadFails, At, TypeOK, Reachable, Dialed, Stages
    <2>4. CASE UnregisterWSStream(s)
        BY <2>4 DEF UnregisterWSStream, At, TypeOK, Reachable, Dialed, Stages
    <2> QED BY <1>4, <2>1, <2>2, <2>3, <2>4 DEF Pump
  <1>5. ASSUME NEW s \in Streams, Upstream(s) PROVE WsInv'
    <2>1. out' \in [Streams -> Seq(Frames)]
        BY <1>5, SendTypes DEF Upstream, Frames
    <2>2. UNCHANGED <<client, toGw, dc, bridge, conn, wsStreams, peer>>
        BY <1>5 DEF Upstream
    <2> QED BY <2>1, <2>2 DEF TypeOK, Reachable, Dialed
  <1>6. ASSUME NEW s \in Streams, UpstreamGone(s) PROVE WsInv'
      BY <1>6 DEF UpstreamGone, CloseConns, TypeOK, Reachable, Dialed
  <1>7. CASE Recv
    <2>1. CASE RecvOpen
      <3>1. toGw' \in Seq(Inputs) /\ Head(toGw).id \in Streams
          BY <2>1, NextTypes DEF RecvOpen
      <3> QED BY <2>1, <3>1 DEF RecvOpen, At, TypeOK, Reachable, Dialed, Stages
    <2>2. CASE RecvData
      <3>1. toGw' \in Seq(Inputs) /\ Head(toGw).id \in Streams
          BY <2>2, NextTypes DEF RecvData
      <3>2. out' \in [Streams -> Seq(Frames)]
          BY <2>2, <3>1, SendTypes DEF RecvData, Frames
      <3> QED BY <2>2, <3>1, <3>2 DEF RecvData, TypeOK, Reachable, Dialed
    <2>3. CASE RecvClose
      <3>1. toGw' \in Seq(Inputs) /\ Head(toGw).id \in Streams
          BY <2>3, NextTypes DEF RecvClose
      <3> QED BY <2>3, <3>1 DEF RecvClose, CloseConns, TypeOK, Reachable, Dialed
    <2> QED BY <1>7, <2>1, <2>2, <2>3 DEF Recv
  <1>8. CASE DcDown \/ Mark
    <2>1. toGw' \in Seq(Inputs)
      <3>1. toGw' = <<>> \/ toGw' = toGw
          BY <1>8 DEF DcDown, Mark
      <3>2. <<>> \in Seq(Inputs)
          OBVIOUS
      <3> QED BY <3>1, <3>2 DEF TypeOK
    <2>2. dc' \in BOOLEAN /\ peer' \in {"open", "marked", "swept", "down"}
          /\ UNCHANGED <<client, bridge, conn, wsStreams, out>>
        BY <1>8 DEF DcDown, Mark, TypeOK
    <2> QED BY <2>1, <2>2 DEF TypeOK, Reachable, Dialed
  <1>9. CASE Close
    <2>1. CASE CloseAllWSStreams
        BY <2>1 DEF CloseAllWSStreams, CloseConns, TypeOK, Reachable, Dialed
    <2>2. CASE ClosePC
      <3>1. toGw' \in Seq(Inputs)
          BY <2>2 DEF ClosePC
      <3> QED BY <2>2, <3>1 DEF ClosePC, TypeOK, Reachable, Dialed
    <2> QED BY <1>9, <2>1, <2>2 DEF Close
  <1> QED BY <1>1, <1>2, <1>3, <1>4, <1>5, <1>6, <1>7, <1>8, <1>9 DEF Next

LEMMA WsInvariant == Spec => []WsInv
  BY InitWsInv, StepWsInv, PTL DEF Spec

\* Types; whatever handleWSClose and the sweep find in the map can be closed
\* (peer.go:385, 394).
THEOREM TypeCorrect == Spec => []TypeOK
  <1>1. WsInv => TypeOK
      BY DEF WsInv
  <1> QED BY <1>1, WsInvariant, PTL

\* No stream is lost between the map and its goroutine (peer.go:382-398,
\* 479-489), for any number of streams.
THEOREM StreamsAreReachable == Spec => []Reachable
  <1>1. WsInv => Reachable
      BY DEF WsInv
  <1> QED BY <1>1, WsInvariant, PTL

(***************************************************************************)
(* FrameOrder.  Before the answer a stream has only echoes; in the pump it *)
(* has an answer, unless the channel was gone, and nothing that ends it;   *)
(* after that the goroutine sends nothing.                                 *)
(***************************************************************************)

Early == {"none", "dialing", "dialed", "registered"}
Ends(q) == \E i \in 1 .. Len(q) : q[i] \in {"ws-open-err", "ws-closed"}

Stage(s) ==
    /\ bridge[s] \in Early => Echoes(out[s], 1 .. Len(out[s]))
    /\ bridge[s] = "pump" =>
        /\ ~Ends(out[s])
        /\ dc => ~Echoes(out[s], 1 .. Len(out[s]))

OrderInv == \A s \in Streams : Ordered(out[s]) /\ Stage(s)

\* What Append leaves in place.
LEMMA AppendFacts ==
    ASSUME NEW q \in Seq(Frames), NEW f \in Frames
    PROVE  /\ Len(Append(q, f)) = Len(q) + 1 /\ Len(q) \in Nat
           /\ Append(q, f)[Len(q) + 1] = f
           /\ \A i \in 1 .. Len(q) : Append(q, f)[i] = q[i]
  OBVIOUS

LEMMA AppendEcho ==
    ASSUME NEW q \in Seq(Frames)
    PROVE  /\ Ordered(q) => Ordered(Append(q, "echo"))
           /\ Ends(Append(q, "echo")) => Ends(q)
           /\ Echoes(Append(q, "echo"), 1 .. Len(q) + 1) <=> Echoes(q, 1 .. Len(q))
  <1>1. /\ Len(Append(q, "echo")) = Len(q) + 1 /\ Len(q) \in Nat
        /\ Append(q, "echo")[Len(q) + 1] = "echo"
        /\ \A i \in 1 .. Len(q) : Append(q, "echo")[i] = q[i]
      BY AppendFacts DEF Frames
  <1>2. Ordered(q) => Ordered(Append(q, "echo"))
      BY <1>1 DEF Ordered, Echoes
  <1>3. Ends(Append(q, "echo")) => Ends(q)
      BY <1>1 DEF Ends
  <1>4. Echoes(Append(q, "echo"), 1 .. Len(q) + 1) <=> Echoes(q, 1 .. Len(q))
      BY <1>1 DEF Echoes
  <1> QED BY <1>2, <1>3, <1>4

\* The answer to a ws-open.
LEMMA AppendAnswer ==
    ASSUME NEW q \in Seq(Frames), NEW f \in {"ws-open-ok", "ws-open-err"},
           Echoes(q, 1 .. Len(q))
    PROVE  /\ Ordered(Append(q, f))
           /\ f = "ws-open-ok" => ~Ends(Append(q, f))
           /\ ~Echoes(Append(q, f), 1 .. Len(q) + 1)
  <1>1. /\ Len(Append(q, f)) = Len(q) + 1 /\ Len(q) \in Nat
        /\ Append(q, f)[Len(q) + 1] = f
        /\ \A i \in 1 .. Len(q) : Append(q, f)[i] = q[i]
      BY AppendFacts DEF Frames
  <1>2. Ordered(Append(q, f))
      BY <1>1 DEF Ordered, Echoes
  <1>3. f = "ws-open-ok" => ~Ends(Append(q, f))
      BY <1>1 DEF Ends, Echoes
  <1>4. ~Echoes(Append(q, f), 1 .. Len(q) + 1)
      BY <1>1 DEF Echoes
  <1> QED BY <1>2, <1>3, <1>4

\* What the pump sends after it.
LEMMA AppendPump ==
    ASSUME NEW q \in Seq(Frames), NEW f \in {"ws-data", "ws-closed"},
           Ordered(q), ~Ends(q), ~Echoes(q, 1 .. Len(q))
    PROVE  /\ Ordered(Append(q, f))
           /\ f = "ws-data" => ~Ends(Append(q, f))
           /\ ~Echoes(Append(q, f), 1 .. Len(q) + 1)
  <1>1. /\ Len(Append(q, f)) = Len(q) + 1 /\ Len(q) \in Nat
        /\ Append(q, f)[Len(q) + 1] = f
        /\ \A i \in 1 .. Len(q) : Append(q, f)[i] = q[i]
      BY AppendFacts DEF Frames
  <1> DEFINE a == Append(q, f)
  <1>2. Ordered(a)
    <2> SUFFICES ASSUME NEW i \in 1 .. Len(a)
                 PROVE  /\ a[i] \in {"ws-open-ok", "ws-open-err"} <=>
                              a[i] # "echo" /\ Echoes(a, 1 .. i - 1)
                        /\ a[i] \in {"ws-open-err", "ws-closed"} => Echoes(a, i + 1 .. Len(a))
        BY DEF Ordered
    <2>1. CASE i = Len(q) + 1
      <3>1. ~Echoes(a, 1 .. i - 1)
          BY <1>1, <2>1 DEF Echoes
      <3>2. Echoes(a, i + 1 .. Len(a))
          BY <1>1, <2>1 DEF Echoes
      <3> QED BY <1>1, <2>1, <3>1, <3>2
    <2>2. CASE i \in 1 .. Len(q)
      <3>1. a[i] = q[i] /\ (Echoes(a, 1 .. i - 1) <=> Echoes(q, 1 .. i - 1))
          BY <1>1, <2>2 DEF Echoes
      <3>2. q[i] \notin {"ws-open-err", "ws-closed"}
          BY <2>2 DEF Ends
      <3> QED BY <2>2, <3>1, <3>2 DEF Ordered
    <2> QED BY <1>1, <2>1, <2>2
  <1>3. f = "ws-data" => ~Ends(Append(q, f))
      BY <1>1 DEF Ends
  <1>4. ~Echoes(Append(q, f), 1 .. Len(q) + 1)
      BY <1>1 DEF Echoes
  <1> QED BY <1>2, <1>3, <1>4

LEMMA InitOrder == Init => OrderInv
  <1> SUFFICES ASSUME Init PROVE OrderInv
      OBVIOUS
  <1>1. \A s \in Streams : out[s] = <<>> /\ bridge[s] = "none"
      BY DEF Init
  <1>2. ASSUME NEW s \in Streams PROVE Ordered(out[s]) /\ Stage(s)
    <2>1. out[s] = <<>> /\ bridge[s] # "pump"
        BY <1>1
    <2>2. Ordered(<<>>) /\ Echoes(<<>>, 1 .. Len(<<>>))
        BY DEF Ordered, Echoes
    <2> QED BY <2>1, <2>2 DEF Stage
  <1> QED BY <1>2 DEF OrderInv

\* A frame on the stream s, or none when the channel is closed.
LEMMA SendOrder ==
    ASSUME TypeOK, OrderInv, NEW s \in Streams, NEW f \in Frames, SendDC(s, f),
           \A r \in Streams \ {s} : bridge'[r] = bridge[r], dc' = dc,
           dc => Ordered(Append(out[s], f)),
           bridge'[s] \in Early => bridge[s] \in Early /\ f = "echo",
           bridge'[s] = "pump" =>
              /\ ~Ends(out[s]) /\ (dc => ~Ends(Append(out[s], f)))
              /\ dc => ~Echoes(Append(out[s], f), 1 .. Len(out[s]) + 1)
    PROVE  OrderInv'
  <1>1. out[s] \in Seq(Frames)
      BY DEF TypeOK
  <1>2. ASSUME NEW r \in Streams, r # s PROVE Ordered(out[r])' /\ Stage(r)'
    <2>1. out'[r] = out[r] /\ bridge'[r] = bridge[r]
        BY <1>2 DEF SendDC, TypeOK
    <2> QED BY <2>1 DEF OrderInv, Stage
  <1>3. CASE ~dc
    <2>1. out'[s] = out[s]
        BY <1>3 DEF SendDC
    <2>2. Ordered(out[s])' /\ Stage(s)'
        BY <1>3, <2>1 DEF OrderInv, Stage
    <2> QED BY <1>2, <2>2 DEF OrderInv
  <1>4. CASE dc
    <2>1. out'[s] = Append(out[s], f) /\ Len(out'[s]) = Len(out[s]) + 1
        BY <1>1, <1>4, AppendFacts DEF SendDC, TypeOK
    <2>2. bridge'[s] \in Early => Echoes(out'[s], 1 .. Len(out[s]) + 1)
      <3>1. bridge'[s] \in Early => Echoes(out[s], 1 .. Len(out[s])) /\ f = "echo"
          BY DEF OrderInv, Stage
      <3> QED BY <1>1, <2>1, <3>1, AppendEcho
    <2>3. Ordered(out[s])' /\ Stage(s)'
        BY <1>4, <2>1, <2>2 DEF Stage
    <2> QED BY <1>2, <2>3 DEF OrderInv
  <1> QED BY <1>3, <1>4

LEMMA StepOrder == WsInv /\ OrderInv /\ [Next]_vars => OrderInv'
  <1> SUFFICES ASSUME TypeOK, OrderInv, [Next]_vars PROVE OrderInv'
      BY DEF WsInv
  <1>1. ASSUME out' = out, dc' \in {dc, FALSE},
               \A s \in Streams : bridge'[s] \in Early => bridge[s] \in Early,
               \A s \in Streams : bridge'[s] = "pump" => bridge[s] = "pump"
        PROVE  OrderInv'
      BY <1>1 DEF OrderInv, Stage
  <1>2. \A s \in Streams : out[s] \in Seq(Frames) /\ Ordered(out[s]) /\ Stage(s)
      BY DEF TypeOK, OrderInv
  <1>3. ASSUME NEW s \in Streams, Client(s) PROVE OrderInv'
      BY <1>3, <1>1 DEF Client, ClientOpen, ClientData, ClientClose
  <1>4. ASSUME NEW s \in Streams, Dial(s) PROVE OrderInv'
    <2>1. CASE DialFail(s)
      <3>1. bridge[s] \in Early /\ bridge'[s] = "done" /\ dc' = dc /\ SendDC(s, "ws-open-err")
          BY <2>1 DEF DialFail, At, TypeOK, Early
      <3>2. \A r \in Streams \ {s} : bridge'[r] = bridge[r]
          BY <2>1 DEF DialFail, At, TypeOK
      <3>3. Ordered(Append(out[s], "ws-open-err"))
          BY <1>2, <3>1, AppendAnswer DEF Stage
      <3> QED BY <3>1, <3>2, <3>3, SendOrder DEF Frames, Early
    <2>2. CASE DialOK(s)
        BY <2>2, <1>1 DEF DialOK, At, TypeOK, Early
    <2> QED BY <1>4, <2>1, <2>2 DEF Dial
  <1>5. ASSUME NEW s \in Streams, Pump(s) PROVE OrderInv'
    <2>1. CASE RegisterWSStream(s)
        BY <2>1, <1>1 DEF RegisterWSStream, At, TypeOK, Early
    <2>2. CASE SendOK(s)
      <3>1. bridge[s] \in Early /\ bridge'[s] = "pump" /\ dc' = dc /\ SendDC(s, "ws-open-ok")
          BY <2>2 DEF SendOK, At, TypeOK, Early
      <3>2. \A r \in Streams \ {s} : bridge'[r] = bridge[r]
          BY <2>2 DEF SendOK, At, TypeOK
      <3>3. Echoes(out[s], 1 .. Len(out[s]))
          BY <1>2, <3>1 DEF Stage
      <3>4. /\ Ordered(Append(out[s], "ws-open-ok")) /\ ~Ends(Append(out[s], "ws-open-ok"))
            /\ ~Echoes(Append(out[s], "ws-open-ok"), 1 .. Len(out[s]) + 1)
          BY <1>2, <3>3, AppendAnswer
      <3>5. ~Ends(out[s])
          BY <3>3 DEF Ends, Echoes
      <3> QED BY <3>1, <3>2, <3>4, <3>5, SendOrder DEF Frames, Early
    <2>3. CASE ReadFails(s)
      <3>1. bridge[s] = "pump" /\ bridge'[s] = "unregister" /\ dc' = dc /\ SendDC(s, "ws-closed")
          BY <2>3 DEF ReadFails, At, TypeOK
      <3>2. \A r \in Streams \ {s} : bridge'[r] = bridge[r]
          BY <2>3 DEF ReadFails, At, TypeOK
      <3>3. dc => Ordered(Append(out[s], "ws-closed"))
          BY <1>2, <3>1, AppendPump DEF Stage
      <3> QED BY <3>1, <3>2, <3>3, SendOrder DEF Frames, Early
    <2>4. CASE UnregisterWSStream(s)
        BY <2>4, <1>1 DEF UnregisterWSStream, At, TypeOK, Early
    <2> QED BY <1>5, <2>1, <2>2, <2>3, <2>4 DEF Pump
  <1>6. ASSUME NEW s \in Streams, Upstream(s) PROVE OrderInv'
    <2>1. bridge[s] = "pump" /\ bridge' = bridge /\ dc' = dc /\ SendDC(s, "ws-data")
        BY <1>6 DEF Upstream
    <2>2. ~Ends(out[s]) /\ (dc => ~Echoes(out[s], 1 .. Len(out[s])))
        BY <1>2, <2>1 DEF Stage
    <2>3. dc => /\ Ordered(Append(out[s], "ws-data")) /\ ~Ends(Append(out[s], "ws-data"))
                /\ ~Echoes(Append(out[s], "ws-data"), 1 .. Len(out[s]) + 1)
        BY <1>2, <2>2, AppendPump
    <2> QED BY <2>1, <2>2, <2>3, SendOrder DEF Frames, Early
  <1>7. ASSUME NEW s \in Streams, UpstreamGone(s) PROVE OrderInv'
      BY <1>7, <1>1 DEF UpstreamGone
  <1>8. CASE Recv
    <2>1. CASE RecvOpen
      <3>1. Head(toGw).id \in Streams
          BY <2>1, NextTypes DEF RecvOpen
      <3> QED BY <2>1, <3>1, <1>1 DEF RecvOpen, At, TypeOK, Early
    <2>2. CASE RecvData
      <3> DEFINE s == Head(toGw).id
      <3>1. s \in Streams /\ SendDC(s, "echo") /\ bridge' = bridge /\ dc' = dc
          BY <2>2, NextTypes DEF RecvData
      <3> HIDE DEF s
      <3>2. /\ Ordered(Append(out[s], "echo"))
            /\ Ends(Append(out[s], "echo")) => Ends(out[s])
            /\ Echoes(Append(out[s], "echo"), 1 .. Len(out[s]) + 1)
                  <=> Echoes(out[s], 1 .. Len(out[s]))
          BY <1>2, <3>1, AppendEcho
      <3>3. bridge[s] = "pump" => ~Ends(out[s]) /\ (dc => ~Echoes(out[s], 1 .. Len(out[s])))
          BY <1>2, <3>1 DEF Stage
      <3> QED BY <3>1, <3>2, <3>3, SendOrder DEF Frames
    <2>3. CASE RecvClose
        BY <2>3, <1>1 DEF RecvClose
    <2> QED BY <1>8, <2>1, <2>2, <2>3 DEF Recv
  <1>9. CASE DcDown \/ Mark \/ Close
      BY <1>9, <1>1 DEF DcDown, Mark, Close, CloseAllWSStreams, ClosePC
  <1>10. CASE UNCHANGED vars
      BY <1>10, <1>1 DEF vars
  <1> QED BY <1>3, <1>4, <1>5, <1>6, <1>7, <1>8, <1>9, <1>10 DEF Next

\* A stream is answered first, and says nothing after its end (proxy.go:13-18,
\* 394-431), for any number of streams and messages.
THEOREM FramesInOrder == Spec => []FrameOrder
  <1>1. OrderInv => FrameOrder
      BY DEF OrderInv, FrameOrder
  <1> QED BY <1>1, InitWsInv, StepWsInv, InitOrder, StepOrder, PTL DEF Spec
=============================================================================
