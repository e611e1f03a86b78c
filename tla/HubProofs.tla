----------------------------- MODULE HubProofs -----------------------------
(***************************************************************************)
(* Proofs about Hub.tla, for any number of connections and any capacities. *)
(***************************************************************************)
EXTENDS Hub, TLAPS

(***************************************************************************)
(* A peer that has not connected is unknown to everybody.  A closed peer   *)
(* has lost its connection for good, since only a new peer gets one.       *)
(***************************************************************************)
Unknown(p) ==
    serve[p] = "idle" =>
        /\ p \notin room /\ p \notin slow /\ ~closed[p] /\ writer[p] = "none"
        /\ \A q \in Peers : p \notin cast[q]

Ends(p) ==
    /\ closed[p] => conn[p] = "down"
    /\ writer[p] = "done" => closed[p]
    /\ serve[p] \in {"removed", "noticing", "done"} => p \notin room
    /\ serve[p] = "done" => closed[p]

HubInv == HubTypeOK /\ \A p \in Peers : Unknown(p) /\ Ends(p)

LEMMA HubInitInv == HubInit => HubInv
  BY CapsAssumption DEF HubInit, HubInv, HubTypeOK, Stages, Messages, Unknown, Ends

\* The goroutine of p goes on and leaves everything else as it is.
LEMMA MovesInv ==
    ASSUME HubInv, NEW p \in Peers, NEW from,
           NEW to \in {"pumping", "leaving", "panicked"},
           Moves(p, from, to), from # "idle"
    PROVE  HubInv'
  BY DEF HubInv, HubTypeOK, Unknown, Ends, Moves, At, Stages

\* Peer.Close, next to a step of the goroutine of p or of somebody else.
LEMMA CloseInv ==
    ASSUME HubInv, NEW p \in Peers, serve[p] # "idle", PeerClose(p),
           UNCHANGED <<room, wired, cast, inbox>>,
           slow' \subseteq slow,
           send' \in [Peers -> Seq(Messages)],
           \A q \in Peers : Len(send'[q]) <= SendCap,
           writer' \in {writer, [writer EXCEPT ![p] = "done"]},
           \/ UNCHANGED serve
           \/ At(p, "noticing", "done")
    PROVE  HubInv'
  <1>1. /\ closed' = [closed EXCEPT ![p] = TRUE]
        /\ conn' \in [Peers -> {"none", "up", "down"}]
        /\ conn'[p] = "down"
        /\ \A q \in Peers \ {p} : conn'[q] = conn[q]
      BY DEF HubInv, HubTypeOK, Ends, PeerClose
  <1>2. /\ serve' \in [Peers -> Stages]
        /\ \A q \in Peers \ {p} : serve'[q] = serve[q]
        /\ serve'[p] = serve[p] \/ (serve[p] = "noticing" /\ serve'[p] = "done")
    <2>1. CASE UNCHANGED serve
        BY <2>1 DEF HubInv, HubTypeOK
    <2>2. CASE At(p, "noticing", "done")
        BY <2>2 DEF HubInv, HubTypeOK, At, Stages
    <2> QED BY <2>1, <2>2
  <1>3. HubTypeOK'
      BY <1>1, <1>2 DEF HubInv, HubTypeOK
  <1>4. ASSUME NEW q \in Peers PROVE Unknown(q)'
      BY <1>1, <1>2 DEF HubInv, HubTypeOK, Unknown
  <1>5. ASSUME NEW q \in Peers PROVE Ends(q)'
    <2>1. CASE q = p
        BY <1>1, <1>2, <2>1 DEF HubInv, HubTypeOK, Ends
    <2>2. CASE q # p
        BY <1>1, <1>2, <2>2 DEF HubInv, HubTypeOK, Ends
    <2> QED BY <2>1, <2>2
  <1> QED BY <1>3, <1>4, <1>5 DEF HubInv

\* A message for q, or none.
LEMMA QueueInv ==
    ASSUME HubTypeOK, NEW q \in Peers, NEW m \in Messages, ~Full(q), Queue(q, m)
    PROVE  /\ send' \in [Peers -> Seq(Messages)]
           /\ \A r \in Peers : Len(send'[r]) <= SendCap
  <1>1. Len(send[q]) \in Nat /\ Len(send[q]) < SendCap
      BY CapsAssumption DEF HubTypeOK, Full
  <1>2. Append(send[q], m) \in Seq(Messages) /\ Len(Append(send[q], m)) = Len(send[q]) + 1
      BY DEF HubTypeOK
  <1> QED BY <1>1, <1>2, CapsAssumption DEF HubTypeOK, Queue

LEMMA HubStepInv == HubInv /\ [HubNext]_hubVars => HubInv'
  <1> SUFFICES ASSUME HubInv, [HubNext]_hubVars PROVE HubInv'
      OBVIOUS
  <1> USE DEF HubInv
  <1>1. CASE UNCHANGED hubVars
      BY <1>1 DEF hubVars, HubTypeOK, Unknown, Ends
  <1>2. ASSUME NEW p \in Peers, Upgrade(p) PROVE HubInv'
      BY <1>2 DEF Upgrade, At, HubTypeOK, Unknown, Ends, Stages
  <1>3. ASSUME NEW p \in Peers, ConnLost(p) PROVE HubInv'
      BY <1>3 DEF ConnLost, HubTypeOK, Unknown, Ends
  <1>4. ASSUME NEW p \in Peers, Serving(p) PROVE HubInv'
    <2>1. CASE Join(p)
      <3>1. send' \in [Peers -> Seq(Messages)] /\ \A r \in Peers : Len(send'[r]) <= SendCap
          BY <2>1, QueueInv DEF Join, Messages
      <3> QED BY <2>1, <3>1 DEF Join, At, HubTypeOK, Unknown, Ends, Stages
    <2>2. CASE JoinPanics(p)
        BY <2>2, MovesInv DEF JoinPanics
    <2>3. CASE ReadFails(p)
        BY <2>3, MovesInv DEF ReadFails
    <2>4. CASE LeaveRoom(p)
        BY <2>4 DEF LeaveRoom, At, HubTypeOK, Unknown, Ends, Stages
    <2>5. CASE Notice(p)
        BY <2>5 DEF Notice, At, HubTypeOK, Unknown, Ends, Stages
    <2>6. CASE RelayDone(p)
        BY <2>6, MovesInv DEF RelayDone
    <2>7. CASE Leave(p)
        BY <2>7, CloseInv DEF Leave, At, HubTypeOK
    <2>8. ASSUME NEW q \in Peers, Cast(p, q) PROVE HubInv'
      <3>1. CASE Full(q)
          BY <2>8, <3>1 DEF Cast, HubTypeOK, Unknown, Ends
      <3>2. CASE ~Full(q)
        <4>1. send' \in [Peers -> Seq(Messages)] /\ \A r \in Peers : Len(send'[r]) <= SendCap
            BY <2>8, <3>2, QueueInv DEF Cast, Messages
        <4> QED BY <2>8, <3>2, <4>1 DEF Cast, HubTypeOK, Unknown, Ends
      <3> QED BY <3>1, <3>2
    <2>9. ASSUME NEW q \in Peers, CastPanics(p, q) PROVE HubInv'
        BY <2>9, MovesInv DEF CastPanics
    <2> QED BY <1>4, <2>1, <2>2, <2>3, <2>4, <2>5, <2>6, <2>7, <2>8, <2>9 DEF Serving
  <1>5. ASSUME NEW p \in Peers, Opening(p) PROVE HubInv'
    <2>1. ASSUME NEW ok \in BOOLEAN, StartPumps(p, ok) PROVE HubInv'
        BY <2>1 DEF StartPumps, At, HubTypeOK, Unknown, Ends, Stages
    <2>2. CASE OnPeerPanics(p)
        BY <2>2, MovesInv DEF OnPeerPanics
    <2> QED BY <1>5, <2>1, <2>2 DEF Opening
  <1>6. ASSUME NEW p \in Peers, Reading(p) PROVE HubInv'
    <2>1. CASE Relay(p)
        BY <2>1 DEF Relay, At, HubTypeOK, Unknown, Ends, Stages
    <2>2. ASSUME NEW q \in Peers, Forward(p, q) PROVE HubInv'
        BY <2>2, CapsAssumption DEF Forward, HubTypeOK, Unknown, Ends
    <2> QED BY <1>6, <2>1, <2>2 DEF Reading
  <1>7. ASSUME NEW p \in Peers, Write(p) PROVE HubInv'
    <2>1. Tail(send[p]) \in Seq(Messages) /\ Len(Tail(send[p])) <= SendCap
        BY <1>7, CapsAssumption DEF Write, HubTypeOK
    <2> QED BY <1>7, <2>1 DEF Write, HubTypeOK, Unknown, Ends
  <1>8. ASSUME NEW p \in Peers, WriterEnds(p) PROVE HubInv'
    <2>1. send' \in [Peers -> Seq(Messages)] /\ \A r \in Peers : Len(send'[r]) <= SendCap
      <3>1. send[p] # <<>> => Tail(send[p]) \in Seq(Messages) /\ Len(Tail(send[p])) <= SendCap
          BY CapsAssumption DEF HubTypeOK
      <3> QED BY <1>8, <3>1 DEF WriterEnds, HubTypeOK
    <2>2. serve[p] # "idle"
        BY <1>8 DEF WriterEnds, Unknown
    <2> QED BY <1>8, <2>1, <2>2, CloseInv DEF WriterEnds
  <1>9. ASSUME NEW p \in Peers, DropSlow(p) PROVE HubInv'
    <2>1. serve[p] # "idle"
        BY <1>9 DEF DropSlow, Unknown
    <2> QED BY <1>9, <2>1, CloseInv DEF DropSlow, HubTypeOK
  <1>10. ASSUME NEW p \in Peers, NEW m \in Outgoing, TrySend(p, m) PROVE HubInv'
    <2>1. send' \in [Peers -> Seq(Messages)] /\ \A r \in Peers : Len(send'[r]) <= SendCap
        BY <1>10, QueueInv DEF TrySend, Messages, HubTypeOK
    <2> QED BY <1>10, <2>1 DEF TrySend, HubTypeOK, Unknown, Ends
  <1>11. ASSUME NEW p \in Peers, OnMessagePanics(p) PROVE HubInv'
      BY <1>11, MovesInv DEF OnMessagePanics
  <1>12. ASSUME NEW p \in Peers, CloseSignaling(p) PROVE HubInv'
      BY <1>12, CloseInv DEF CloseSignaling, HubTypeOK
  <1> QED BY <1>1, <1>2, <1>3, <1>4, <1>5, <1>6, <1>7, <1>8, <1>9, <1>10, <1>11, <1>12
          DEF HubNext

LEMMA HubInvariant == HubSpec => []HubInv
  BY HubInitInv, HubStepInv, PTL DEF HubSpec

\* Types; in particular no Send channel holds more than its capacity, however
\* the goroutines that write to it interleave.
THEOREM HubTypeCorrect == HubSpec => []HubTypeOK
  <1>1. HubInv => HubTypeOK
      BY DEF HubInv
  <1> QED BY <1>1, HubInvariant, PTL

\* A goroutine that ends leaves nothing behind that needs it (hub.go:163,
\* 192-200).
THEOREM NothingStays == HubSpec => []NothingLeftBehind
  <1>1. HubInv => NothingLeftBehind
      BY DEF HubInv, Ends, NothingLeftBehind
  <1> QED BY <1>1, HubInvariant, PTL
=============================================================================
