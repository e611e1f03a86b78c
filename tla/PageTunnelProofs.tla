-------------------------- MODULE PageTunnelProofs --------------------------
(***************************************************************************)
(* Proofs about PageTunnel.tla, for every number of tunnels and every      *)
(* MaxFails: DeadIsSwept and NoneWaits are inductive given TypeOK, Kept    *)
(* needs TypeOK alone, StaysWithdrawn that every touch timer has a socket. *)
(***************************************************************************)
EXTENDS PageTunnel, TLAPS

(***************************************************************************)
(* TypeOK.                                                                 *)
(***************************************************************************)

LEMMA TypeInit == Init => TypeOK
<1> SUFFICES ASSUME Init PROVE TypeOK
  OBVIOUS
<1>1. missed \in [Tunnels -> 0 .. MaxFails]
  BY PageAssumption DEF Init
<1>2. pending \in BOOLEAN /\ navigated \in BOOLEAN
  BY DEF Init
<1> QED BY <1>1, <1>2 DEF Init, TypeOK

\* A tunnel is a member of Tunnels, None is not.
LEMMA OpenIsTunnel == ASSUME TypeOK, NEW e \in Tunnels \cup {None}, IsOpen(e)
                      PROVE  e \in Tunnels
BY DEF IsOpen

LEMMA BuildType == ASSUME TypeOK, NEW e \in Tunnels, NEW old \in {"none", "pending", "ready"},
                          Build(e, old)
                   PROVE  /\ ws' \in [Tunnels -> {"none", "up", "closing", "closed"}]
                          /\ pc' \in [Tunnels -> {"on", "off"}]
                          /\ dc' \in [Tunnels -> {"none", "open", "dying", "closed"}]
                          /\ touching' \subseteq Tunnels
                          /\ missed' \in [Tunnels -> 0 .. MaxFails]
                          /\ late' \subseteq Tunnels \X {"ws", "pc"}
                          /\ listed' \in Tunnels \cup {None}
                          /\ entry' \in {"none", "pending", "ready"}
BY DEF TypeOK, Build, Touched

LEMMA TypeStep == TypeOK /\ [Next]_vars => TypeOK'
<1> SUFFICES ASSUME TypeOK, [Next]_vars PROVE TypeOK'
  OBVIOUS
<1> USE PageAssumption
<1>1. ASSUME NEW by \in {"page", "user"}, Ensure(by) PROVE TypeOK'
  <2>1. CASE Reuse(by)
    BY <2>1 DEF TypeOK, Reuse, Answered, Show, Touched, nav, tunnelVars
  <2>2. CASE Await(by)
    BY <2>2 DEF TypeOK, Await, Waits, tunnelVars
  <2>3. CASE StartCheck(by)
    BY <2>3 DEF TypeOK, StartCheck, Waits, tunnelVars
  <2>4. ASSUME NEW e \in Tunnels, Rebuild(by, e) PROVE TypeOK'
    <3>1. PICK old \in {"none", "pending", "ready"} : Build(e, old)
      BY <2>4 DEF Rebuild, TypeOK
    <3>2. checks' \in {"none", "page", "user"} /\ pending' \in BOOLEAN /\ navigated' \in BOOLEAN
      BY <2>4 DEF Rebuild, Waits, TypeOK
    <3> QED BY <3>1, <3>2, BuildType DEF TypeOK
  <2> QED BY <1>1, <2>1, <2>2, <2>3, <2>4 DEF Ensure
<1>2. CASE CheckEnds
  <2>1. CASE /\ entry' = Touched(entry, TRUE) /\ Answered(checks)
             /\ UNCHANGED <<tunnelVars, late, listed>>
    BY <1>2, <2>1 DEF TypeOK, CheckEnds, Answered, Show, Touched, nav, tunnelVars
  <2>2. CASE (\E e \in Tunnels : Build(e, "none")) /\ UNCHANGED nav
    <3>1. PICK e \in Tunnels : Build(e, "none")
      BY <2>2
    <3>2. checks' = "none" /\ UNCHANGED <<pending, navigated>>
      BY <1>2, <2>2 DEF CheckEnds, nav
    <3> QED BY <3>1, <3>2, BuildType DEF TypeOK
  <2> QED BY <1>2, <2>1, <2>2 DEF CheckEnds
<1>3. CASE CloseTunnel
  <2>1. CASE listed = None
    BY <1>3, <2>1 DEF TypeOK, CloseTunnel, nav, tunnelVars
  <2>2. CASE listed # None
    <3>1. listed \in Tunnels
      BY <2>2 DEF TypeOK
    <3> QED BY <1>3, <2>2, <3>1 DEF TypeOK, CloseTunnel, Closing, IsOpen, nav
  <2> QED BY <2>1, <2>2
<1>4. CASE Prune
  BY <1>4 DEF TypeOK, Prune, nav, tunnelVars
<1>5. CASE LoseWindow
  BY <1>5 DEF TypeOK, LoseWindow, tunnelVars
<1>6. ASSUME NEW e \in Tunnels, OfTunnel(e) PROVE TypeOK'
  <2>1. CASE WsCloses(e)
    BY <2>1 DEF TypeOK, WsCloses, nav
  <2>2. CASE WsCleanUp(e)
    BY <2>2 DEF TypeOK, WsCleanUp, nav, tunnelVars
  <2>3. CASE PcFails(e)
    BY <2>3 DEF TypeOK, PcFails, Closing, nav
  <2>4. CASE PcDisconnects(e)
    BY <2>4 DEF TypeOK, PcDisconnects, nav, tunnelVars
  <2>5. CASE PcCleanUp(e)
    BY <2>5 DEF TypeOK, PcCleanUp, nav, tunnelVars
  <2>6. CASE DcOpens(e)
    <3>1. pending' \in BOOLEAN /\ navigated' \in BOOLEAN
      BY <2>6, Zenon DEF TypeOK, DcOpens, Show, nav
    <3>2. missed' \in [Tunnels -> 0 .. MaxFails]
      BY <2>6 DEF TypeOK, DcOpens
    <3> QED BY <2>6, <3>1, <3>2 DEF TypeOK, DcOpens
  <2>7. CASE DcCloses(e)
    BY <2>7 DEF TypeOK, DcCloses, Closing, nav
  <2>8. CASE PingTick(e)
    <3>1. CASE missed[e] >= MaxFails
      BY <2>8, <3>1 DEF TypeOK, PingTick, GiveUp, Closing, nav
    <3>2. CASE ~(missed[e] >= MaxFails)
      BY <2>8, <3>2 DEF TypeOK, PingTick, SendPing, Touched, nav
    <3> QED BY <3>1, <3>2
  <2>9. CASE TouchTick(e)
    BY <2>9 DEF TypeOK, TouchTick, Touched, nav, tunnelVars
  <2>10. ASSUME NEW pong \in BOOLEAN, Hears(e, pong) PROVE TypeOK'
    BY <2>10 DEF TypeOK, Hears, Touched, nav
  <2> QED BY <1>6, <2>1, <2>2, <2>3, <2>4, <2>5, <2>6, <2>7, <2>8, <2>9, <2>10 DEF OfTunnel
<1>7. CASE UNCHANGED vars
  BY <1>7 DEF TypeOK, vars, tunnelVars, nav
<1> QED BY <1>1, <1>2, <1>3, <1>4, <1>5, <1>6, <1>7 DEF Next

\* Every variable keeps its type, and a channel is given up before its counter
\* passes MaxFails (client.js:582-596).
THEOREM TypeCorrect == Spec => []TypeOK
BY TypeInit, TypeStep, PTL DEF Spec

(***************************************************************************)
(* DeadIsSwept.                                                            *)
(***************************************************************************)

LEMMA SweptInit == Init => DeadIsSwept
BY PageAssumption DEF Init, DeadIsSwept

\* A tunnel that has just been built is not dead.
LEMMA SweptBuild == ASSUME TypeOK, DeadIsSwept, NEW b \in Tunnels, NEW old, Build(b, old)
                    PROVE  DeadIsSwept'
<1> SUFFICES ASSUME NEW e \in Tunnels, listed' = e, ws'[e] = "closed"
             PROVE  FALSE
  BY DEF DeadIsSwept
<1> QED BY DEF Build, TypeOK

LEMMA SweptStep == TypeOK /\ DeadIsSwept /\ [Next]_vars => DeadIsSwept'
<1> SUFFICES ASSUME TypeOK, DeadIsSwept, [Next]_vars PROVE DeadIsSwept'
  OBVIOUS
<1> USE PageAssumption
<1>1. ASSUME UNCHANGED <<ws, dc, late>>, listed' = listed \/ listed' = None
      PROVE  DeadIsSwept'
  BY <1>1 DEF DeadIsSwept, IsOpen
<1>2. ASSUME listed' = None PROVE DeadIsSwept'
  BY <1>2 DEF DeadIsSwept
<1>3. ASSUME NEW by \in {"page", "user"}, Ensure(by) PROVE DeadIsSwept'
  <2>1. CASE Reuse(by) \/ Await(by) \/ StartCheck(by)
    BY <2>1, <1>1 DEF Reuse, Await, StartCheck, tunnelVars
  <2>2. CASE \E e \in Tunnels : Rebuild(by, e)
    BY <2>2, SweptBuild DEF Rebuild
  <2> QED BY <1>3, <2>1, <2>2 DEF Ensure
<1>4. CASE CheckEnds
  BY <1>4, <1>1, SweptBuild DEF CheckEnds, tunnelVars
<1>5. CASE CloseTunnel
  BY <1>5, <1>2 DEF CloseTunnel
<1>6. CASE Prune
  BY <1>6, <1>1 DEF Prune, tunnelVars
<1>7. CASE LoseWindow
  BY <1>7, <1>1 DEF LoseWindow, tunnelVars
<1>8. ASSUME NEW e \in Tunnels, OfTunnel(e) PROVE DeadIsSwept'
  <2>1. CASE WsCloses(e)
    <3>1. late \subseteq late' /\ UNCHANGED <<dc, listed>>
      BY <2>1 DEF WsCloses
    <3>2. ~IsOpen(e) => <<e, "ws">> \in late'
      BY <2>1 DEF WsCloses
    <3>3. \A f \in Tunnels : f # e => ws'[f] = ws[f]
      BY <2>1 DEF WsCloses, TypeOK
    <3> QED BY <3>1, <3>2, <3>3 DEF DeadIsSwept, IsOpen
  <2>2. CASE WsCleanUp(e)
    <3>1. CASE IsOpen(e)
      BY <2>2, <3>1 DEF WsCleanUp, DeadIsSwept, IsOpen, tunnelVars
    <3>2. CASE ~IsOpen(e) /\ IsOpen(listed)
      BY <2>2, <3>2 DEF WsCleanUp, DeadIsSwept, IsOpen, tunnelVars
    <3>3. CASE ~IsOpen(e) /\ ~IsOpen(listed)
      BY <2>2, <3>3, <1>2 DEF WsCleanUp
    <3> QED BY <3>1, <3>2, <3>3
  <2>3. CASE PcFails(e) \/ DcCloses(e)
    BY <2>3, <1>2 DEF PcFails, DcCloses
  <2>4. CASE PcDisconnects(e)
    BY <2>4 DEF PcDisconnects, DeadIsSwept, IsOpen, tunnelVars
  <2>5. CASE PcCleanUp(e)
    <3>1. CASE IsOpen(e)
      BY <2>5, <3>1 DEF PcCleanUp, DeadIsSwept, IsOpen, tunnelVars
    <3>2. CASE ~IsOpen(e)
      BY <2>5, <3>2, <1>2 DEF PcCleanUp
    <3> QED BY <3>1, <3>2
  <2>6. CASE DcOpens(e)
    BY <2>6 DEF DcOpens, TypeOK, DeadIsSwept, IsOpen
  <2>7. CASE PingTick(e)
    BY <2>7, <1>1, <1>2 DEF PingTick, GiveUp, SendPing
  <2>8. CASE TouchTick(e)
    BY <2>8, <1>1 DEF TouchTick, tunnelVars
  <2>9. CASE \E pong \in BOOLEAN : Hears(e, pong)
    BY <2>9, <1>1 DEF Hears
  <2> QED BY <1>8, <2>1, <2>2, <2>3, <2>4, <2>5, <2>6, <2>7, <2>8, <2>9 DEF OfTunnel
<1>9. CASE UNCHANGED vars
  BY <1>9, <1>1 DEF vars, tunnelVars
<1> QED BY <1>3, <1>4, <1>5, <1>6, <1>7, <1>8, <1>9 DEF Next

\* A listed tunnel without WebSocket and channel is about to be removed
\* (client.js:500-516).
THEOREM DeadSwept == Spec => []DeadIsSwept
BY TypeInit, TypeStep, SweptInit, SweptStep, PTL DEF Spec

(***************************************************************************)
(* NoneWaits.                                                              *)
(***************************************************************************)

\* A tunnel that has not been built has no connection.
Unbuilt == \A e \in Tunnels : ws[e] = "none" => pc[e] = "off" /\ dc[e] = "none"

WaitsInv == TypeOK /\ Unbuilt /\ NoneWaits

LEMMA WaitsInit == Init => Unbuilt /\ NoneWaits
BY DEF Init, Unbuilt, NoneWaits

LEMMA UnbuiltStep == TypeOK /\ Unbuilt /\ [Next]_vars => Unbuilt'
<1> SUFFICES ASSUME TypeOK, Unbuilt, [Next]_vars PROVE Unbuilt'
  OBVIOUS
<1>1. ASSUME UNCHANGED <<ws, pc, dc>> PROVE Unbuilt'
  BY <1>1 DEF Unbuilt
<1>2. ASSUME NEW b \in Tunnels, NEW old, Build(b, old) PROVE Unbuilt'
  <2>1. ws'[b] = "up" /\ UNCHANGED dc
    BY <1>2 DEF Build, TypeOK
  <2>2. \A e \in Tunnels : e # b => ws'[e] = ws[e] /\ pc'[e] = pc[e]
    BY <1>2 DEF Build, TypeOK
  <2> QED BY <2>1, <2>2 DEF Unbuilt
<1>3. ASSUME NEW by \in {"page", "user"}, Ensure(by) PROVE Unbuilt'
  BY <1>3, <1>1, <1>2 DEF Ensure, Reuse, Await, StartCheck, Rebuild, tunnelVars
<1>4. CASE CheckEnds
  BY <1>4, <1>1, <1>2 DEF CheckEnds, tunnelVars
<1>5. CASE CloseTunnel
  <2>1. CASE listed = None
    BY <1>5, <2>1, <1>1 DEF CloseTunnel, tunnelVars
  <2>2. CASE listed # None
    <3>1. listed \in Tunnels
      BY <2>2 DEF TypeOK
    <3> QED BY <1>5, <2>2, <3>1 DEF CloseTunnel, Closing, IsOpen, Unbuilt, TypeOK
  <2> QED BY <2>1, <2>2
<1>6. CASE Prune \/ LoseWindow
  BY <1>6, <1>1 DEF Prune, LoseWindow, tunnelVars
<1>7. ASSUME NEW e \in Tunnels, OfTunnel(e) PROVE Unbuilt'
  <2>1. CASE WsCloses(e)
    BY <2>1 DEF WsCloses, Unbuilt, TypeOK
  <2>2. CASE PcFails(e)
    BY <2>2 DEF PcFails, Closing, Unbuilt, TypeOK
  <2>3. CASE DcOpens(e)
    BY <2>3 DEF DcOpens, Unbuilt, TypeOK
  <2>4. CASE DcCloses(e)
    BY <2>4 DEF DcCloses, Closing, Unbuilt, TypeOK
  <2>5. CASE PingTick(e)
    <3>1. CASE GiveUp(e)
      BY <2>5, <3>1 DEF PingTick, GiveUp, Closing, IsOpen, Unbuilt, TypeOK
    <3>2. CASE SendPing(e)
      BY <3>2, <1>1 DEF SendPing
    <3> QED BY <2>5, <3>1, <3>2 DEF PingTick
  <2>6. CASE WsCleanUp(e) \/ PcDisconnects(e) \/ PcCleanUp(e) \/ TouchTick(e)
    BY <2>6, <1>1 DEF WsCleanUp, PcDisconnects, PcCleanUp, TouchTick, tunnelVars
  <2>7. CASE \E pong \in BOOLEAN : Hears(e, pong)
    BY <2>7, <1>1 DEF Hears
  <2> QED BY <1>7, <2>1, <2>2, <2>3, <2>4, <2>5, <2>6, <2>7 DEF OfTunnel
<1>8. CASE UNCHANGED vars
  BY <1>8, <1>1 DEF vars, tunnelVars
<1> QED BY <1>3, <1>4, <1>5, <1>6, <1>7, <1>8 DEF Next

LEMMA WaitsStep == TypeOK /\ Unbuilt /\ NoneWaits /\ [Next]_vars => NoneWaits'
<1> SUFFICES ASSUME TypeOK, Unbuilt, NoneWaits, [Next]_vars PROVE NoneWaits'
  OBVIOUS
<1> USE PageAssumption
<1>1. ASSUME UNCHANGED nav, listed' = listed \/ listed' = None,
             \A e \in Tunnels : dc'[e] = "open" => dc[e] = "open"
      PROVE  NoneWaits'
  BY <1>1 DEF NoneWaits, IsOpen, TypeOK, nav
<1>2. ASSUME Show PROVE NoneWaits'
  BY <1>2 DEF Show, NoneWaits
<1>3. ASSUME NEW by \in {"page", "user"}, Waits(by), ~IsOpen(listed)' PROVE NoneWaits'
  BY <1>3 DEF Waits, NoneWaits
<1>4. ASSUME NEW b \in Tunnels, NEW old, Build(b, old) PROVE ~IsOpen(listed)'
  BY <1>4 DEF Build, Unbuilt, IsOpen
<1>5. ASSUME NEW by, Answered(by), UNCHANGED <<dc, listed>> PROVE NoneWaits'
  <2>1. CASE by = "user"
    BY <1>2, <1>5, <2>1 DEF Answered
  <2>2. CASE by # "user"
    BY <1>1, <1>5, <2>2 DEF Answered
  <2> QED BY <2>1, <2>2
<1>6. ASSUME NEW by \in {"page", "user"}, Ensure(by) PROVE NoneWaits'
  <2>1. CASE Reuse(by)
    BY <2>1, <1>5 DEF Reuse, tunnelVars
  <2>2. CASE Await(by)
    BY <2>2, <1>3 DEF Await, BeingBuilt, IsOpen, tunnelVars
  <2>3. CASE StartCheck(by)
    BY <2>3, <1>3 DEF StartCheck, IsOpen
  <2>4. ASSUME NEW e \in Tunnels, Rebuild(by, e) PROVE NoneWaits'
    BY <2>4, <1>3, <1>4 DEF Rebuild
  <2> QED BY <1>6, <2>1, <2>2, <2>3, <2>4 DEF Ensure
<1>7. CASE CheckEnds
  <2>1. CASE Answered(checks) /\ UNCHANGED <<tunnelVars, late, listed>>
    BY <2>1, <1>5 DEF tunnelVars
  <2>2. CASE (\E e \in Tunnels : Build(e, "none")) /\ UNCHANGED nav
    BY <2>2, <1>4 DEF NoneWaits, nav
  <2> QED BY <1>7, <2>1, <2>2 DEF CheckEnds
<1>8. CASE CloseTunnel
  <2>1. UNCHANGED nav /\ listed' = None
    BY <1>8 DEF CloseTunnel
  <2> QED BY <2>1 DEF NoneWaits, IsOpen, nav
<1>9. CASE Prune
  BY <1>9, <1>1 DEF Prune, tunnelVars
<1>10. CASE LoseWindow
  BY <1>10 DEF LoseWindow, NoneWaits
<1>11. ASSUME NEW e \in Tunnels, OfTunnel(e) PROVE NoneWaits'
  <2>1. CASE DcOpens(e)
    <3>1. CASE pending
      BY <2>1, <3>1, <1>2 DEF DcOpens
    <3>2. CASE ~pending
      BY <2>1, <3>2 DEF DcOpens, NoneWaits, nav
    <3> QED BY <3>1, <3>2
  <2>2. CASE WsCloses(e) \/ WsCleanUp(e) \/ PcDisconnects(e) \/ PcCleanUp(e) \/ TouchTick(e)
    BY <2>2, <1>1 DEF WsCloses, WsCleanUp, PcDisconnects, PcCleanUp, TouchTick, tunnelVars
  <2>3. CASE PcFails(e)
    BY <2>3, <1>1 DEF PcFails
  <2>4. CASE DcCloses(e)
    BY <2>4, <1>1 DEF DcCloses, TypeOK
  <2>5. CASE PingTick(e)
    <3>1. CASE GiveUp(e)
      BY <3>1, <1>1 DEF GiveUp, TypeOK
    <3>2. CASE SendPing(e)
      BY <3>2, <1>1 DEF SendPing
    <3> QED BY <2>5, <3>1, <3>2 DEF PingTick
  <2>6. CASE \E pong \in BOOLEAN : Hears(e, pong)
    BY <2>6, <1>1 DEF Hears
  <2> QED BY <1>11, <2>1, <2>2, <2>3, <2>4, <2>5, <2>6 DEF OfTunnel
<1>12. CASE UNCHANGED vars
  BY <1>12, <1>1 DEF vars, tunnelVars
<1> QED BY <1>6, <1>7, <1>8, <1>9, <1>10, <1>11, <1>12 DEF Next

\* A waiting window is taken by whoever finds the tunnel open first
\* (client.js:561-575, 737-753).
THEOREM NoWindowWaits == Spec => []NoneWaits
<1>1. Init => WaitsInv
  BY TypeInit, WaitsInit DEF WaitsInv
<1>2. WaitsInv /\ [Next]_vars => WaitsInv'
  BY TypeStep, UnbuiltStep, WaitsStep DEF WaitsInv
<1>3. WaitsInv => NoneWaits
  BY DEF WaitsInv
<1> QED BY <1>1, <1>2, <1>3, PTL DEF Spec

(***************************************************************************)
(* Kept.                                                                   *)
(***************************************************************************)

LEMMA KeptStep == TypeOK /\ [Next]_vars =>
    \A e \in Tunnels : listed = e /\ IsOpen(e) /\ ~Rival(e) =>
        listed' = e \/ dc'[e] # "open" \/ pc'[e] = "off"
<1> SUFFICES ASSUME TypeOK, [Next]_vars, NEW e \in Tunnels,
                    listed = e, IsOpen(e), ~Rival(e), listed' # e
             PROVE  dc'[e] # "open" \/ pc'[e] = "off"
  OBVIOUS
<1>1. ASSUME NEW by \in {"page", "user"}, Ensure(by) PROVE FALSE
  BY <1>1 DEF Ensure, Reuse, Await, StartCheck, Rebuild, Missing
<1>2. CASE CheckEnds \/ Prune \/ LoseWindow
  BY <1>2 DEF CheckEnds, Prune, LoseWindow, Rival
<1>3. CASE CloseTunnel
  BY <1>3, PageAssumption DEF CloseTunnel, TypeOK
<1>4. ASSUME NEW f \in Tunnels, OfTunnel(f) PROVE dc'[e] # "open" \/ pc'[e] = "off"
  <2>1. CASE f = e
    <3>1. CASE PcFails(e)
      BY <3>1 DEF PcFails, TypeOK
    <3>2. CASE DcCloses(e)
      BY <3>2 DEF DcCloses, TypeOK
    <3>3. CASE PingTick(e)
      BY <3>3 DEF PingTick, GiveUp, SendPing, TypeOK
    <3> QED BY <1>4, <2>1, <3>1, <3>2, <3>3 DEF OfTunnel, WsCloses, WsCleanUp,
          PcDisconnects, PcCleanUp, DcOpens, TouchTick, Hears
  \* What another tunnel does to the map, it does as a rival.
  <2>2. CASE f # e
    <3>1. /\ pc[f] # "on" /\ dc[f] \notin {"open", "dying"}
          /\ <<f, "pc">> \notin late
      BY <2>2 DEF Rival
    <3> QED BY <1>4, <3>1 DEF OfTunnel, WsCloses, WsCleanUp, PcFails, PcDisconnects,
          PcCleanUp, DcOpens, DcCloses, PingTick, TouchTick, Hears, IsOpen
  <2> QED BY <2>1, <2>2
<1>5. CASE UNCHANGED vars
  BY <1>5 DEF vars
<1> QED BY <1>1, <1>2, <1>3, <1>4, <1>5 DEF Next

\* An open tunnel of the map leaves it only by its own end, unless it has a
\* rival (client.js:452-470, 500-516, 171-181).
THEOREM OpenTunnelKept == Spec => Kept
<1>1. TypeOK /\ [Next]_vars => [\A e \in Tunnels :
        listed = e /\ IsOpen(e) /\ ~Rival(e) =>
            listed' = e \/ dc'[e] # "open" \/ pc'[e] = "off"]_vars
  BY KeptStep
<1> QED BY <1>1, TypeInit, TypeStep, PTL DEF Spec, Kept

(***************************************************************************)
(* StaysWithdrawn.                                                         *)
(***************************************************************************)

\* A touch timer runs no longer than the WebSocket of its tunnel.
TouchedBySocket == \A e \in touching : ws[e] \in {"up", "closing"}

LEMMA TouchedInit == Init => TouchedBySocket
BY DEF Init, TouchedBySocket

LEMMA TouchedStep == TypeOK /\ TouchedBySocket /\ [Next]_vars => TouchedBySocket'
<1> SUFFICES ASSUME TypeOK, TouchedBySocket, [Next]_vars PROVE TouchedBySocket'
  OBVIOUS
<1>1. ASSUME UNCHANGED <<ws, touching>> PROVE TouchedBySocket'
  BY <1>1 DEF TouchedBySocket
<1>2. ASSUME NEW b \in Tunnels, NEW old, Build(b, old) PROVE TouchedBySocket'
  BY <1>2 DEF Build, TouchedBySocket, TypeOK
\* A socket that is told to close is closing.
<1>3. ASSUME NEW c \in Tunnels, ws' = Closing(c), touching' \subseteq touching
      PROVE  TouchedBySocket'
  BY <1>3 DEF Closing, TouchedBySocket, TypeOK
<1>4. ASSUME NEW by \in {"page", "user"}, Ensure(by) PROVE TouchedBySocket'
  BY <1>4, <1>1, <1>2 DEF Ensure, Reuse, Await, StartCheck, Rebuild, tunnelVars
<1>5. CASE CheckEnds
  BY <1>5, <1>1, <1>2 DEF CheckEnds, tunnelVars
<1>6. CASE CloseTunnel
  BY <1>6, <1>1, <1>3 DEF CloseTunnel, TypeOK, tunnelVars
<1>7. CASE Prune \/ LoseWindow
  BY <1>7, <1>1 DEF Prune, LoseWindow, tunnelVars
<1>8. ASSUME NEW e \in Tunnels, OfTunnel(e) PROVE TouchedBySocket'
  <2>1. CASE WsCloses(e)
    BY <2>1 DEF WsCloses, TouchedBySocket, TypeOK
  <2>2. CASE PcFails(e) \/ DcCloses(e)
    BY <2>2, <1>3 DEF PcFails, DcCloses
  <2>3. CASE PingTick(e)
    BY <2>3, <1>1, <1>3 DEF PingTick, GiveUp, SendPing
  <2>4. CASE WsCleanUp(e) \/ PcDisconnects(e) \/ PcCleanUp(e) \/ TouchTick(e)
    BY <2>4, <1>1 DEF WsCleanUp, PcDisconnects, PcCleanUp, TouchTick, tunnelVars
  <2>5. CASE DcOpens(e) \/ \E pong \in BOOLEAN : Hears(e, pong)
    BY <2>5, <1>1 DEF DcOpens, Hears
  <2> QED BY <1>8, <2>1, <2>2, <2>3, <2>4, <2>5 DEF OfTunnel
<1>9. CASE UNCHANGED vars
  BY <1>9, <1>1 DEF vars, tunnelVars
<1> QED BY <1>4, <1>5, <1>6, <1>7, <1>8, <1>9 DEF Next

LEMMA WithdrawnStep == TypeOK /\ TouchedBySocket /\ [Next]_vars =>
    (NoTunnel /\ entry = "none" => entry' = "none" \/ ~NoTunnel' \/ checks' # checks)
<1> SUFFICES ASSUME TypeOK, TouchedBySocket, [Next]_vars, NoTunnel, entry = "none"
             PROVE  entry' = "none" \/ ~NoTunnel' \/ checks' # checks
  OBVIOUS
<1>1. /\ touching = {} /\ ~IsOpen(listed)
      /\ \A e \in Tunnels : ~IsOpen(e)
  BY DEF NoTunnel, TouchedBySocket, TypeOK, IsOpen
<1>2. ASSUME NEW b \in Tunnels, NEW old, Build(b, old) PROVE ~NoTunnel'
  BY <1>2 DEF Build, NoTunnel, TypeOK
<1>3. ASSUME NEW by \in {"page", "user"}, Ensure(by) PROVE entry' = "none" \/ ~NoTunnel'
  BY <1>3, <1>1, <1>2 DEF Ensure, Reuse, Await, StartCheck, Rebuild
<1>4. CASE CheckEnds
  BY <1>4 DEF CheckEnds
<1>5. CASE CloseTunnel \/ Prune \/ LoseWindow
  BY <1>5 DEF CloseTunnel, Prune, LoseWindow
<1>6. ASSUME NEW e \in Tunnels, OfTunnel(e) PROVE entry' = "none" \/ ~NoTunnel'
  <2>1. CASE DcOpens(e)
    <3>1. dc'[e] = "open"
      BY <2>1 DEF DcOpens, TypeOK
    <3> QED BY <3>1, PageAssumption DEF NoTunnel, IsOpen
  <2>2. CASE PingTick(e) \/ TouchTick(e) \/ \E pong \in BOOLEAN : Hears(e, pong)
    BY <2>2, <1>1 DEF PingTick, TouchTick, Hears
  <2>3. CASE WsCloses(e) \/ WsCleanUp(e) \/ PcFails(e) \/ PcDisconnects(e)
             \/ PcCleanUp(e) \/ DcCloses(e)
    BY <2>3 DEF WsCloses, WsCleanUp, PcFails, PcDisconnects, PcCleanUp, DcCloses
  <2> QED BY <1>6, <2>1, <2>2, <2>3 DEF OfTunnel
<1>7. CASE UNCHANGED vars
  BY <1>7 DEF vars
<1> QED BY <1>3, <1>4, <1>5, <1>6, <1>7 DEF Next

\* An entry that is gone with the last tunnel is not written again by what is
\* left of it (client.js:492, 505, 611).
THEOREM EntryStaysWithdrawn == Spec => StaysWithdrawn
<1>1. Init => TypeOK /\ TouchedBySocket
  BY TypeInit, TouchedInit
<1>2. TypeOK /\ TouchedBySocket /\ [Next]_vars => (TypeOK /\ TouchedBySocket)'
  BY TypeStep, TouchedStep
<1>3. TypeOK /\ TouchedBySocket /\ [Next]_vars =>
        [NoTunnel /\ entry = "none" =>
            entry' = "none" \/ ~NoTunnel' \/ checks' # checks]_vars
  BY WithdrawnStep
<1> QED BY <1>1, <1>2, <1>3, PTL DEF Spec, StaysWithdrawn
=============================================================================
