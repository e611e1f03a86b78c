------------------------- MODULE HttpForwardProofs -------------------------
(***************************************************************************)
(* Proofs about HttpForward.tla, for every set of hosts, ports and methods *)
(* and every limit.                                                        *)
(***************************************************************************)
EXTENDS HttpForward, TLAPS

\* Where the loop is, in requests sent.
Rounds ==
    /\ Len(contacted) <= MaxRedirects + 1
    /\ pc \in {"start", "do"} => Len(contacted) = count /\ count <= MaxRedirects
    /\ pc = "examine" => Len(contacted) = count + 1 /\ count <= MaxRedirects
    /\ pc \in {"examine", "finish"} => contacted # <<>>
    /\ pc # "done" => result = "none"
    /\ result = "ok" => resp.status \notin Redirects /\ contacted # <<>>

\* reqURL never leaves the target's host; nor http for an https target.
Place(u) == u.host = target.host /\ (target.scheme = "https" => u.scheme # "http")

Path ==
    /\ pc \in {"start", "do", "examine"} => Place(url)
    /\ \A i \in DOMAIN contacted : Place(contacted[i].url) /\ contacted[i].url.scheme # "other"

\* What is kept was kept from the beginning.
Kept ==
    pc \in {"start", "do", "examine"} /\ body =>
        \A i \in DOMAIN contacted : contacted[i].body /\ contacted[i].method = method

OpenBodies ==
    /\ pc = "start" => open = {}
    /\ pc = "do" => open \subseteq {count - 1}
    /\ pc = "examine" => open = {count}
    /\ \A h, k \in open : h = k
    /\ pc = "done" => open = {}

IInv == TypeOK /\ Rounds /\ Path /\ Kept /\ BodyWithItsMethod /\ OpenBodies

-----------------------------------------------------------------------------
LEMMA InitInv == Init => IInv
  BY MaxRedirectsAssumption
     DEF Init, IInv, TypeOK, Rounds, Path, Place, Kept, BodyWithItsMethod, OpenBodies,
         NoResp, URLs

\* The requests sent before and after one more.
LEMMA Contacting ==
    ASSUME TypeOK, contacted' = Append(contacted, Request)
    PROVE  /\ contacted' \in Seq([url : URLs, method : Methods, body : BOOLEAN])
           /\ Len(contacted') = Len(contacted) + 1 /\ contacted' # <<>>
           /\ DOMAIN contacted = 1 .. Len(contacted)
           /\ DOMAIN contacted' = 1 .. Len(contacted) + 1
           /\ \A i \in 1 .. Len(contacted) : contacted'[i] = contacted[i]
           /\ contacted'[Len(contacted) + 1] = Request
  BY DEF TypeOK, Request

LEMMA DoOKInv == ASSUME IInv, DoOK PROVE IInv'
  <1> USE DEF IInv, DoOK
  <1>1. resp' \in [status : Statuses \cup {0}, goes : BOOLEAN, next : URLs]
    <2>1. url \in URLs /\ resp' \in Responses(url)
        BY DEF TypeOK
    <2>2. \/ \E s \in Statuses, n \in URLs : resp' = [status |-> s, goes |-> TRUE, next |-> n]
          \/ \E s \in Statuses : resp' = [status |-> s, goes |-> FALSE, next |-> url]
        BY <2>1 DEF Responses
    <2>3. CASE \E s \in Statuses, n \in URLs : resp' = [status |-> s, goes |-> TRUE, next |-> n]
        BY <2>3
    <2>4. CASE \E s \in Statuses : resp' = [status |-> s, goes |-> FALSE, next |-> url]
        BY <2>1, <2>4
    <2> QED BY <2>2, <2>3, <2>4
  <1>2. TypeOK'
      BY <1>1, Contacting, MaxRedirectsAssumption DEF TypeOK, Rounds
  <1>3. Rounds'
      BY Contacting, MaxRedirectsAssumption DEF Rounds, TypeOK
  <1>4. Path'
      BY Contacting DEF Path, Place, Request
  <1>5. Kept' /\ BodyWithItsMethod'
      BY Contacting DEF Kept, BodyWithItsMethod, Request, TypeOK
  <1>6. OpenBodies'
      BY DEF OpenBodies, TypeOK
  <1> QED BY <1>2, <1>3, <1>4, <1>5, <1>6

LEMMA DoErrorInv == ASSUME IInv, DoError PROVE IInv'
  <1> USE DEF IInv, DoError, Return
  <1>1. CASE contacted' = contacted
      BY <1>1 DEF TypeOK, Rounds, Path, Place, Kept, BodyWithItsMethod, OpenBodies, NoResp
  <1>2. CASE contacted' = Append(contacted, Request) /\ url.scheme # "other"
    <2>0. resp' \in [status : Statuses \cup {0}, goes : BOOLEAN, next : URLs]
        BY DEF TypeOK, NoResp
    <2>1. TypeOK'
        BY <1>2, <2>0, Contacting DEF TypeOK
    <2>2. Rounds'
        BY <1>2, Contacting, MaxRedirectsAssumption DEF Rounds, TypeOK
    <2>3. Path'
      <3>1. Place(url) /\ Request.url = url
          BY DEF Path, Request
      <3>2. \A u : Place(u)' = Place(u)
          BY DEF Place
      <3>3. \A i \in DOMAIN contacted' :
               Place(contacted[i].url)' /\ contacted'[i].url.scheme # "other"
        <4> SUFFICES ASSUME NEW i \in DOMAIN contacted'
                     PROVE  Place(contacted'[i].url) /\ contacted'[i].url.scheme # "other"
            BY <3>2
        <4>1. CASE i \in 1 .. Len(contacted)
          <5>1. i \in DOMAIN contacted /\ contacted'[i] = contacted[i]
              BY <1>2, <4>1, Contacting
          <5>2. Place(contacted[i].url) /\ contacted[i].url.scheme # "other"
              BY <5>1 DEF Path
          <5> QED BY <5>1, <5>2
        <4>2. CASE i = Len(contacted) + 1
            BY <1>2, <3>1, <4>2, Contacting
        <4>3. i \in 1 .. Len(contacted) + 1
            BY <1>2, Contacting
        <4>4. Len(contacted) \in Nat
            BY DEF TypeOK
        <4> QED BY <4>1, <4>2, <4>3, <4>4
      <3>4. pc' = "done"
          OBVIOUS
      <3> QED BY <3>3, <3>4 DEF Path
    <2>4. Kept' /\ BodyWithItsMethod'
        BY <1>2, Contacting DEF Kept, BodyWithItsMethod, Request, TypeOK
    <2>5. OpenBodies'
        BY DEF OpenBodies, TypeOK
    <2> QED BY <2>1, <2>2, <2>3, <2>4, <2>5
  <1>3. CASE contacted' = Append(contacted, Request) /\ url.scheme = "other"
      BY <1>1, <1>3
  <1> QED BY <1>1, <1>2, <1>3

LEMMA FollowInv == ASSUME IInv, Follow PROVE IInv'
  <1> USE DEF IInv, Follow, Followable
  <1>0. count \in Nat /\ count <= MaxRedirects /\ url' \in URLs
      BY DEF TypeOK, Rounds
  <1>a. method' \in Methods /\ body' \in BOOLEAN
      BY MethodsAssumption DEF TypeOK
  <1>1. TypeOK'
      BY <1>0, <1>a, MaxRedirectsAssumption DEF TypeOK
  <1>2. Rounds'
      BY MaxRedirectsAssumption DEF Rounds, TypeOK
  <1>3. Path'
    <2>1. Place(url')
        BY DEF Place, Allowed
    <2>2. UNCHANGED <<contacted, target>>
        OBVIOUS
    <2>3. \A u : Place(u)' = Place(u)
        BY <2>2 DEF Place
    <2> QED BY <2>1, <2>2, <2>3 DEF Path
  <1>4. Kept' /\ BodyWithItsMethod'
      BY DEF Kept, BodyWithItsMethod
  <1>5. OpenBodies'
      BY DEF OpenBodies, TypeOK
  <1> QED BY <1>1, <1>2, <1>3, <1>4, <1>5

\* The other steps send nothing and open nothing.
LEMMA QuietInv ==
    ASSUME IInv, Refuse \/ Start \/ Break \/ Block \/ Finish \/ UNCHANGED vars
    PROVE  IInv'
  <1> USE DEF IInv, Refuse, Start, Break, Block, Finish, vars, Return, Followable
  <1>1. TypeOK'
      BY DEF TypeOK
  <1>2. Rounds'
      BY DEF Rounds, TypeOK
  <1>3. Path' /\ Kept' /\ BodyWithItsMethod'
      BY DEF Path, Place, Kept, BodyWithItsMethod
  <1>4. OpenBodies'
      BY DEF OpenBodies, TypeOK
  <1> QED BY <1>1, <1>2, <1>3, <1>4

LEMMA Inductive == Spec => []IInv
  <1>1. IInv /\ [Next]_vars => IInv'
      BY DoOKInv, DoErrorInv, FollowInv, QuietInv DEF Next
  <1> QED BY <1>1, InitInv, PTL DEF Spec

\* Every variable keeps its type.
THEOREM TypeCorrect == Spec => []TypeOK
  <1>1. IInv => TypeOK
      BY DEF IInv
  <1> QED BY <1>1, Inductive, PTL

\* Following redirects by hand never leads to another host, nor from an https
\* target to plain http.
THEOREM StaysOnTarget == Spec => []OnlyTheTarget
  <1>1. IInv => OnlyTheTarget
    <2> SUFFICES ASSUME IInv, NEW i \in DOMAIN contacted
                 PROVE  /\ contacted[i].url.host = target.host
                        /\ target.scheme = "https" => contacted[i].url.scheme = "https"
        BY DEF OnlyTheTarget
    <2>1. contacted[i].url \in URLs
      <3>1. contacted \in Seq([url : URLs, method : Methods, body : BOOLEAN])
          BY DEF IInv, TypeOK
      <3>2. \A S : contacted \in Seq(S) => contacted[i] \in S
          OBVIOUS
      <3>3. contacted[i] \in [url : URLs, method : Methods, body : BOOLEAN]
          BY <3>1, <3>2
      <3> QED BY <3>3
    <2> QED BY <2>1 DEF IInv, Path, Place, URLs, Schemes
  <1> QED BY <1>1, Inductive, PTL

\* A body is only ever re-sent with the method it came with.
THEOREM BodyKeepsItsMethod == Spec => []BodyWithItsMethod
  <1>1. IInv => BodyWithItsMethod
      BY DEF IInv
  <1> QED BY <1>1, Inductive, PTL

\* No return of forwardHTTP leaks an upstream response body.
THEOREM BodiesAreClosed == Spec => []NoBodyLeak
  <1>1. IInv => NoBodyLeak
      BY DEF IInv, OpenBodies, NoBodyLeak
  <1> QED BY <1>1, Inductive, PTL

\* At most MaxRedirects + 1 requests are sent, and no redirect is handed over.
THEOREM RedirectsAreBounded == Spec => []Bounded
  <1>1. IInv => Bounded
      BY DEF IInv, Rounds, Bounded
  <1> QED BY <1>1, Inductive, PTL
=============================================================================
