---------------------------- MODULE TunnelProofs ----------------------------
(***************************************************************************)
(* Proofs about Tunnel.tla, for every set of requests, bodies of any       *)
(* lengths and any limits on what a frame carries.                         *)
(***************************************************************************)
EXTENDS Tunnel, TLAPS

USE DEF Responses

(***************************************************************************)
(* The arithmetic of sendChunked, for every length: a chunk is full but    *)
(* for the last, which ends where the body does.                           *)
(***************************************************************************)
LEMMA CeilDivision ==
    ASSUME NEW l \in Nat, NEW c \in Nat \ {0}
    PROVE  LET n == (l + c - 1) \div c
           IN  n \in Nat /\ l <= n * c /\ n * c < l + c
  <1> DEFINE n == (l + c - 1) \div c
  <1>1. n \in Int /\ c * n <= l + c - 1 /\ l + c - 1 < c * n + c
      OBVIOUS
  <1> QED BY <1>1

LEMMA FloorDivision ==
    ASSUME NEW x \in Nat, NEW c \in Nat \ {0}
    PROVE  x \div c \in Nat /\ (x \div c) * c <= x /\ x < (x \div c) * c + c
  <1>1. x \div c \in Int /\ c * (x \div c) <= x /\ x < c * (x \div c) + c
      OBVIOUS
  <1> QED BY <1>1

LEMMA Monotone ==
    ASSUME NEW i \in Nat, NEW j \in Nat, NEW c \in Nat, i <= j
    PROVE  i * c <= j * c
  OBVIOUS

LEMMA ChunkCountFacts ==
    ASSUME NEW l \in Lengths
    PROVE  /\ l \in Nat /\ ChunkCount(l) \in Nat
           /\ ChunkCount(l) > 0 => /\ l <= ChunkCount(l) * ChunkSize
                                  /\ ChunkCount(l) * ChunkSize < l + ChunkSize
  <1>1. l \in Nat /\ SingleMax \in Nat /\ ChunkSize \in Nat \ {0}
      BY LengthsAssumption
  <1>2. CASE l <= SingleMax
      BY <1>1, <1>2 DEF ChunkCount
  <1>3. CASE ~(l <= SingleMax)
    <2>1. ChunkCount(l) = (l + ChunkSize - 1) \div ChunkSize
        BY <1>3 DEF ChunkCount
    <2> QED BY <1>1, <2>1, CeilDivision
  <1> QED BY <1>2, <1>3

LEMMA SizesAreNat == Sizes \subseteq Nat
  BY ChunkCountFacts DEF Sizes


(***************************************************************************)
(* Where the request of r can be: it moves from the SW through toPage and  *)
(* dcUp to its goroutine, and is never in two of these places.             *)
(***************************************************************************)
Queues ==
    /\ \A i, j \in DOMAIN toPage : toPage[i] = toPage[j] => i = j
    /\ \A i \in DOMAIN toPage :
          /\ sw[toPage[i]] \notin {"idle", "picking"}
          /\ toPage[i] \notin bridged
    /\ \A i, j \in DOMAIN dcUp : dcUp[i] = dcUp[j] => i = j
    /\ \A i \in DOMAIN dcUp : dcUp[i] \in bridged /\ gw[dcUp[i]] = "none"

Stage(r) ==
    /\ r \in bridged => sw[r] \notin {"idle", "picking"}
    /\ r \in inflight \/ gw[r] # "none" => r \in bridged
    /\ gw[r] \in {"sending", "done"} <=> resp[r] # None
    /\ gw[r] = "sending" => sent[r] < FrameCount(r)
    /\ IF resp[r] = None THEN sent[r] = 0 ELSE sent[r] <= FrameCount(r)
    /\ asm[r] # None => resp[r] # None /\ sent[r] > 0
    /\ asm[r] # None /\ ~asm[r].port => r \notin inflight

(***************************************************************************)
(* The frames on their way to the page, and how much of a response the     *)
(* page has put together: for every frame but the first of a response, the *)
(* frame before it is ahead of it in the channel or already in ent.chunked.*)
(***************************************************************************)
Index(f) == CASE f.kind = "chunk" -> f.n + 1
              [] f.kind = "end" -> resp[f.id].chunks + 1
              [] OTHER -> 0

Consumed(r, k) == asm[r] # None /\ (k = 0 \/ <<r, k - 1>> \in asm[r].parts)

Before(r, k, i) == \/ \E j \in 1 .. i - 1 : dcDown[j] = FrameAt(r, k)
                   \/ Consumed(r, k)

FrameOK(f, i) ==
    /\ resp[f.id] # None
    /\ f = FrameAt(f.id, Index(f))
    /\ Index(f) < sent[f.id]
    /\ resp[f.id].fits \/ Index(f) > 0
    /\ resp[f.id].fits /\ Index(f) > 0 => Before(f.id, Index(f) - 1, i)
    /\ f.kind = "start" => asm[f.id] = None

Wire ==
    /\ pageDc = "closed" => dcDown = <<>>
    /\ \A i \in DOMAIN dcDown : FrameOK(dcDown[i], i)
    /\ \A i, j \in DOMAIN dcDown :
          i < j /\ dcDown[i].id = dcDown[j].id => Index(dcDown[i]) < Index(dcDown[j])

Assembly(r) ==
    /\ asm[r] # None =>
          /\ resp[r].fits
          /\ \E m \in 0 .. resp[r].chunks : asm[r].parts = Pieces(r, m)
    /\ /\ gwDc = "open" /\ pageDc = "open"
       /\ gw[r] = "sending" /\ resp[r].fits /\ sent[r] > 0
       => Before(r, sent[r] - 1, Len(dcDown) + 1)

\* What has been posted to the SW, and what the SW has made of it.
Posted(r) ==
    \A i \in DOMAIN port[r] :
       port[r][i].kind = "response" =>
          resp[r] # None /\ port[r][i].parts = Whole(r)

\* Integrity without the arithmetic of the slices, which never changes.
OwnBody ==
    \A r \in Requests : sw[r] = "resolved" => resp[r] # None /\ body[r] = Whole(r)

IInv == /\ TypeOK
        /\ Queues
        /\ \A r \in Requests : Stage(r)
        /\ Wire
        /\ \A r \in Requests : Assembly(r) /\ Posted(r)
        /\ OwnBody
        /\ NeverSilent

-----------------------------------------------------------------------------
\* The conjuncts of IInv read only part of the state.
LEMMA WireFrame ==
    ASSUME Wire, UNCHANGED <<dcDown, resp, sent, asm, pageDc>>
    PROVE  Wire'
  <1>1. ASSUME NEW f PROVE Index(f)' = Index(f)
      BY DEF Index
  <1>2. ASSUME NEW f, NEW i, FrameOK(f, i) PROVE FrameOK(f, i)'
      BY <1>1, <1>2 DEF FrameOK, Before, Consumed, FrameAt, Frame
  <1>3. \A i \in DOMAIN dcDown : FrameOK(dcDown[i], i)'
      BY <1>2 DEF Wire
  <1> QED BY <1>1, <1>3 DEF Wire

LEMMA AssemblyFrame ==
    ASSUME NEW r \in Requests, Assembly(r),
           UNCHANGED <<dcDown, resp, sent, asm>>,
           gw'[r] = "sending" => gw[r] = "sending",
           gwDc' = "open" => gwDc = "open",
           pageDc' = "open" => pageDc = "open"
    PROVE  Assembly(r)'
  BY DEF Assembly, Before, Consumed, FrameAt, Frame, Pieces

LEMMA PostedFrame ==
    ASSUME NEW r \in Requests, Posted(r), UNCHANGED <<port, resp>>
    PROVE  Posted(r)'
  BY DEF Posted, Whole, Pieces

\* Messages may leave a port, and messages that are no response may join it.
LEMMA PostedStep ==
    ASSUME NEW r \in Requests, Posted(r), resp' = resp,
           \A i \in DOMAIN port'[r] :
              \/ i \in DOMAIN port[r] /\ port'[r][i] = port[r][i]
              \/ port'[r][i].kind # "response"
    PROVE  Posted(r)'
  BY DEF Posted, Whole, Pieces

\* What keeps a frame well placed when others come and go.
LEMMA FrameOKStep ==
    ASSUME NEW f \in Frames, NEW i \in Nat, NEW j \in Nat, FrameOK(f, i),
           resp' = resp, sent \in [Requests -> Nat],
           sent'[f.id] \in Nat, sent'[f.id] >= sent[f.id], Index(f) \in Int,
           f.kind = "start" => asm'[f.id] = None,
           resp[f.id].fits /\ Index(f) > 0 /\ Before(f.id, Index(f) - 1, i)
              => Before(f.id, Index(f) - 1, j)'
    PROVE  FrameOK(f, j)'
  <1>1. Index(f)' = Index(f) /\ f.id \in Requests /\ sent[f.id] \in Nat
      BY DEF Index, Frames
  <1>2. \A k : FrameAt(f.id, k)' = FrameAt(f.id, k)
      BY DEF FrameAt, Frame
  <1>3. Index(f) < sent'[f.id]
      BY <1>1 DEF FrameOK
  <1> QED BY <1>1, <1>2, <1>3 DEF FrameOK

LEMMA StageFrame ==
    ASSUME NEW r \in Requests, Stage(r),
           UNCHANGED <<bridged, inflight, gw, resp, sent, asm>>,
           r \in bridged => sw'[r] \notin {"idle", "picking"}
    PROVE  Stage(r)'
  BY DEF Stage, FrameCount

LEMMA OwnBodyFrame ==
    ASSUME OwnBody, UNCHANGED <<sw, body, resp>>
    PROVE  OwnBody'
  BY DEF OwnBody, Whole, Pieces

-----------------------------------------------------------------------------
LEMMA InitInv == Init => IInv
  <1> SUFFICES ASSUME Init PROVE IInv
      OBVIOUS
  <1> USE DEF Init
  <1>1. TypeOK
      BY DEF TypeOK
  <1>2. Queues /\ Wire /\ OwnBody /\ NeverSilent
      BY DEF Queues, Wire, OwnBody, NeverSilent
  <1>3. ASSUME NEW r \in Requests PROVE Stage(r) /\ Assembly(r) /\ Posted(r)
      BY DEF Stage, Assembly, Posted
  <1> QED BY <1>1, <1>2, <1>3 DEF IInv

\* What the SW does on its own: nothing the page or the gateway sees, except
\* that PickHost puts a request nobody has seen in toPage.
LEMMA FetchInv == ASSUME IInv, NEW r \in Requests, Fetch(r) PROVE IInv'
  <1> USE DEF IInv, Fetch, pageVars, gwVars
  <1>1. TypeOK'
      BY DEF TypeOK
  <1>2. Queues' /\ NeverSilent'
      BY DEF Queues, NeverSilent, TypeOK, Settled
  <1>3. ASSUME NEW q \in Requests PROVE Stage(q)' /\ Assembly(q)' /\ Posted(q)'
    <2>1. q \in bridged => sw'[q] \notin {"idle", "picking"}
        BY DEF Stage, TypeOK
    <2> QED BY <2>1, StageFrame, AssemblyFrame, PostedFrame
  <1>4. Wire'
      BY WireFrame
  <1>5. OwnBody'
      BY DEF OwnBody, TypeOK, Whole, Pieces
  <1> QED BY <1>1, <1>2, <1>3, <1>4, <1>5

LEMMA PickHostInv == ASSUME IInv, NEW r \in Requests, PickHost(r) PROVE IInv'
  <1> USE DEF IInv, PickHost, pageVars, gwVars
  <1>1. TypeOK'
      BY DEF TypeOK
  <1>2. Queues'
    <2>1. /\ r \notin bridged
          /\ \A i \in DOMAIN toPage : toPage[i] # r
        BY DEF Queues, Stage
    <2>2. /\ DOMAIN toPage' = 1 .. Len(toPage) + 1
          /\ \A i \in 1 .. Len(toPage) : toPage'[i] = toPage[i]
          /\ toPage'[Len(toPage) + 1] = r
        BY DEF TypeOK
    <2>3. DOMAIN toPage = 1 .. Len(toPage)
        BY DEF TypeOK
    <2>4. \A i, j \in DOMAIN toPage' : toPage'[i] = toPage'[j] => i = j
        BY <2>1, <2>2, <2>3 DEF Queues
    <2>5. \A i \in DOMAIN toPage' :
             sw'[toPage'[i]] \notin {"idle", "picking"} /\ toPage'[i] \notin bridged
        BY <2>1, <2>2, <2>3 DEF Queues, TypeOK
    <2> QED BY <2>4, <2>5 DEF Queues
  <1>3. ASSUME NEW q \in Requests PROVE Stage(q)' /\ Assembly(q)' /\ Posted(q)'
    <2>1. q \in bridged => sw'[q] \notin {"idle", "picking"}
        BY DEF Stage, TypeOK
    <2> QED BY <2>1, StageFrame, AssemblyFrame, PostedFrame
  <1>4. Wire'
      BY WireFrame
  <1>5. OwnBody' /\ NeverSilent'
      BY DEF OwnBody, NeverSilent, TypeOK, Whole, Pieces, Settled
  <1> QED BY <1>1, <1>2, <1>3, <1>4, <1>5

\* The error an unrelated page posts is no response.
LEMMA PickOtherInv == ASSUME IInv, NEW r \in Requests, PickOther(r) PROVE IInv'
  <1> USE DEF IInv, PickOther, pageVars, gwVars
  <1>0. Error \in Messages /\ Error.kind # "response"
      BY DEF Error, Messages
  <1>a. /\ port' \in [Requests -> Seq(Messages)]
        /\ \A q \in Requests : \A i \in DOMAIN port'[q] :
              \/ i \in DOMAIN port[q] /\ port'[q][i] = port[q][i]
              \/ port'[q][i].kind # "response"
    <2>1. port \in [Requests -> Seq(Messages)]
        BY DEF TypeOK
    <2>2. CASE port' = port
        BY <2>1, <2>2
    <2>3. CASE port' = [port EXCEPT ![r] = Append(@, Error)]
        BY <1>0, <2>1, <2>3
    <2> QED BY <2>2, <2>3
  <1>1. TypeOK'
      BY <1>a DEF TypeOK
  <1>2. Queues' /\ NeverSilent'
      BY DEF Queues, NeverSilent, TypeOK, Settled
  <1>3. ASSUME NEW q \in Requests PROVE Stage(q)' /\ Assembly(q)' /\ Posted(q)'
    <2>1. q \in bridged => sw'[q] \notin {"idle", "picking"}
        BY DEF Stage, TypeOK
    <2>2. Stage(q)' /\ Assembly(q)'
        BY <2>1, StageFrame, AssemblyFrame
    <2>3. Posted(q)'
        BY <1>a, PostedStep
    <2> QED BY <2>2, <2>3
  <1>4. Wire'
      BY WireFrame
  <1>5. OwnBody'
      BY DEF OwnBody, TypeOK, Whole, Pieces
  <1> QED BY <1>1, <1>2, <1>3, <1>4, <1>5

LEMMA SWReceiveInv == ASSUME IInv, NEW r \in Requests, SWReceive(r) PROVE IInv'
  <1> USE DEF IInv, SWReceive, pageVars, gwVars
  <1>0. Head(port[r]) \in Messages /\ Head(port[r]) = port[r][1] /\ 1 \in DOMAIN port[r]
      BY DEF TypeOK
  <1>1. TypeOK'
      BY <1>0 DEF TypeOK, Messages
  <1>2. Queues' /\ NeverSilent'
      BY DEF Queues, NeverSilent, TypeOK, Settled
  <1>3. ASSUME NEW q \in Requests PROVE Stage(q)' /\ Assembly(q)' /\ Posted(q)'
    <2>1. q \in bridged => sw'[q] \notin {"idle", "picking"}
        BY DEF Stage, TypeOK
    <2>2. Stage(q)' /\ Assembly(q)'
        BY <2>1, StageFrame, AssemblyFrame
    <2>3. port'[q] = port[q] \/ port'[q] = <<>>
        BY DEF TypeOK
    <2>4. Posted(q)'
        BY <2>3, PostedStep
    <2> QED BY <2>2, <2>4
  <1>4. Wire'
      BY WireFrame
  <1>5. OwnBody'
    <2>1. Head(port[r]).kind = "response" =>
             resp[r] # None /\ Head(port[r]).parts = Whole(r)
        BY <1>0 DEF Posted
    <2>2. \A q \in Requests : Whole(q)' = Whole(q)
        BY DEF Whole, Pieces
    <2>3. /\ sw'[r] = "resolved" => Head(port[r]).kind = "response"
          /\ body'[r] = Head(port[r]).parts
        BY DEF TypeOK
    <2>4. \A q \in Requests \ {r} : sw'[q] = sw[q] /\ body'[q] = body[q]
        BY DEF TypeOK
    <2> QED BY <2>1, <2>2, <2>3, <2>4 DEF OwnBody
  <1> QED BY <1>1, <1>2, <1>3, <1>4, <1>5

LEMMA SWTimeoutInv == ASSUME IInv, NEW r \in Requests, SWTimeout(r) PROVE IInv'
  <1> USE DEF IInv, SWTimeout, pageVars, gwVars
  <1>1. TypeOK'
      BY DEF TypeOK
  <1>2. Queues' /\ NeverSilent'
      BY DEF Queues, NeverSilent, TypeOK, Settled
  <1>3. ASSUME NEW q \in Requests PROVE Stage(q)' /\ Assembly(q)' /\ Posted(q)'
    <2>1. q \in bridged => sw'[q] \notin {"idle", "picking"}
        BY DEF Stage, TypeOK
    <2>2. Stage(q)' /\ Assembly(q)'
        BY <2>1, StageFrame, AssemblyFrame
    <2>3. port'[q] = port[q] \/ port'[q] = <<>>
        BY DEF TypeOK
    <2>4. Posted(q)'
        BY <2>3, PostedStep
    <2> QED BY <2>2, <2>4
  <1>4. Wire'
      BY WireFrame
  <1>5. OwnBody'
      BY DEF OwnBody, TypeOK, Whole, Pieces
  <1> QED BY <1>1, <1>2, <1>3, <1>4, <1>5

-----------------------------------------------------------------------------
\* What port.postMessage keeps, whoever posts.
LEMMA PostInv ==
    ASSUME TypeOK, NEW r \in Requests, NEW msg \in Messages, Post(r, msg)
    PROVE  /\ port' \in [Requests -> Seq(Messages)]
           /\ \A q \in Requests : port[q] # <<>> => port'[q] # <<>>
           /\ port'[r] # <<>> \/ Settled(r)
           /\ \A q \in Requests : \A i \in DOMAIN port'[q] :
                 \/ i \in DOMAIN port[q] /\ port'[q][i] = port[q][i]
                 \/ q = r /\ port'[q][i] = msg
  <1>1. port \in [Requests -> Seq(Messages)]
      BY DEF TypeOK
  <1>2. CASE Settled(r)
      BY <1>1, <1>2 DEF Post
  <1>3. CASE ~Settled(r)
    <2>1. port' = [port EXCEPT ![r] = Append(port[r], msg)]
        BY <1>3 DEF Post
    <2>2. Append(port[r], msg) \in Seq(Messages) /\ Append(port[r], msg) # <<>>
        BY <1>1
    <2>3. \A i \in DOMAIN Append(port[r], msg) :
             \/ i \in DOMAIN port[r] /\ Append(port[r], msg)[i] = port[r][i]
             \/ Append(port[r], msg)[i] = msg
        BY <1>1
    <2> QED BY <1>1, <2>1, <2>2, <2>3
  <1> QED BY <1>2, <1>3

LEMMA PageTimeoutInv ==
    ASSUME IInv, NEW r \in Requests, PageTimeout(r) PROVE IInv'
  <1> USE DEF IInv, PageTimeout, swVars, gwVars
  <1>0. Error \in Messages /\ Error.kind # "response"
      BY DEF Error, Messages
  <1>1. TypeOK'
      BY <1>0, PostInv DEF TypeOK
  <1>2. Queues'
      BY DEF Queues
  <1>3. NeverSilent'
      BY <1>0, PostInv DEF NeverSilent, Settled, TypeOK
  <1>4. ASSUME NEW q \in Requests PROVE Stage(q)' /\ Assembly(q)' /\ Posted(q)'
    <2>1. Stage(q)'
        BY DEF Stage, TypeOK, FrameCount
    <2>2. Assembly(q)'
        BY AssemblyFrame
    <2>3. Posted(q)'
        BY <1>0, PostInv, PostedStep
    <2> QED BY <2>1, <2>2, <2>3
  <1>5. Wire' /\ OwnBody'
      BY WireFrame, OwnBodyFrame
  <1> QED BY <1>1, <1>2, <1>3, <1>4, <1>5

LEMMA PageCloseInv == ASSUME IInv, PageClose PROVE IInv'
  <1> USE DEF IInv, PageClose, swVars, gwVars
  <1>1. TypeOK'
      BY DEF TypeOK
  <1>2. Queues' /\ NeverSilent' /\ Wire'
      BY DEF Queues, NeverSilent, Settled, Wire
  <1>3. ASSUME NEW q \in Requests PROVE Stage(q)' /\ Assembly(q)' /\ Posted(q)'
      BY StageFrame, PostedFrame DEF Assembly, Stage, Pieces
  <1>4. OwnBody'
      BY OwnBodyFrame
  <1> QED BY <1>1, <1>2, <1>3, <1>4

LEMMA PageGoneInv == ASSUME IInv, PageGone PROVE IInv'
  <1> USE DEF IInv, PageGone, swVars, gwVars
  <1>1. TypeOK'
      BY DEF TypeOK
  <1>2. Queues' /\ NeverSilent' /\ Wire'
      BY DEF Queues, NeverSilent, Settled, Wire
  <1>3. ASSUME NEW q \in Requests PROVE Stage(q)' /\ Assembly(q)' /\ Posted(q)'
      BY PostedFrame DEF Assembly, Stage, FrameCount
  <1>4. OwnBody'
      BY OwnBodyFrame
  <1> QED BY <1>1, <1>2, <1>3, <1>4

LEMMA PageBridgeInv == ASSUME IInv, PageBridge PROVE IInv'
  <1> USE DEF IInv, PageBridge, swVars, gwVars
  <1> DEFINE r == Head(toPage)
  <1>0. /\ Error \in Messages /\ Error.kind # "response"
        /\ r \in Requests /\ r = toPage[1] /\ 1 \in DOMAIN toPage
        /\ r \notin bridged /\ r \notin inflight /\ gw[r] = "none"
        /\ resp[r] = None /\ asm[r] = None /\ sw[r] \notin {"idle", "picking"}
    <2>1. Error \in Messages /\ Error.kind # "response"
        BY DEF Error, Messages
    <2>2. r \in Requests /\ r = toPage[1] /\ 1 \in DOMAIN toPage
        BY DEF TypeOK
    <2>3. r \notin bridged /\ sw[r] \notin {"idle", "picking"}
        BY <2>2 DEF Queues
    <2> QED BY <2>1, <2>2, <2>3 DEF Stage
  <1>1. /\ port' \in [Requests -> Seq(Messages)]
        /\ \A q \in Requests : port[q] # <<>> => port'[q] # <<>>
        /\ r \in inflight' \/ port'[r] # <<>> \/ Settled(r)
        /\ \A q \in Requests : \A i \in DOMAIN port'[q] :
              \/ i \in DOMAIN port[q] /\ port'[q][i] = port[q][i]
              \/ port'[q][i].kind # "response"
    <2>1. CASE pageDc = "open" /\ r \in inflight' /\ port' = port
        BY <2>1 DEF TypeOK
    <2>2. CASE Post(r, Error)
        BY <1>0, <2>2, PostInv
    <2> QED BY <2>1, <2>2
  <1>2. inflight' = inflight \/ inflight' = inflight \cup {r}
      BY Zenon
  <1>3. /\ toPage' \in Seq(Requests)
        /\ DOMAIN toPage = 1 .. Len(toPage)
        /\ DOMAIN toPage' = 1 .. Len(toPage) - 1
        /\ \A i \in DOMAIN toPage' : toPage'[i] = toPage[i + 1]
      BY DEF TypeOK
  <1>4. /\ dcUp' \in Seq(Requests)
        /\ DOMAIN dcUp = 1 .. Len(dcUp)
        /\ DOMAIN dcUp' \subseteq 1 .. Len(dcUp) + 1
        /\ \A i \in DOMAIN dcUp' : \/ i \in DOMAIN dcUp /\ dcUp'[i] = dcUp[i]
                                   \/ i = Len(dcUp) + 1 /\ dcUp'[i] = r
    <2>1. dcUp \in Seq(Requests)
        BY DEF TypeOK
    <2>2. dcUp' = dcUp \/ dcUp' = Append(dcUp, r)
        BY DEF Deliver
    <2>3. CASE dcUp' = dcUp
        BY <2>1, <2>3
    <2>4. CASE dcUp' = Append(dcUp, r)
        BY <1>0, <2>1, <2>4
    <2> QED BY <2>2, <2>3, <2>4
  <1>5. TypeOK'
      BY <1>0, <1>1, <1>2, <1>3, <1>4 DEF TypeOK
  <1>6. Queues'
    <2>1. \A i \in DOMAIN toPage' : i + 1 \in DOMAIN toPage /\ toPage'[i] # r
        BY <1>0, <1>3 DEF Queues
    <2>2. \A i, j \in DOMAIN toPage' : toPage'[i] = toPage'[j] => i = j
        BY <1>3, <2>1 DEF Queues
    <2>3. \A i \in DOMAIN toPage' :
             sw'[toPage'[i]] \notin {"idle", "picking"} /\ toPage'[i] \notin bridged'
        BY <1>3, <2>1 DEF Queues
    <2>4. \A i \in DOMAIN dcUp : dcUp[i] # r
        BY <1>0 DEF Queues
    <2>5. \A i, j \in DOMAIN dcUp' : dcUp'[i] = dcUp'[j] => i = j
        BY <1>4, <2>4 DEF Queues
    <2>6. \A i \in DOMAIN dcUp' : dcUp'[i] \in bridged' /\ gw'[dcUp'[i]] = "none"
        BY <1>0, <1>4 DEF Queues
    <2> QED BY <2>2, <2>3, <2>5, <2>6 DEF Queues
  <1>7. ASSUME NEW q \in Requests PROVE Stage(q)' /\ Assembly(q)' /\ Posted(q)'
    <2>1. Stage(q)'
        BY <1>0, <1>2 DEF Stage, FrameCount
    <2>2. Assembly(q)'
        BY AssemblyFrame
    <2>3. Posted(q)'
        BY <1>1, PostedStep
    <2> QED BY <2>1, <2>2, <2>3
  <1>8. Wire' /\ OwnBody'
      BY WireFrame, OwnBodyFrame
  <1>9. NeverSilent'
      BY <1>1, <1>2 DEF NeverSilent, Settled, TypeOK
  <1> QED BY <1>5, <1>6, <1>7, <1>8, <1>9

-----------------------------------------------------------------------------
LEMMA GwRecvInv == ASSUME IInv, GwRecv PROVE IInv'
  <1> USE DEF IInv, GwRecv, swVars, pageVars
  <1> DEFINE r == Head(dcUp)
  <1>0. /\ r \in Requests /\ r = dcUp[1] /\ 1 \in DOMAIN dcUp
        /\ r \in bridged /\ gw[r] = "none" /\ resp[r] = None
    <2>1. r \in Requests /\ r = dcUp[1] /\ 1 \in DOMAIN dcUp
        BY DEF TypeOK
    <2> QED BY <2>1 DEF Queues, Stage
  <1>1. /\ dcUp' \in Seq(Requests)
        /\ DOMAIN dcUp = 1 .. Len(dcUp)
        /\ DOMAIN dcUp' = 1 .. Len(dcUp) - 1
        /\ \A i \in DOMAIN dcUp' : dcUp'[i] = dcUp[i + 1]
      BY DEF TypeOK
  <1>2. \A q \in Requests : gw'[q] = IF q = r THEN "proxying" ELSE gw[q]
      BY DEF TypeOK
  <1>3. TypeOK'
      BY <1>0, <1>1 DEF TypeOK
  <1>4. Queues'
    <2>1. \A i \in DOMAIN dcUp' : i + 1 \in DOMAIN dcUp /\ dcUp'[i] # r
        BY <1>0, <1>1 DEF Queues
    <2>2. \A i, j \in DOMAIN dcUp' : dcUp'[i] = dcUp'[j] => i = j
        BY <1>1, <2>1 DEF Queues
    <2>3. \A i \in DOMAIN dcUp' : dcUp'[i] \in bridged' /\ gw'[dcUp'[i]] = "none"
        BY <1>1, <1>2, <2>1 DEF Queues, TypeOK
    <2> QED BY <2>2, <2>3 DEF Queues
  <1>5. ASSUME NEW q \in Requests PROVE Stage(q)' /\ Assembly(q)' /\ Posted(q)'
    <2>1. Stage(q)'
        BY <1>0, <1>2 DEF Stage, FrameCount
    <2>2. Assembly(q)'
        BY <1>2, AssemblyFrame
    <2>3. Posted(q)'
        BY PostedFrame
    <2> QED BY <2>1, <2>2, <2>3
  <1>6. Wire' /\ OwnBody' /\ NeverSilent'
      BY WireFrame, OwnBodyFrame DEF NeverSilent, Settled
  <1> QED BY <1>3, <1>4, <1>5, <1>6

LEMMA GwCloseInv == ASSUME IInv, GwClose PROVE IInv'
  <1> USE DEF IInv, GwClose, swVars, pageVars
  <1>1. TypeOK'
      BY DEF TypeOK
  <1>2. Queues' /\ NeverSilent'
      BY DEF Queues, NeverSilent, Settled
  <1>3. ASSUME NEW q \in Requests PROVE Stage(q)' /\ Assembly(q)' /\ Posted(q)'
      BY PostedFrame DEF Stage, FrameCount, Assembly, Pieces
  <1>4. Wire' /\ OwnBody'
      BY WireFrame, OwnBodyFrame
  <1> QED BY <1>1, <1>2, <1>3, <1>4

LEMMA GwReplyInv == ASSUME IInv, NEW r \in Requests, GwReply(r) PROVE IInv'
  <1> USE DEF IInv, GwReply, swVars, pageVars
  <1>0. PICK l \in Lengths, fits \in BOOLEAN :
           resp' = [resp EXCEPT ![r] =
                      [length |-> l, chunks |-> ChunkCount(l), fits |-> fits]]
      OBVIOUS
  <1> DEFINE new == [length |-> l, chunks |-> ChunkCount(l), fits |-> fits]
  <1>1. /\ new \in Responses
        /\ new # None
        /\ new.chunks \in Nat
    <2>1. ChunkCount(l) \in Sizes /\ ChunkCount(l) \in Nat
        BY SizesAreNat DEF Sizes
    <2> QED BY <2>1, NoneAssumption
  <1>2. \A q \in Requests : /\ resp'[q] = IF q = r THEN new ELSE resp[q]
                            /\ gw'[q] = IF q = r THEN "sending" ELSE gw[q]
      BY <1>0 DEF TypeOK
  <1>3. resp[r] = None /\ asm[r] = None /\ r \in bridged
      BY DEF Stage
  <1>4. TypeOK'
      BY <1>0, <1>1 DEF TypeOK
  <1>5. Queues' /\ NeverSilent'
      BY <1>2 DEF Queues, NeverSilent, Settled, TypeOK
  <1>6. sent[r] = 0
      BY <1>3 DEF Stage
  <1>7. \A q \in Requests \ {r} : /\ FrameCount(q)' = FrameCount(q)
                                  /\ Whole(q)' = Whole(q)
                                  /\ \A k : FrameAt(q, k)' = FrameAt(q, k)
                                  /\ \A k : Consumed(q, k)' = Consumed(q, k)
      BY <1>2 DEF FrameCount, Whole, Pieces, FrameAt, Consumed
  <1>8. ASSUME NEW q \in Requests PROVE Stage(q)' /\ Assembly(q)' /\ Posted(q)'
    <2>1. Stage(q)'
        BY <1>1, <1>2, <1>3, <1>6, <1>7 DEF Stage, FrameCount
    <2>2. Assembly(q)'
        BY <1>2, <1>3, <1>6, <1>7 DEF Assembly, Before, Pieces
    <2>3. Posted(q)'
        BY <1>2, <1>3, <1>7 DEF Posted
    <2> QED BY <2>1, <2>2, <2>3
  <1>9. \A i \in DOMAIN dcDown : dcDown[i].id \in Requests \ {r}
    <2>1. \A i \in DOMAIN dcDown : dcDown[i] \in Frames
        BY DEF TypeOK
    <2>2. \A i \in DOMAIN dcDown : resp[dcDown[i].id] # None
        BY DEF Wire, FrameOK
    <2> QED BY <1>3, <2>1, <2>2 DEF Frames
  <1>10. \A i \in DOMAIN dcDown : Index(dcDown[i])' = Index(dcDown[i])
      BY <1>2, <1>9 DEF Index
  <1>11. Wire'
      BY <1>2, <1>7, <1>9, <1>10 DEF Wire, FrameOK, Before
  <1>12. OwnBody'
      BY <1>2, <1>3, <1>7 DEF OwnBody
  <1> QED BY <1>4, <1>5, <1>8, <1>11, <1>12

\* Appending the next frame of r to the channel, or losing it.
LEMMA GwSendInv == ASSUME IInv, NEW r \in Requests, GwSend(r) PROVE IInv'
  <1> USE DEF IInv, GwSend, swVars, pageVars
  <1>a. PICK k \in Nat : k = sent[r]
      BY DEF TypeOK
  <1>0. /\ resp[r] # None /\ resp[r].chunks \in Nat /\ resp[r].fits \in BOOLEAN
        /\ k < FrameCount(r)
        /\ sent' = [sent EXCEPT ![r] = k + 1]
      BY <1>a, SizesAreNat DEF Stage, TypeOK
  <1>b. PICK f \in Frames : f = FrameAt(r, k)
    <2>1. \/ FrameAt(r, k) = Frame("response", r, 0)
          \/ FrameAt(r, k) = Frame("start", r, resp[r].chunks)
          \/ k - 1 \in Nat /\ FrameAt(r, k) = Frame("chunk", r, k - 1)
          \/ FrameAt(r, k) = Frame("end", r, 0)
        BY <1>0 DEF FrameAt
    <2>2. \A kind \in {"response", "start", "chunk", "end"}, n \in Nat :
             Frame(kind, r, n) \in Frames
        BY DEF Frame, Frames
    <2>3. FrameAt(r, k) \in Frames
        BY <1>0, <2>1, <2>2
    <2> QED BY <2>3
  <1>1. f.id = r /\ Index(f) = k
      BY <1>0, <1>b DEF FrameAt, Frame, Frames, Index, FrameCount
  <1>2. \A q \in Requests : /\ sent'[q] = IF q = r THEN k + 1 ELSE sent[q]
                            /\ gw'[q] # gw[q] => q = r /\ gw'[q] = "done"
      BY <1>0 DEF TypeOK
  <1>3. k + 1 = FrameCount(r) <=> gw'[r] = "done"
      BY <1>0 DEF TypeOK
  <1>c. PICK N \in Nat : N = Len(dcDown)
      BY DEF TypeOK
  <1>4. dcDown \in Seq(Frames) /\ DOMAIN dcDown = 1 .. N
      BY <1>c DEF TypeOK
  <1>5. \/ /\ dcDown' = dcDown
           /\ gwDc = "open" /\ pageDc = "open" => k = 0 /\ ~resp[r].fits
        \/ /\ dcDown' = Append(dcDown, f)
           /\ gwDc = "open" /\ pageDc = "open" /\ (k = 0 => resp[r].fits)
      BY <1>0, <1>a, <1>b DEF SendDC, Deliver
  <1>6. /\ dcDown' \in Seq(Frames)
        /\ DOMAIN dcDown' \in {1 .. N, 1 .. N + 1}
        /\ Len(dcDown') \in {N, N + 1}
        /\ \A i \in 1 .. N : dcDown'[i] = dcDown[i]
        /\ N + 1 \in DOMAIN dcDown' => dcDown'[N + 1] = f
    <2>1. CASE dcDown' = dcDown
        BY <1>4, <1>c, <2>1
    <2>2. CASE dcDown' = Append(dcDown, f)
        BY <1>4, <1>c, <2>2
    <2> QED BY <1>5, <2>1, <2>2
  <1>d. dcDown' = Append(dcDown, f) => N + 1 = Len(dcDown') /\ dcDown'[N + 1] = f
      BY <1>4, <1>c
  <1>7. TypeOK'
      BY SMTT(20), <1>0, <1>2, <1>6 DEF TypeOK
  <1>8. Queues' /\ NeverSilent' /\ OwnBody'
      BY OwnBodyFrame DEF Queues, NeverSilent, Settled, TypeOK
  <1>9. /\ \A q \in Requests : FrameCount(q)' = FrameCount(q)
        /\ \A q, j : FrameAt(q, j)' = FrameAt(q, j)
        /\ \A g : Index(g)' = Index(g)
        /\ \A q, j : Consumed(q, j)' = Consumed(q, j)
      BY DEF FrameCount, FrameAt, Index, Consumed
  <1>10. \A q \in Requests : Stage(q)'
    <2> SUFFICES ASSUME NEW q \in Requests PROVE Stage(q)'
        OBVIOUS
    <2>1. CASE q # r
        BY <1>2, <1>9, <2>1 DEF Stage
    <2>2. FrameCount(r) \in Nat /\ gw'[r] \in {"sending", "done"}
        BY <1>0 DEF FrameCount, TypeOK
    <2>3. CASE q = r
        BY <1>0, <1>2, <1>3, <1>9, <2>2, <2>3 DEF Stage
    <2> QED BY <2>1, <2>3
  <1>11. \A q \in Requests, j \in Nat, i \in 1 .. N + 1 :
            Before(q, j, i) => Before(q, j, i)'
      BY <1>4, <1>6, <1>9 DEF Before
  <1>12. k > 0 /\ gwDc = "open" /\ pageDc = "open" /\ resp[r].fits
            => Before(r, k - 1, N + 1)
      BY <1>0, <1>a, <1>c DEF Assembly
  <1>13. ASSUME NEW q \in Requests PROVE Assembly(q)' /\ Posted(q)'
    <2>1. Posted(q)'
        BY PostedFrame
    <2>2. /\ asm'[q] # None =>
               /\ resp'[q].fits
               /\ \E m \in 0 .. resp'[q].chunks : asm'[q].parts = Pieces(q, m)
        /\ \A m : Pieces(q, m)' = Pieces(q, m)
        BY DEF Assembly, Pieces
    <2>a. PICK s \in Nat : s = sent'[q]
        BY <1>7 DEF TypeOK
    <2> SUFFICES ASSUME gwDc' = "open", pageDc' = "open", gw'[q] = "sending",
                        resp'[q].fits, s > 0
                 PROVE  Before(q, s - 1, Len(dcDown) + 1)'
        BY <2>1, <2>2, <2>a DEF Assembly
    <2>b. Len(dcDown') \in {N, N + 1}
        BY <1>6
    <2>3. CASE q = r
      <3>1. dcDown' = Append(dcDown, f) /\ s = k + 1
          BY <1>2, <1>5, <2>3, <2>a
      <3>2. Len(dcDown') = N + 1 /\ dcDown'[N + 1] = FrameAt(q, k)'
          BY <1>9, <1>b, <1>d, <2>3, <3>1
      <3> QED BY <3>1, <3>2 DEF Before
    <2>4. CASE q # r
      <3>1. gw[q] = "sending" /\ s = sent[q] /\ resp' = resp
          BY <1>2, <2>4, <2>a DEF TypeOK
      <3>2. Before(q, s - 1, N + 1)
          BY <1>c, <3>1 DEF Assembly
      <3>3. Before(q, s - 1, N + 1)'
          BY <1>11, <3>2
      <3> QED BY <2>b, <3>3 DEF Before
    <2> QED BY <2>3, <2>4
  <1>14. ASSUME NEW g \in Frames, NEW i \in 1 .. N, g = dcDown[i]
         PROVE  /\ FrameOK(g, i)
                /\ Index(g) \in Int
                /\ g.id \in Requests
                /\ FrameOK(g, i)'
    <2>1. i \in Nat /\ resp' = resp /\ g.id \in Requests /\ g.n \in Nat
        BY DEF Frames
    <2>b. FrameOK(g, i)
        BY <1>4, <1>14 DEF Wire
    <2>c. resp[g.id].chunks \in Nat
        BY <2>1, <2>b, SizesAreNat DEF FrameOK, TypeOK
    <2>2. Index(g) \in Int /\ (Index(g) > 0 => Index(g) - 1 \in Nat)
      <3>1. Index(g) = g.n + 1 \/ Index(g) = resp[g.id].chunks + 1 \/ Index(g) = 0
          BY DEF Index
      <3> QED BY <2>1, <2>c, <3>1
    <2>3. sent'[g.id] \in Nat /\ sent'[g.id] >= sent[g.id] /\ sent \in [Requests -> Nat]
        BY <1>0, <1>2, <1>a, <2>1 DEF TypeOK
    <2>4. Index(g) > 0 /\ Before(g.id, Index(g) - 1, i) => Before(g.id, Index(g) - 1, i)'
      <3> SUFFICES ASSUME Index(g) > 0, Before(g.id, Index(g) - 1, i)
                   PROVE  Before(g.id, Index(g) - 1, i)'
          OBVIOUS
      <3>1. PICK m \in Nat : m = Index(g) - 1
          BY <2>2
      <3>2. Before(g.id, m, i)'
          BY <1>11, <2>1, <3>1
      <3>3. m = Index(g)' - 1
          BY <1>9, <3>1
      <3> QED BY <3>2, <3>3 DEF Before
    <2>5. g.kind = "start" => asm'[g.id] = None
        BY <2>b DEF FrameOK
    <2>6. FrameOK(g, i)'
        BY <2>1, <2>b, <2>2, <2>3, <2>4, <2>5, FrameOKStep
    <2> QED BY <2>1, <2>b, <2>2, <2>6
  <1>15. ASSUME NEW i \in DOMAIN dcDown' PROVE FrameOK(dcDown[i], i)'
    <2>a. PICK g \in Frames : g = dcDown'[i]
        BY <1>6
    <2>1. CASE i \in 1 .. N
        BY <1>6, <1>14, <2>1, <2>a
    <2>2. CASE i = N + 1
      <3>1. g = f /\ gwDc = "open" /\ pageDc = "open" /\ (k = 0 => resp[r].fits)
          BY <1>4, <1>5, <1>6, <2>2, <2>a
      <3>2. k > 0 /\ resp[r].fits => Before(r, k - 1, i)'
          BY <1>11, <1>12, <2>2, <3>1
      <3>3. f.kind = "start" => asm'[r] = None
          BY <1>0, <1>a, <1>b DEF Stage, FrameAt, Frame
      <3>4. Index(f)' = k /\ f = FrameAt(r, k)' /\ k < sent'[r]
          BY <1>1, <1>2, <1>9, <1>b
      <3>5. FrameOK(f, i)'
          BY <1>0, <1>1, <3>1, <3>2, <3>3, <3>4 DEF FrameOK
      <3> QED BY <2>a, <3>1, <3>5
    <2> QED BY <1>6, <2>1, <2>2
  <1>16. ASSUME NEW i \in DOMAIN dcDown', NEW j \in DOMAIN dcDown',
                i < j, dcDown'[i].id = dcDown'[j].id
         PROVE  Index(dcDown[i])' < Index(dcDown[j])'
    <2>a. PICK g \in Frames, h \in Frames : g = dcDown'[i] /\ h = dcDown'[j]
        BY <1>6
    <2>1. i \in 1 .. N /\ g = dcDown[i]
        BY <1>4, <1>6, <1>16, <2>a
    <2>2. CASE j \in 1 .. N
      <3>1. h = dcDown[j]
          BY <1>6, <2>2, <2>a
      <3>2. Index(g) < Index(h)
          BY <1>4, <1>16, <2>1, <2>2, <2>a, <3>1 DEF Wire
      <3> QED BY <1>9, <2>a, <3>2
    <2>3. CASE j = N + 1
      <3>1. h = f /\ g.id = r
          BY <1>1, <1>6, <1>16, <2>3, <2>a
      <3>2. Index(g) < k
          BY <1>14, <1>a, <2>1, <3>1 DEF FrameOK
      <3> QED BY <1>1, <1>9, <2>a, <3>1, <3>2
    <2> QED BY <1>6, <2>2, <2>3
  <1>17. Wire'
    <2>1. pageDc' = "closed" => dcDown' = <<>>
        BY <1>5 DEF Wire
    <2> QED BY <1>15, <1>16, <2>1 DEF Wire
  <1> QED BY <1>7, <1>8, <1>10, <1>13, <1>17

-----------------------------------------------------------------------------
(***************************************************************************)
(* The frame at the head of the channel.                                   *)
(***************************************************************************)
LEMMA FrameShape ==
    ASSUME NEW f \in Frames, resp[f.id].chunks \in Nat, f = FrameAt(f.id, Index(f)),
           Index(f) \in Nat
    PROVE  /\ f.kind = "start" => Index(f) = 0 /\ resp[f.id].chunks > 0
           /\ f.kind = "chunk" => /\ Index(f) = f.n + 1
                                  /\ Index(f) \in 1 .. resp[f.id].chunks
           /\ f.kind = "end" => /\ Index(f) = resp[f.id].chunks + 1
                                /\ resp[f.id].chunks > 0
                                /\ FrameCount(f.id) = Index(f) + 1
           /\ f.kind = "response" => /\ Index(f) = 0 /\ resp[f.id].chunks = 0 /\ f.n = 0
                                     /\ FrameCount(f.id) = 1
  BY DEF FrameAt, Frame, Frames, Index, FrameCount

\* A frame of the middle of a response tells its place.
LEMMA FramePlace ==
    ASSUME NEW f \in Frames, NEW q \in Requests, NEW j \in Nat, f = FrameAt(q, j)
    PROVE  /\ f.id = q
           /\ f.kind = "start" => j = 0
           /\ f.kind = "chunk" => j = f.n + 1
  BY DEF FrameAt, Frame, Frames

LEMMA PieceStep ==
    ASSUME NEW r, NEW n \in Nat, NEW m \in Nat, n = 0 \/ <<r, n - 1>> \in Pieces(r, m)
    PROVE  \/ m = n /\ Pieces(r, m) \cup {<<r, n>>} = Pieces(r, n + 1)
           \/ m > n /\ Pieces(r, m) \cup {<<r, n>>} = Pieces(r, m)
  <1>1. m >= n
      BY DEF Pieces
  <1>2. CASE m = n
      BY <1>2 DEF Pieces
  <1>3. CASE m > n
      BY <1>3 DEF Pieces
  <1> QED BY <1>1, <1>2, <1>3

LEMMA HeadFacts ==
    ASSUME IInv, dcDown # <<>>, NEW f \in Frames, f = Head(dcDown)
    PROVE  /\ f = dcDown[1] /\ 1 \in DOMAIN dcDown
           /\ f.id \in Requests /\ f.n \in Nat
           /\ resp[f.id] # None /\ resp[f.id].chunks \in Nat /\ resp[f.id].fits \in BOOLEAN
           /\ f = FrameAt(f.id, Index(f)) /\ Index(f) \in Nat /\ Index(f) < sent[f.id]
           /\ resp[f.id].fits \/ Index(f) > 0
           /\ resp[f.id].fits /\ Index(f) > 0 => Consumed(f.id, Index(f) - 1)
           /\ f.kind = "start" => asm[f.id] = None
           /\ f.kind \in {"end", "response"} =>
                 /\ sent[f.id] = FrameCount(f.id)
                 /\ \A i \in DOMAIN dcDown : i > 1 => dcDown[i].id # f.id
  <1> USE DEF IInv
  <1>1. f = dcDown[1] /\ 1 \in DOMAIN dcDown /\ f.id \in Requests /\ f.n \in Nat
    <2>1. dcDown \in Seq(Frames)
        BY DEF TypeOK
    <2> HIDE DEF IInv
    <2> QED BY <2>1 DEF Frames
  <1>2. FrameOK(f, 1)
      BY <1>1 DEF Wire
  <1>3. resp[f.id] # None /\ resp[f.id].chunks \in Nat /\ resp[f.id].fits \in BOOLEAN
    <2>1. resp[f.id] # None
        BY <1>2 DEF FrameOK
    <2>2. resp[f.id] \in Responses
        BY <1>1, <2>1 DEF TypeOK
    <2> HIDE DEF IInv
    <2> QED BY <2>1, <2>2, SizesAreNat
  <1>4. Index(f) \in Nat /\ sent[f.id] \in Nat
    <2>1. sent[f.id] \in Nat
        BY <1>1 DEF TypeOK
    <2> HIDE DEF IInv
    <2> QED BY <1>1, <1>3, <2>1 DEF Index
  <1>5. resp[f.id].fits /\ Index(f) > 0 => Consumed(f.id, Index(f) - 1)
      BY <1>2 DEF FrameOK, Before
  <1>6. ASSUME f.kind \in {"end", "response"}
        PROVE  /\ sent[f.id] = FrameCount(f.id)
               /\ \A i \in DOMAIN dcDown : i > 1 => dcDown[i].id # f.id
    <2>1. FrameCount(f.id) = Index(f) + 1 /\ Index(f) < sent[f.id]
        BY <1>2, <1>3, <1>4, <1>6, FrameShape DEF FrameOK
    <2>2. sent[f.id] <= FrameCount(f.id)
        BY <1>1, <1>3 DEF Stage
    <2>3. sent[f.id] = FrameCount(f.id)
        BY <1>4, <2>1, <2>2
    <2>4. ASSUME NEW i \in DOMAIN dcDown, i > 1, dcDown[i].id = f.id PROVE FALSE
      <3>1. PICK g \in Frames : g = dcDown[i]
          BY DEF TypeOK
      <3>2. Index(f) < Index(g) /\ Index(g) < sent[f.id]
          BY <1>1, <2>4, <3>1 DEF Wire, FrameOK
      <3>3. Index(g) \in Nat
          BY <1>3, <2>4, <3>1 DEF Index, Frames
      <3> QED BY <1>4, <2>1, <2>3, <3>2, <3>3
    <2> QED BY <2>3, <2>4
  <1> QED BY <1>1, <1>2, <1>3, <1>4, <1>5, <1>6 DEF FrameOK

\* What the page does with the frame, whatever its kind.
PageTakes(f) ==
    /\ dcDown # <<>> /\ f = Head(dcDown)
    /\ dcDown' = Tail(dcDown)
    /\ PageStart(f) \/ PageChunk(f) \/ PageEnd(f) \/ PageSingle(f)
    /\ UNCHANGED <<swVars, page, pageDc, bridged, gwVars, toPage, dcUp>>

\* The entry of ent.chunked after the frame.
LEMMA TakesAsm ==
    ASSUME IInv, NEW f \in Frames, PageTakes(f)
    PROVE  /\ \A q \in Requests : q # f.id => asm'[q] = asm[q]
           /\ asm'[f.id] # None =>
                 /\ resp[f.id].fits
                 /\ \E m \in 0 .. resp[f.id].chunks : asm'[f.id].parts = Pieces(f.id, m)
           /\ f.kind \in {"start", "chunk"} =>
                 /\ resp[f.id].fits => Consumed(f.id, Index(f))'
                 /\ \A j \in Nat : Consumed(f.id, j) => Consumed(f.id, j)'
           /\ asm' \in [Requests -> {None} \cup
                           [port : BOOLEAN, parts : SUBSET (Requests \X Nat)]]
           /\ asm'[f.id] # None /\ ~asm'[f.id].port => f.id \notin inflight'
           /\ inflight' = inflight \/ inflight' = inflight \ {f.id}
  <1> USE DEF IInv, PageTakes, swVars, gwVars
  <1> DEFINE r == f.id
  <1>0. /\ r \in Requests /\ f.n \in Nat /\ resp[r] # None
        /\ resp[r].chunks \in Nat /\ resp[r].fits \in BOOLEAN
        /\ f = FrameAt(r, Index(f)) /\ Index(f) \in Nat
        /\ resp[r].fits \/ Index(f) > 0
        /\ resp[r].fits /\ Index(f) > 0 => Consumed(r, Index(f) - 1)
        /\ f.kind = "start" => asm[r] = None
      BY HeadFacts
  <1>1. /\ asm \in [Requests -> {None} \cup
                      [port : BOOLEAN, parts : SUBSET (Requests \X Nat)]]
        /\ inflight \subseteq Requests
      BY DEF TypeOK
  <1>2. CASE PageStart(f)
    <2>1. /\ f.kind = "start" /\ inflight' = inflight
          /\ asm' = [asm EXCEPT ![r] = [port |-> r \in inflight, parts |-> {}]]
          /\ Index(f) = 0 /\ Index(f)' = 0
        BY <1>0, <1>2, FrameShape DEF PageStart, OpenAsm, Index
    <2>2. PICK c \in [port : BOOLEAN, parts : SUBSET (Requests \X Nat)] :
             /\ c.parts = {} /\ (~c.port => r \notin inflight)
             /\ asm' = [asm EXCEPT ![r] = c]
      <3>1. CASE r \in inflight
        <4>1. asm' = [asm EXCEPT ![r] = [port |-> TRUE, parts |-> {}]]
            BY <2>1, <3>1
        <4> QED BY <4>1
      <3>2. CASE r \notin inflight
        <4>0. (r \in inflight) = FALSE
            BY <3>2
        <4>1. asm' = [asm EXCEPT ![r] = [port |-> FALSE, parts |-> {}]]
            BY <2>1, <4>0, Zenon
        <4>2. [port |-> FALSE, parts |-> {}] \in [port : BOOLEAN, parts : SUBSET (Requests \X Nat)]
            OBVIOUS
        <4> QED BY <3>2, <4>1, <4>2
      <3> QED BY <3>1, <3>2
    <2>3. c # None
        BY NoneAssumption
    <2>4. asm'[r] = c /\ c.parts = Pieces(r, 0)
        BY <1>0, <1>1, <2>2 DEF Pieces
    <2>5. \A j \in Nat : ~Consumed(r, j)
        BY <1>0, <2>1 DEF Consumed
    <2>6. resp[r].fits
        BY <1>0, <2>1
    <2>7. Consumed(r, Index(f))'
        BY <2>1, <2>3, <2>4 DEF Consumed
    <2>8. asm' \in [Requests -> {None} \cup
                       [port : BOOLEAN, parts : SUBSET (Requests \X Nat)]]
        BY <1>1, <2>2
    <2>9. \A q \in Requests : q # r => asm'[q] = asm[q]
        BY <1>1, <2>2
    <2>10. \E m \in 0 .. resp[r].chunks : asm'[r].parts = Pieces(r, m)
        BY <1>0, <2>4
    <2> QED BY <2>1, <2>2, <2>4, <2>5, <2>6, <2>7, <2>8, <2>9, <2>10
  <1>3. CASE PageChunk(f)
    <2>1. f.kind = "chunk" /\ inflight' = inflight /\ Index(f)' = Index(f)
        BY <1>3 DEF PageChunk, Index
    <2>2. Index(f) = f.n + 1 /\ f.n < resp[r].chunks /\ Piece(f) = <<r, f.n>>
        BY <1>0, <2>1, FrameShape DEF Piece
    <2>3. CASE asm[r] = None
      <3>1. asm' = asm
          BY <1>3, <2>3 DEF PageChunk
      <3>2. ~resp[r].fits
          BY <1>0, <2>2, <2>3 DEF Consumed
      <3> QED BY <1>0, <1>1, <2>1, <2>3, <3>1, <3>2 DEF Consumed
    <2>4. CASE asm[r] # None
      <3> DEFINE c == [asm[r] EXCEPT !.parts = asm[r].parts \cup {<<r, f.n>>}]
      <3>1. asm' = [asm EXCEPT ![r] = c]
          BY <1>3, <2>2, <2>4 DEF PageChunk, AddPart
      <3>2. /\ asm[r] \in [port : BOOLEAN, parts : SUBSET (Requests \X Nat)]
            /\ c \in [port : BOOLEAN, parts : SUBSET (Requests \X Nat)]
            /\ c # None /\ c.port = asm[r].port
            /\ c.parts = asm[r].parts \cup {<<r, f.n>>}
          BY <1>0, <1>1, <2>4, NoneAssumption
      <3>3. asm'[r] = c /\ \A q \in Requests : q # r => asm'[q] = asm[q]
          BY <1>0, <1>1, <3>1
      <3>4. resp[r].fits /\ Consumed(r, f.n)
          BY <1>0, <2>2, <2>4 DEF Assembly
      <3>5. PICK m \in 0 .. resp[r].chunks : asm[r].parts = Pieces(r, m)
          BY <1>0, <2>4 DEF Assembly
      <3>6. f.n = 0 \/ <<r, f.n - 1>> \in Pieces(r, m)
          BY <3>4, <3>5 DEF Consumed
      <3>7. \E l \in 0 .. resp[r].chunks : c.parts = Pieces(r, l)
        <4>0. m \in Nat /\ f.n \in Nat /\ c.parts = Pieces(r, m) \cup {<<r, f.n>>}
            BY <1>0, <3>2, <3>5
        <4>1. \/ m = f.n /\ c.parts = Pieces(r, f.n + 1)
              \/ c.parts = Pieces(r, m)
          <5> HIDE DEF c, r
          <5> QED BY <3>6, <4>0, PieceStep
        <4>2. f.n + 1 \in 0 .. resp[r].chunks
            BY <1>0, <2>2
        <4>3. m \in 0 .. resp[r].chunks
            OBVIOUS
        <4> HIDE DEF c
        <4> QED BY <3>5, <4>1, <4>2
      <3>8. \A j \in Nat : \/ j = 0
                           \/ <<r, j - 1>> \in asm[r].parts
                           \/ j = f.n + 1
                           => Consumed(r, j)'
        <4>1. asm'[r] # None /\ asm'[r].parts = asm[r].parts \cup {<<r, f.n>>}
            BY <3>2, <3>3
        <4>2. ASSUME NEW j \in Nat, j = f.n + 1 PROVE <<r, j - 1>> \in asm'[r].parts
          <5>1. f.n \in Nat
              BY <1>0
          <5>2. j - 1 = f.n
              BY <4>2, <5>1
          <5> HIDE DEF r
          <5> QED BY <4>1, <5>2
        <4> HIDE DEF r, c
        <4> QED BY <4>1, <4>2 DEF Consumed
      <3>9. PICK k \in Nat : k = Index(f)
          BY <1>0
      <3>10. Consumed(r, k)' /\ k = Index(f)'
          BY <2>1, <2>2, <3>8, <3>9
      <3>11. Consumed(r, Index(f))'
          BY <3>10 DEF Consumed
      <3>12. \A j \in Nat : Consumed(r, j) => Consumed(r, j)'
          BY <3>8 DEF Consumed
      <3>13. asm[r].port \/ r \notin inflight
          BY <1>0, <2>4 DEF Stage
      <3>14. asm' \in [Requests -> {None} \cup
                          [port : BOOLEAN, parts : SUBSET (Requests \X Nat)]]
          BY <1>1, <3>1, <3>2
      <3> HIDE DEF c
      <3> QED BY <2>1, <3>2, <3>3, <3>4, <3>7, <3>11, <3>12, <3>13, <3>14
    <2> QED BY <2>3, <2>4
  <1>4. CASE PageEnd(f)
    <2>1. /\ f.kind = "end"
          /\ \/ asm' = asm /\ asm[r] = None
             \/ asm' = [asm EXCEPT ![r] = None]
        BY <1>4 DEF PageEnd
    <2>2. asm'[r] = None /\ \A q \in Requests : q # r => asm'[q] = asm[q]
        BY <1>0, <1>1, <2>1
    <2>3. inflight' = inflight \/ inflight' = inflight \ {r}
        BY <1>4 DEF PageEnd
    <2> QED BY <1>1, <2>1, <2>2, <2>3
  <1>5. CASE PageSingle(f)
    <2>1. f.kind = "response" /\ asm' = asm
        BY <1>5 DEF PageSingle
    <2>2. inflight' = inflight \/ inflight' = inflight \ {r}
        BY <1>5 DEF PageSingle
    <2> QED BY <1>0, <1>1, <2>1, <2>2 DEF Assembly, Stage
  <1> QED BY <1>2, <1>3, <1>4, <1>5

\* What the frame makes the page post.
LEMMA TakesPort ==
    ASSUME IInv, NEW f \in Frames, PageTakes(f)
    PROVE  /\ port' \in [Requests -> Seq(Messages)]
           /\ \A q \in Requests : Posted(q)'
           /\ \A q \in Requests : port[q] # <<>> => port'[q] # <<>>
           /\ f.id \in inflight => \/ f.id \in inflight'
                                   \/ port'[f.id] # <<>>
                                   \/ Settled(f.id)
  <1> USE DEF IInv, PageTakes, swVars, gwVars
  <1> DEFINE r == f.id
  <1>0. /\ r \in Requests /\ f.n \in Nat /\ resp[r] # None
        /\ resp[r].chunks \in Nat /\ resp[r].fits \in BOOLEAN
        /\ f = FrameAt(r, Index(f)) /\ Index(f) \in Nat
        /\ resp[r].fits /\ Index(f) > 0 => Consumed(r, Index(f) - 1)
      BY HeadFacts
  <1>1. port \in [Requests -> Seq(Messages)] /\ resp' = resp
      BY DEF TypeOK
  <1>2. CASE port' = port /\ (r \in inflight => r \in inflight')
      BY <1>1, <1>2, PostedFrame
  <1>3. ASSUME NEW parts \in SUBSET (Requests \X Nat), parts = Whole(r),
               Post(r, [kind |-> "response", parts |-> parts])
        PROVE  /\ port' \in [Requests -> Seq(Messages)]
               /\ \A q \in Requests : Posted(q)'
               /\ \A q \in Requests : port[q] # <<>> => port'[q] # <<>>
               /\ port'[r] # <<>> \/ Settled(r)
    <2>1. PICK msg \in Messages : msg = [kind |-> "response", parts |-> parts]
        BY DEF Messages
    <2>2. Post(r, msg)
        BY <1>3, <2>1
    <2>3. /\ port' \in [Requests -> Seq(Messages)]
          /\ \A q \in Requests : port[q] # <<>> => port'[q] # <<>>
          /\ port'[r] # <<>> \/ Settled(r)
          /\ \A q \in Requests : \A i \in DOMAIN port'[q] :
                \/ i \in DOMAIN port[q] /\ port'[q][i] = port[q][i]
                \/ q = r /\ port'[q][i] = msg
        BY <1>0, <2>2, PostInv
    <2>4. \A q \in Requests : Whole(q)' = Whole(q)
        BY <1>1 DEF Whole, Pieces
    <2>5. \A q \in Requests : Posted(q)'
      <3> SUFFICES ASSUME NEW q \in Requests, NEW i \in DOMAIN port'[q],
                          port'[q][i].kind = "response"
                   PROVE  resp'[q] # None /\ port'[q][i].parts = Whole(q)
          BY <2>4 DEF Posted
      <3>1. CASE i \in DOMAIN port[q] /\ port'[q][i] = port[q][i]
          BY <1>1, <3>1 DEF Posted
      <3>2. CASE q = r /\ port'[q][i] = msg
          BY <1>0, <1>1, <1>3, <2>1, <3>2
      <3> QED BY <2>3, <3>1, <3>2
    <2> QED BY <2>3, <2>5
  <1>4. CASE PageStart(f) \/ PageChunk(f)
    <2>1. port' = port /\ inflight' = inflight
        BY <1>4 DEF PageStart, PageChunk
    <2> QED BY <1>2, <2>1
  <1>5. CASE PageEnd(f)
    <2>1. f.kind = "end"
        BY <1>5 DEF PageEnd
    <2>2. CASE asm[r] = None
      <3>1. port' = port /\ inflight' = inflight
          BY <1>5, <2>2 DEF PageEnd
      <3> QED BY <1>2, <3>1
    <2>3. CASE asm[r] # None /\ ~asm[r].port
      <3>1. port' = port /\ r \notin inflight
          BY <1>0, <1>5, <2>3 DEF PageEnd, Stage
      <3> QED BY <1>2, <3>1
    <2>4. CASE asm[r] # None /\ asm[r].port
      <3>1. Post(r, [kind |-> "response", parts |-> asm[r].parts])
          BY <1>5, <2>4 DEF PageEnd
      <3>2. asm[r].parts \in SUBSET (Requests \X Nat)
          BY <1>0, <2>4 DEF TypeOK
      <3>3. resp[r].chunks > 0 /\ Index(f) = resp[r].chunks + 1
          BY <1>0, <2>1, FrameShape
      <3>4. PICK m \in 0 .. resp[r].chunks : asm[r].parts = Pieces(r, m)
          BY <1>0, <2>4 DEF Assembly
      <3>5. resp[r].fits
          BY <1>0, <2>4 DEF Assembly
      <3>6. <<r, resp[r].chunks - 1>> \in Pieces(r, m)
        <4>1. Consumed(r, Index(f) - 1) /\ Index(f) - 1 = resp[r].chunks
            BY <1>0, <3>3, <3>5
        <4>2. Consumed(r, resp[r].chunks)
            BY <4>1
        <4> QED BY <3>3, <3>4, <4>2 DEF Consumed
      <3>7. m = resp[r].chunks
          BY <1>0, <3>6 DEF Pieces
      <3>8. asm[r].parts = Whole(r)
          BY <3>3, <3>4, <3>7 DEF Whole
      <3> QED BY <1>3, <3>1, <3>2, <3>8
    <2> QED BY <2>2, <2>3, <2>4
  <1>6. CASE PageSingle(f)
    <2>1. f.kind = "response"
        BY <1>6 DEF PageSingle
    <2>2. CASE r \notin inflight
      <3>1. port' = port
          BY <1>6, <2>2 DEF PageSingle
      <3> QED BY <1>2, <2>2, <3>1
    <2>3. CASE r \in inflight
      <3>1. Post(r, [kind |-> "response", parts |-> {Piece(f)}])
          BY <1>6, <2>3 DEF PageSingle
      <3>2. {Piece(f)} = Whole(r) /\ {Piece(f)} \in SUBSET (Requests \X Nat)
          BY <1>0, <2>1, FrameShape DEF Whole, Piece
      <3> QED BY <1>3, <3>1, <3>2
    <2> QED BY <2>2, <2>3
  <1> QED BY <1>4, <1>5, <1>6

LEMMA PageFrameInv == ASSUME IInv, PageFrame PROVE IInv'
  <1> USE DEF IInv
  <1>a. PICK f \in Frames : f = Head(dcDown)
      BY DEF PageFrame, TypeOK
  <1>b. PageTakes(f)
      BY <1>a DEF PageFrame, PageTakes
  <1> USE DEF swVars, gwVars
  <1>c. PICK N \in Nat : N = Len(dcDown)
      BY DEF TypeOK
  <1>d. /\ UNCHANGED <<sw, body, page, pageDc, bridged, gwDc, gw, resp, sent, toPage, dcUp>>
        /\ dcDown # <<>> /\ dcDown' = Tail(dcDown) /\ pageDc = "open"
      BY DEF PageFrame
  <1>0. /\ f = dcDown[1] /\ f.id \in Requests /\ resp[f.id].chunks \in Nat
        /\ f = FrameAt(f.id, Index(f)) /\ Index(f) \in Nat /\ Index(f) < sent[f.id]
        /\ resp[f.id] # None
        /\ f.kind \in {"end", "response"} =>
              /\ sent[f.id] = FrameCount(f.id)
              /\ \A i \in DOMAIN dcDown : i > 1 => dcDown[i].id # f.id
      BY <1>a, <1>d, HeadFacts
  <1>1. /\ dcDown \in Seq(Frames) /\ DOMAIN dcDown = 1 .. N /\ N >= 1
        /\ dcDown' \in Seq(Frames) /\ DOMAIN dcDown' = 1 .. N - 1 /\ Len(dcDown') = N - 1
        /\ \A i \in 1 .. N - 1 : dcDown'[i] = dcDown[i + 1]
      BY <1>c, <1>d DEF TypeOK
  <1>2. inflight' = inflight \/ inflight' = inflight \ {f.id}
      BY <1>b, TakesAsm
  <1>3. TypeOK'
      BY <1>1, <1>2, <1>b, <1>d, TakesAsm, TakesPort DEF TypeOK
  <1>4. Queues' /\ OwnBody'
      BY <1>d, OwnBodyFrame DEF Queues
  <1>5. NeverSilent'
    <2>1. /\ \A q \in Requests : port[q] # <<>> => port'[q] # <<>>
          /\ f.id \in inflight => f.id \in inflight' \/ port'[f.id] # <<>> \/ Settled(f.id)
        BY <1>b, TakesPort
    <2>2. page' = page /\ bridged' = bridged /\ bridged \subseteq Requests
          /\ \A q \in Requests : Settled(q)' = Settled(q)
        BY <1>d DEF Settled, TypeOK
    <2>3. page = "up" => \A q \in bridged : q \in inflight \/ port[q] # <<>> \/ Settled(q)
        BY DEF NeverSilent
    <2> HIDE DEF IInv
    <2> QED BY <1>2, <2>1, <2>2, <2>3 DEF NeverSilent
  <1>6. ASSUME NEW q \in Requests PROVE Stage(q)'
    <2>1. FrameCount(q)' = FrameCount(q)
        BY <1>d DEF FrameCount
    <2>2. sent[f.id] > 0
        BY <1>0, <1>d DEF TypeOK
    <2>3. asm'[q] # None => /\ resp[q] # None /\ sent[q] > 0
                            /\ asm'[q].port \/ q \notin inflight'
      <3>1. CASE q = f.id
          BY <1>0, <1>b, <2>2, <3>1, TakesAsm
      <3>2. CASE q # f.id
          BY <1>2, <1>b, <3>2, TakesAsm DEF Stage
      <3> QED BY <3>1, <3>2
    <2> QED BY <1>2, <1>d, <2>1, <2>3 DEF Stage
  <1>7. ASSUME NEW q \in Requests, NEW j \in Nat, NEW i \in 1 .. N,
               q # f.id \/ f.kind \in {"start", "chunk"},
               resp[q].fits, Before(q, j, i + 1)
        PROVE  Before(q, j, i)'
    <2>1. CASE Consumed(q, j)
      <3>1. Consumed(q, j)'
          BY <1>7, <1>b, <2>1, TakesAsm DEF Consumed
      <3> QED BY <3>1 DEF Before
    <2>2. CASE f = FrameAt(q, j)
      <3>1. q = f.id /\ j = Index(f)
          BY <1>7, <2>2, FramePlace DEF Index
      <3>2. Consumed(f.id, Index(f))'
          BY <1>7, <1>b, <3>1, TakesAsm
      <3>3. Index(f)' = Index(f)
          BY <1>d DEF Index
      <3>4. Consumed(q, j)'
          BY <3>1, <3>2, <3>3 DEF Consumed
      <3> QED BY <3>4 DEF Before
    <2>3. ASSUME NEW l \in 1 .. i, l > 1, dcDown[l] = FrameAt(q, j)
          PROVE  Before(q, j, i)'
      <3>1. l - 1 \in 1 .. i - 1 /\ dcDown'[l - 1] = dcDown[l]
          BY <1>1, <2>3
      <3>2. FrameAt(q, j)' = FrameAt(q, j)
          BY <1>d DEF FrameAt
      <3> QED BY <2>3, <3>1, <3>2 DEF Before
    <2> QED BY <1>0, <1>7, <2>1, <2>2, <2>3 DEF Before
  <1>8. ASSUME NEW q \in Requests PROVE Assembly(q)' /\ Posted(q)'
    <2>1. asm'[q] # None =>
             /\ resp'[q].fits
             /\ \E m \in 0 .. resp'[q].chunks : asm'[q].parts = Pieces(q, m)
        BY <1>b, <1>d, TakesAsm DEF Assembly
    <2>2. \A m : Pieces(q, m)' = Pieces(q, m)
        BY DEF Pieces
    <2>3. PICK s \in Nat : s = sent[q]
        BY DEF TypeOK
    <2>4. ASSUME gwDc = "open", gw[q] = "sending", resp[q].fits, s > 0
          PROVE  Before(q, s - 1, N)'
      <3>1. Before(q, s - 1, N + 1)
          BY <1>c, <1>d, <2>3, <2>4 DEF Assembly
      <3>2. s < FrameCount(q)
          BY <2>3, <2>4 DEF Stage
      <3>3. q # f.id \/ f.kind \in {"start", "chunk"}
          BY <1>0, <2>3, <3>2 DEF Frames
      <3>4. PICK l \in Nat : l = s - 1
          BY <2>4
      <3>5. N \in 1 .. N /\ Before(q, l, N + 1) /\ resp[q].fits
          BY <1>1, <2>4, <3>1, <3>4
      <3>6. Before(q, l, N)'
          BY <1>7, <3>3, <3>5
      <3> QED BY <3>4, <3>6
    <2>5. sent' = sent /\ gw' = gw /\ gwDc' = gwDc /\ resp' = resp /\ Len(dcDown') + 1 = N
        BY <1>1, <1>d
    <2>6. gwDc' = "open" /\ gw'[q] = "sending" /\ resp'[q].fits /\ sent'[q] > 0
             => Before(q, sent[q] - 1, Len(dcDown) + 1)'
      <3>1. N = Len(dcDown)' + 1 /\ s = sent'[q]
          BY <2>3, <2>5
      <3> QED BY <2>3, <2>4, <2>5, <3>1 DEF Before
    <2> QED BY <1>b, <2>1, <2>2, <2>6, TakesPort DEF Assembly
  <1>9. ASSUME NEW g \in Frames, NEW i \in 1 .. N - 1, g = dcDown[i + 1]
        PROVE  /\ FrameOK(g, i)'
               /\ Index(g)' = Index(g)
    <2>1. i + 1 \in DOMAIN dcDown /\ g.id \in Requests /\ resp' = resp
        BY <1>1, <1>d DEF Frames
    <2>2. FrameOK(g, i + 1)
        BY <1>9, <2>1 DEF Wire
    <2>3. resp[g.id].chunks \in Nat /\ g.n \in Nat
        BY <2>1, <2>2, SizesAreNat DEF FrameOK, TypeOK, Frames
    <2>4. Index(g) \in Nat
        BY <2>3 DEF Index
    <2>5. Index(g)' = Index(g)
        BY <1>d DEF Index
    <2>6. g.id # f.id \/ f.kind \in {"start", "chunk"}
        BY <1>0, <1>9, <2>1 DEF Frames
    <2>7. g.kind = "start" => asm'[g.id] = None
      <3>1. CASE g.id # f.id
          BY <1>b, <2>1, <2>2, <3>1, TakesAsm DEF FrameOK
      <3>2. CASE g.id = f.id
        <4>1. Index(f) < Index(g)
          <5>1. 1 \in DOMAIN dcDown /\ 1 < i + 1 /\ dcDown[1] = f /\ dcDown[i + 1] = g
              BY <1>0, <1>1, <1>9
          <5>2. Wire
              OBVIOUS
          <5> HIDE DEF IInv
          <5> QED BY <2>1, <3>2, <5>1, <5>2 DEF Wire
        <4>2. g.kind # "start"
            BY <1>0, <4>1 DEF Index
        <4> QED BY <4>2
      <3> QED BY <3>1, <3>2
    <2>8. ASSUME resp[g.id].fits, Index(g) > 0, Before(g.id, Index(g) - 1, i + 1)
          PROVE  Before(g.id, Index(g) - 1, i)'
      <3>1. PICK m \in Nat : m = Index(g) - 1
          BY <2>4, <2>8
      <3>2. Before(g.id, m, i)'
          BY <1>7, <2>1, <2>6, <2>8, <3>1
      <3>3. m = Index(g)' - 1
          BY <2>5, <3>1
      <3> QED BY <3>2, <3>3 DEF Before
    <2>9. sent' = sent /\ sent \in [Requests -> Nat]
        BY <1>d DEF TypeOK
    <2>10. FrameOK(g, i)'
        BY <2>1, <2>2, <2>4, <2>7, <2>8, <2>9, FrameOKStep
    <2> QED BY <2>5, <2>10
  <1>10. Wire'
    <2>1. ASSUME NEW i \in DOMAIN dcDown' PROVE FrameOK(dcDown[i], i)'
      <3>1. PICK g \in Frames : g = dcDown'[i] /\ g = dcDown[i + 1]
          BY <1>1
      <3>2. FrameOK(g, i)'
          BY <1>1, <1>9, <3>1
      <3> QED BY <3>1, <3>2
    <2>2. ASSUME NEW i \in DOMAIN dcDown', NEW j \in DOMAIN dcDown',
                 i < j, dcDown'[i].id = dcDown'[j].id
          PROVE  Index(dcDown[i])' < Index(dcDown[j])'
      <3>1. PICK g \in Frames, h \in Frames :
               /\ g = dcDown'[i] /\ h = dcDown'[j]
               /\ g = dcDown[i + 1] /\ h = dcDown[j + 1]
          BY <1>1
      <3>2. Index(g) < Index(h)
          BY <1>1, <2>2, <3>1 DEF Wire
      <3>3. Index(g)' = Index(g) /\ Index(h)' = Index(h)
          BY <1>1, <1>9, <3>1
      <3> QED BY <3>1, <3>2, <3>3
    <2> QED BY <1>d, <2>1, <2>2 DEF Wire
  <1> QED BY <1>3, <1>4, <1>5, <1>6, <1>8, <1>10

-----------------------------------------------------------------------------
LEMMA NextInv == ASSUME IInv, [Next]_vars PROVE IInv'
  <1>1. CASE \E r \in Requests : SWNext(r)
      BY <1>1, FetchInv, PickHostInv, PickOtherInv, SWReceiveInv, SWTimeoutInv DEF SWNext
  <1>2. CASE \E r \in Requests : PageTimeout(r) \/ GwReply(r) \/ GwSend(r)
      BY <1>2, PageTimeoutInv, GwReplyInv, GwSendInv
  <1>3. CASE PageBridge \/ PageFrame \/ PageClose \/ PageGone \/ GwRecv \/ GwClose
      BY <1>3, PageBridgeInv, PageFrameInv, PageCloseInv, PageGoneInv, GwRecvInv, GwCloseInv
  <1>4. CASE UNCHANGED vars
    <2> USE <1>4 DEF vars, swVars, pageVars, gwVars, IInv
    <2>1. TypeOK' /\ Queues' /\ NeverSilent' /\ OwnBody'
        BY OwnBodyFrame DEF TypeOK, Queues, NeverSilent, Settled
    <2>2. ASSUME NEW q \in Requests PROVE Stage(q)' /\ Assembly(q)' /\ Posted(q)'
        BY StageFrame, AssemblyFrame, PostedFrame DEF Stage
    <2>3. Wire'
        BY WireFrame
    <2> QED BY <2>1, <2>2, <2>3
  <1> QED BY <1>1, <1>2, <1>3, <1>4 DEF Next

LEMMA Inductive == Spec => []IInv
  BY InitInv, NextInv, PTL DEF Spec

\* Every variable keeps its type, whatever the number of fetches and the sizes
\* of the responses.
THEOREM TypeCorrect == Spec => []TypeOK
  <1>1. IInv => TypeOK
      BY DEF IInv
  <1> QED BY <1>1, Inductive, PTL

\* The slices of the pieces of a whole body, in order, are that body.
LEMMA WholeJoined ==
    ASSUME TypeOK, NEW r \in Requests, resp[r] # None, body[r] = Whole(r)
    PROVE  Joined(r)
  <1> DEFINE l == resp[r].length
             n == resp[r].chunks
  <1>1. l \in Lengths /\ n = ChunkCount(l)
      BY DEF TypeOK
  <1>2. /\ l \in Nat /\ n \in Nat /\ ChunkSize \in Nat \ {0}
        /\ n > 0 => l <= n * ChunkSize /\ n * ChunkSize < l + ChunkSize
      BY <1>1, ChunkCountFacts, LengthsAssumption
  <1>3. CASE n = 0
    <2>1. body[r] = {<<r, 0>>} /\ Slice(r, 0) = Text(r)
        BY <1>3 DEF Whole, Slice
    <2> QED BY <1>2, <2>1 DEF Joined
  <1>4. CASE n > 0
    <2>1. body[r] = {<<r, i>> : i \in 0 .. n - 1}
        BY <1>4 DEF Whole, Pieces
    <2>2. \A i, j \in Nat : i <= j => i * ChunkSize <= j * ChunkSize
        BY <1>2, Monotone
    <2>3. ASSUME NEW i \in 0 .. n - 1
          PROVE  /\ i * ChunkSize \in Nat /\ i * ChunkSize < l
                 /\ \A c : c \in Slice(r, i) <=>
                        c \in Text(r) /\ i * ChunkSize <= c /\ c < i * ChunkSize + ChunkSize
      <3>1. i * ChunkSize \in Nat /\ i * ChunkSize <= (n - 1) * ChunkSize
          BY <1>2, <1>4, <2>2, <2>3
      <3>2. (n - 1) * ChunkSize = n * ChunkSize - ChunkSize /\ n * ChunkSize \in Nat
          BY <1>2
      <3>3. i * ChunkSize < l
          BY <1>2, <1>4, <3>1, <3>2
      <3> QED BY <1>2, <1>4, <3>1, <3>3 DEF Slice, SliceEnd, Text
    <2>4. ASSUME NEW c \in Text(r)
          PROVE  \E i \in 0 .. n - 1 : c \in Slice(r, i)
      <3>1. /\ c \in Nat /\ c \div ChunkSize \in Nat
            /\ (c \div ChunkSize) * ChunkSize <= c
            /\ c < (c \div ChunkSize) * ChunkSize + ChunkSize
          BY <1>2, <2>4, FloorDivision DEF Text
      <3>2. ~(n <= c \div ChunkSize)
          BY <1>2, <1>4, <2>2, <2>4, <3>1 DEF Text
      <3>3. c \div ChunkSize \in 0 .. n - 1
          BY <1>2, <3>1, <3>2
      <3> QED BY <2>3, <2>4, <3>1, <3>3
    <2>5. UNION {Slice(r, p[2]) : p \in body[r]} = Text(r)
      <3>1. \A i \in 0 .. n - 1 : <<r, i>> \in body[r] /\ <<r, i>>[2] = i
          BY <2>1
      <3>2. \A p \in body[r] : p[2] \in 0 .. n - 1
          BY <2>1
      <3>3. \A i \in 0 .. n - 1 : Slice(r, i) \subseteq Text(r)
          BY <2>3
      <3>4. \A p \in body[r] : Slice(r, p[2]) \subseteq Text(r)
          BY <3>2, <3>3
      <3>5. ASSUME NEW c \in Text(r)
            PROVE  \E p \in body[r] : c \in Slice(r, p[2])
        <4>1. PICK i \in 0 .. n - 1 : c \in Slice(r, i)
            BY <2>4
        <4> QED BY <3>1, <4>1
      <3> HIDE DEF n, l
      <3> QED BY <3>4, <3>5
    <2>6. ASSUME NEW p \in body[r], NEW q \in body[r], p[2] < q[2],
                 NEW c \in Slice(r, p[2]), NEW d \in Slice(r, q[2])
          PROVE  c < d
      <3>1. p[2] \in 0 .. n - 1 /\ q[2] \in 0 .. n - 1
          BY <2>1
      <3>2. (p[2] + 1) * ChunkSize <= q[2] * ChunkSize
          BY <2>2, <2>6, <3>1
      <3>3. (p[2] + 1) * ChunkSize = p[2] * ChunkSize + ChunkSize
          BY <1>2, <3>1
      <3>4. c < p[2] * ChunkSize + ChunkSize /\ q[2] * ChunkSize <= d
          BY <2>3, <3>1
      <3>5. c \in Nat /\ d \in Nat /\ p[2] * ChunkSize \in Nat /\ q[2] * ChunkSize \in Nat
          BY <1>2, <2>3, <3>1 DEF Text
      <3> QED BY <1>2, <3>2, <3>3, <3>4, <3>5
    <2>7. \A p \in body[r] : p[2] * ChunkSize <= l
        BY <1>2, <2>1, <2>3
    <2> QED BY <2>5, <2>6, <2>7 DEF Joined
  <1> QED BY <1>2, <1>3, <1>4

\* No fetch is ever resolved with a truncated, reordered or foreign body: what
\* buildResponse gets is what forwardHTTP returned for that very request, whatever
\* its length and the limits.
THEOREM ResponsesAreWhole == Spec => []Integrity
  <1>1. IInv => Integrity
      BY WholeJoined DEF IInv, OwnBody, Integrity
  <1> QED BY <1>1, Inductive, PTL

\* A host page that lives accounts for every request it took from the SW.
THEOREM PageAccounts == Spec => []NeverSilent
  <1>1. IInv => NeverSilent
      BY DEF IInv
  <1> QED BY <1>1, Inductive, PTL

-----------------------------------------------------------------------------
(***************************************************************************)
(* NoneStranded.  While the channel is linked, a request without a         *)
(* goroutine is still on dcUp, and once its goroutine has handed over the  *)
(* last frame, that frame is on dcDown, or the page is done with it all.   *)
(***************************************************************************)
Linked == pageDc = "open" /\ gwDc = "open"

Chunked(r) == asm[r] # None => resp[r].chunks > 0

Underway(r) == r \in inflight /\ gw[r] = "none" => Asked(r)

Drained(r) == /\ asm[r] = None
              /\ r \in inflight => Refused(r)
              /\ \A i \in DOMAIN dcDown : dcDown[i].id # r

Finished(r) == gw[r] = "done" => Ending(r) \/ Drained(r)

Strand(r) == Chunked(r) /\ (Linked => Underway(r) /\ Finished(r))

\* The last frame of a response is settled with its shape.
LEMMA LastKept ==
    ASSUME NEW r, resp'[r] = resp[r]
    PROVE  /\ LastFrame(r)' = LastFrame(r) /\ Refused(r)' = Refused(r)
           /\ LastFrame(r).id = r
  BY DEF LastFrame, FrameAt, FrameCount, Frame, Refused

\* What touches neither the channel nor what is at its ends.
LEMMA StrandFrame ==
    ASSUME NEW r \in Requests, Strand(r), Linked' => Linked,
           UNCHANGED <<dcUp, dcDown, gw, resp, asm>>, inflight' \subseteq inflight
    PROVE  Strand(r)'
  <1>1. LastFrame(r)' = LastFrame(r) /\ Refused(r)' = Refused(r)
      BY LastKept
  <1> QED BY <1>1 DEF Strand, Chunked, Underway, Asked, Finished, Ending, Drained

\* A channel one of whose ends closes is not linked.
LEMMA StrandClosed ==
    ASSUME NEW r \in Requests, Strand(r), ~Linked', resp' = resp,
           asm'[r] \in {None, asm[r]}
    PROVE  Strand(r)'
  BY DEF Strand, Chunked

LEMMA PageBridgeStrand ==
    ASSUME IInv, NEW q \in Requests, Strand(q), PageBridge PROVE Strand(q)'
  <1> USE DEF PageBridge, swVars, gwVars
  <1> DEFINE r == Head(toPage)
  <1>1. dcUp \in Seq(Requests) /\ r \in Requests
      BY DEF IInv, TypeOK
  <1>2. Linked' = Linked /\ LastFrame(q)' = LastFrame(q) /\ Refused(q)' = Refused(q)
      BY LastKept DEF Linked
  <1>3. dcUp' = dcUp \/ dcUp' = Append(dcUp, r)
      BY DEF Deliver
  <1>4. Asked(q) => Asked(q)'
      BY <1>1, <1>3 DEF Asked
  <1>5. Linked /\ q \in inflight' => q \in inflight \/ Asked(q)'
    <2>1. CASE inflight' = inflight \cup {r} /\ dcUp' = IF gwDc = "open" THEN Append(dcUp, r) ELSE dcUp
      <3> SUFFICES ASSUME Linked, q = r PROVE Asked(q)'
          BY <2>1
      <3>1. dcUp' = Append(dcUp, r)
          BY <2>1 DEF Linked
      <3>2. Len(dcUp) + 1 \in DOMAIN dcUp' /\ dcUp'[Len(dcUp) + 1] = r
          BY <1>1, <3>1
      <3> QED BY <3>2 DEF Asked
    <2>2. CASE inflight' = inflight
        BY <2>2
    <2> QED BY <2>1, <2>2 DEF Deliver
  <1>6. q \in inflight' => q \in inflight \/ gw[q] = "none"
    <2>1. r \notin bridged
        BY DEF IInv, Queues, TypeOK
    <2>2. gw[r] = "none"
        BY <1>1, <2>1 DEF IInv, Stage
    <2> QED BY <2>2
  <1>7. Chunked(q)' /\ (Linked => Underway(q)')
      BY <1>2, <1>4, <1>5 DEF Strand, Chunked, Underway
  <1>8. Linked => Finished(q)'
      BY <1>2, <1>6 DEF Strand, Finished, Ending, Drained
  <1> QED BY <1>2, <1>7, <1>8 DEF Strand

LEMMA GwRecvStrand ==
    ASSUME IInv, NEW q \in Requests, Strand(q), GwRecv PROVE Strand(q)'
  <1> USE DEF GwRecv, swVars, pageVars
  <1> DEFINE r == Head(dcUp)
  <1>1. /\ dcUp \in Seq(Requests) /\ r \in Requests /\ r = dcUp[1]
        /\ gw \in [Requests -> {"none", "proxying", "sending", "done"}]
      BY DEF IInv, TypeOK
  <1>2. Linked' = Linked /\ LastFrame(q)' = LastFrame(q) /\ Refused(q)' = Refused(q)
      BY LastKept DEF Linked
  <1>3. Asked(q) => Asked(q)' \/ q = r
    <2> SUFFICES ASSUME NEW i \in DOMAIN dcUp, dcUp[i] = q, q # r PROVE Asked(q)'
        BY DEF Asked
    <2>1. i - 1 \in DOMAIN dcUp' /\ dcUp'[i - 1] = q
        BY <1>1
    <2> QED BY <2>1 DEF Asked
  <1>4. gw'[q] = IF q = r THEN "proxying" ELSE gw[q]
      BY <1>1
  <1> QED BY <1>2, <1>3, <1>4 DEF Strand, Chunked, Underway, Finished, Ending, Drained

LEMMA GwReplyStrand ==
    ASSUME IInv, NEW q \in Requests, Strand(q), NEW r \in Requests, GwReply(r)
    PROVE  Strand(q)'
  <1> USE DEF GwReply, swVars, pageVars
  <1>1. asm[r] = None
      BY DEF IInv, Stage
  <1>2. gw'[q] = IF q = r THEN "sending" ELSE gw[q]
      BY DEF IInv, TypeOK
  <1>3. q # r => resp'[q] = resp[q]
      BY DEF IInv, TypeOK
  <1>4. q # r => LastFrame(q)' = LastFrame(q) /\ Refused(q)' = Refused(q)
      BY <1>3, LastKept
  <1>5. Linked' = Linked
      BY DEF Linked
  <1> QED BY <1>1, <1>2, <1>3, <1>4, <1>5
          DEF Strand, Chunked, Underway, Asked, Finished, Ending, Drained

\* The last frame is handed over: it is on the channel, or was refused, in which
\* case it was the only one.
LEMMA GwSendStrand ==
    ASSUME IInv, NEW q \in Requests, Strand(q), NEW r \in Requests, GwSend(r)
    PROVE  Strand(q)'
  <1> USE DEF GwSend, swVars, pageVars
  <1> DEFINE k == sent[r]
  <1>1. /\ dcDown \in Seq(Frames) /\ k \in Nat /\ sent'[r] = k + 1
        /\ resp[r] # None /\ resp[r].chunks \in Nat /\ resp[r].fits \in BOOLEAN
        /\ gw'[r] = IF k + 1 = FrameCount(r) THEN "done" ELSE "sending"
        /\ q # r => gw'[q] = gw[q]
        /\ inflight \subseteq Requests
      BY SizesAreNat DEF IInv, Stage, TypeOK, FrameCount
  <1>2. /\ Linked' = Linked /\ LastFrame(q)' = LastFrame(q) /\ Refused(q)' = Refused(q)
      BY LastKept DEF Linked
  <1>3. dcDown' = dcDown \/ dcDown' = Append(dcDown, FrameAt(r, k))
      BY DEF SendDC, Deliver
  <1>4. FrameAt(r, k).id = r
      BY DEF FrameAt, Frame
  <1>5. Ending(q) => Ending(q)'
      BY <1>1, <1>2, <1>3 DEF Ending
  <1>6. q # r => (Drained(q) => Drained(q)')
      BY <1>1, <1>2, <1>3, <1>4 DEF Drained
  <1>7. ASSUME Linked, gw'[r] = "done" PROVE (Ending(r) \/ Drained(r))'
    <2>1. LastFrame(r) = FrameAt(r, k) /\ LastFrame(r)' = LastFrame(r)
      <3>1. k = FrameCount(r) - 1
          BY <1>1, <1>7 DEF FrameCount
      <3> QED BY <3>1, LastKept DEF LastFrame
    <2>2. CASE k > 0 \/ resp[r].fits
      <3>1. dcDown' = Append(dcDown, FrameAt(r, k))
          BY <1>1, <1>7, <2>2 DEF SendDC, Deliver, Linked
      <3>2. Len(dcDown) + 1 \in DOMAIN dcDown' /\ dcDown'[Len(dcDown) + 1] = LastFrame(r)
          BY <1>1, <2>1, <3>1
      <3> QED BY <2>1, <3>2 DEF Ending
    <2>3. CASE k = 0 /\ ~resp[r].fits
      <3>1. asm[r] = None /\ Refused(r)'
          BY <1>1, <2>3 DEF IInv, Assembly, Refused
      <3>2. dcDown' = dcDown
          BY <1>7, <2>3 DEF SendDC, Linked
      <3>3. \A i \in DOMAIN dcDown : dcDown[i].id # r
        <4> SUFFICES ASSUME NEW i \in DOMAIN dcDown, dcDown[i].id = r PROVE FALSE
            OBVIOUS
        <4>1. dcDown[i] \in Frames
            BY <1>1
        <4>2. Index(dcDown[i]) < 0 /\ Index(dcDown[i]) \in Nat
            BY <1>1, <2>3, <4>1 DEF IInv, Wire, FrameOK, Index, Frames
        <4> QED BY <4>2
      <3> QED BY <3>1, <3>2, <3>3 DEF Drained
    <2> QED BY <1>1, <2>2, <2>3
  <1>8. Chunked(q)' /\ (Linked => Underway(q)')
      BY <1>1, <1>2 DEF Strand, Chunked, Underway, Asked
  <1>9. Linked => Finished(q)'
      BY <1>1, <1>5, <1>6, <1>7 DEF Strand, Finished
  <1> QED BY <1>2, <1>8, <1>9 DEF Strand

\* Taking the last frame ends what the page keeps for its request.
LEMMA TakesLast ==
    ASSUME IInv, NEW f \in Frames, PageTakes(f), Chunked(f.id), f = LastFrame(f.id)
    PROVE  Drained(f.id)'
  <1> USE DEF PageTakes, swVars, gwVars
  <1> DEFINE r == f.id
  <1>1. /\ r \in Requests /\ resp[r] # None
        /\ resp[r].chunks \in Nat /\ resp[r].fits \in BOOLEAN
        /\ f = FrameAt(r, Index(f)) /\ Index(f) \in Nat
        /\ resp[r].fits /\ Index(f) > 0 => Consumed(r, Index(f) - 1)
        /\ f.kind \in {"end", "response"} =>
              \A i \in DOMAIN dcDown : i > 1 => dcDown[i].id # r
      BY HeadFacts
  <1>2. /\ resp' = resp /\ asm \in [Requests -> {None} \cup
                                [port : BOOLEAN, parts : SUBSET (Requests \X Nat)]]
        /\ dcDown \in Seq(Frames)
      BY DEF IInv, TypeOK
  <1>3. f.kind = IF resp[r].chunks = 0 THEN "response" ELSE "end"
      BY <1>1 DEF LastFrame, FrameAt, Frame, FrameCount
  <1>4. \A i \in DOMAIN dcDown' : dcDown'[i].id # r
    <2>1. \A i \in DOMAIN dcDown' : i + 1 \in DOMAIN dcDown /\ dcDown'[i] = dcDown[i + 1]
        BY <1>2
    <2> QED BY <1>1, <1>2, <1>3, <2>1
  <1>5. CASE f.kind = "end"
    <2>1. PageEnd(f)
        BY <1>5 DEF PageStart, PageChunk, PageSingle
    <2>2. asm'[r] = None
        BY <1>1, <1>2, <2>1 DEF PageEnd
    <2>3. r \in inflight' => asm[r] = None
        BY <2>1 DEF PageEnd
    <2>4. Index(f) > 0
        BY <1>1, <1>5, FrameShape
    <2>5. asm[r] = None => Refused(r)'
        BY <1>1, <1>2, <2>4 DEF Consumed, Refused
    <2> QED BY <1>4, <2>2, <2>3, <2>5 DEF Drained
  <1>6. CASE f.kind = "response"
    <2>1. PageSingle(f)
        BY <1>6 DEF PageStart, PageChunk, PageEnd
    <2>2. asm'[r] = None
        BY <1>1, <1>3, <1>6, <2>1 DEF PageSingle, Chunked
    <2>3. r \notin inflight'
        BY <2>1 DEF PageSingle
    <2> QED BY <1>4, <2>2, <2>3 DEF Drained
  <1> QED BY <1>3, <1>5, <1>6

LEMMA PageFrameStrand ==
    ASSUME IInv, \A r \in Requests : Strand(r), NEW q \in Requests, PageFrame
    PROVE  Strand(q)'
  <1>1. PICK f \in Frames : f = Head(dcDown)
      BY DEF PageFrame, IInv, TypeOK
  <1>2. PageTakes(f)
      BY <1>1 DEF PageFrame, PageTakes
  <1>3. /\ f.id \in Requests /\ f = dcDown[1] /\ Index(f) \in Nat
        /\ resp[f.id].chunks \in Nat /\ f = FrameAt(f.id, Index(f))
      BY <1>1, <1>2, HeadFacts DEF PageTakes
  <1>4. /\ UNCHANGED <<pageDc, gwDc, gw, resp, dcUp>> /\ dcDown' = Tail(dcDown)
        /\ dcDown # <<>> /\ dcDown \in Seq(Frames)
      BY DEF PageFrame, swVars, gwVars, IInv, TypeOK
  <1>5. /\ q # f.id => asm'[q] = asm[q]
        /\ inflight' \subseteq inflight
      BY <1>2, TakesAsm
  <1>6. LastFrame(q)' = LastFrame(q) /\ Refused(q)' = Refused(q) /\ LastFrame(q).id = q
      BY <1>4, LastKept
  <1>7. Chunked(q)'
    <2>1. CASE asm'[q] = None \/ asm'[q] = asm[q] \/ asm[q] # None
        BY <1>4, <2>1 DEF Strand, Chunked
    <2>2. CASE q = f.id /\ PageStart(f)
        BY <1>3, <1>4, <2>2, FrameShape DEF PageStart, Chunked
    <2>3. CASE q = f.id /\ (PageChunk(f) \/ PageEnd(f) \/ PageSingle(f))
      <3>1. asm'[q] = asm[q] \/ asm[q] # None
          BY <2>3 DEF PageChunk, PageEnd, PageSingle
      <3> QED BY <2>1, <3>1
    <2> QED BY <1>2, <1>5, <2>1, <2>2, <2>3 DEF PageTakes
  <1>8. Linked' = Linked
      BY <1>4 DEF Linked
  <1>9. Linked => Underway(q)'
      BY <1>4, <1>5 DEF Strand, Underway, Asked
  <1>10. Drained(q) => Drained(q)'
    <2> SUFFICES ASSUME Drained(q) PROVE Drained(q)'
        OBVIOUS
    <2>1. q # f.id
        BY <1>3, <1>4 DEF Drained
    <2>2. \A i \in DOMAIN dcDown' : i + 1 \in DOMAIN dcDown /\ dcDown'[i] = dcDown[i + 1]
        BY <1>4
    <2> QED BY <1>5, <1>6, <2>1, <2>2 DEF Drained
  <1>11. Ending(q) => Ending(q)' \/ Drained(q)'
    <2> SUFFICES ASSUME NEW i \in DOMAIN dcDown, dcDown[i] = LastFrame(q)
                 PROVE  Ending(q)' \/ Drained(q)'
        BY DEF Ending
    <2>1. CASE i = 1
      <3>1. f = LastFrame(q) /\ f.id = q
          BY <1>3, <1>6, <2>1
      <3> QED BY <1>2, <1>3, <3>1, TakesLast DEF Strand
    <2>2. CASE i # 1
      <3>1. i - 1 \in DOMAIN dcDown' /\ dcDown'[i - 1] = LastFrame(q)
          BY <1>4, <2>2
      <3> QED BY <1>6, <3>1 DEF Ending
    <2> QED BY <2>1, <2>2
  <1> QED BY <1>4, <1>7, <1>8, <1>9, <1>10, <1>11 DEF Strand, Finished

LEMMA NextStrand ==
    ASSUME IInv, \A r \in Requests : Strand(r), [Next]_vars, NEW q \in Requests
    PROVE  Strand(q)'
  <1> USE DEF swVars, pageVars, gwVars
  <1>1. CASE \E r \in Requests : SWNext(r) \/ PageTimeout(r)
    <2>1. /\ UNCHANGED <<dcUp, dcDown, gw, resp, asm, pageDc, gwDc>>
          /\ inflight' \subseteq inflight
        BY <1>1 DEF SWNext, Fetch, PickHost, PickOther, SWReceive, SWTimeout, PageTimeout
    <2> QED BY <2>1, StrandFrame DEF Linked
  <1>2. CASE PageClose \/ PageGone \/ GwClose
    <2>1. ~Linked' /\ resp' = resp /\ asm'[q] \in {None, asm[q]}
        BY <1>2 DEF PageClose, PageGone, GwClose, Linked
    <2> QED BY <2>1, StrandClosed
  <1>3. CASE PageBridge \/ GwRecv
      BY <1>3, PageBridgeStrand, GwRecvStrand
  <1>4. CASE \E r \in Requests : GwReply(r) \/ GwSend(r)
      BY <1>4, GwReplyStrand, GwSendStrand
  <1>5. CASE PageFrame
      BY <1>5, PageFrameStrand
  <1>6. CASE UNCHANGED vars
      BY <1>6, StrandFrame DEF vars, Linked
  <1> QED BY <1>1, <1>2, <1>3, <1>4, <1>5, <1>6 DEF Next

\* The page never waits, on a channel both of whose ends are open, for a
\* response nothing will end, but for one whose first frame was refused.
THEOREM NothingStranded == Spec => []NoneStranded
  <1> DEFINE SInv == \A r \in Requests : Strand(r)
  <1>1. Init => SInv
      BY DEF Init, Strand, Chunked, Underway, Finished
  <1>2. IInv /\ SInv /\ [Next]_vars => SInv'
      BY NextStrand
  <1>3. IInv /\ SInv => NoneStranded
    <2> SUFFICES ASSUME IInv, SInv, Linked, NEW r \in Requests
                 PROVE  /\ r \in inflight => OnItsWay(r) \/ Refused(r)
                        /\ asm[r] # None => OnItsWay(r)
        BY DEF NoneStranded, Linked
    <2>1. gw[r] \in {"none", "proxying", "sending", "done"}
        BY DEF IInv, TypeOK
    <2>2. asm[r] # None => gw[r] # "none"
        BY DEF IInv, Stage
    <2> QED BY <2>1, <2>2 DEF Strand, Underway, Finished, Drained, OnItsWay
  <1> HIDE DEF SInv
  <1> QED BY <1>1, <1>2, <1>3, Inductive, PTL DEF Spec

-----------------------------------------------------------------------------
(***************************************************************************)
(* RpcSpec: a step of the tunnel is a step of the remote call, or none.    *)
(***************************************************************************)

\* What the issuer sees of r depends on its promise alone.
LEMMA CallOf ==
    ASSUME TypeOK, NEW r \in Requests
    PROVE  /\ rpcCall[r] = "idle" <=> sw[r] = "idle"
           /\ rpcCall[r] = "pending" <=> sw[r] \in {"picking", "waiting"}
           /\ rpcCall[r] = "answered" <=> sw[r] = "resolved"
           /\ rpcCall[r] = "failed" <=> sw[r] = "rejected"
  BY DEF TypeOK, rpcCall

\* A response is never nothing, however its body is cut.
LEMMA WholeIsReply ==
    ASSUME NEW r \in Requests, resp[r] \in Responses
    PROVE  Whole(r) \in Replies /\ Whole(r) # {}
  <1>1. resp[r].chunks \in Sizes /\ resp[r].chunks \in Nat
      BY SizesAreNat
  <1>2. CASE resp[r].chunks = 0
    <2>1. Whole(r) = Pieces(r, 1)
        BY <1>2 DEF Whole, Pieces
    <2>2. <<r, 0>> \in Whole(r)
        BY <1>2 DEF Whole
    <2> QED BY <2>1, <2>2 DEF Replies
  <1>3. CASE resp[r].chunks > 0
    <2>1. Whole(r) = Pieces(r, resp[r].chunks)
        BY <1>3 DEF Whole
    <2>2. <<r, 0>> \in Whole(r)
        BY <1>1, <1>3, <2>1 DEF Pieces
    <2> QED BY <1>1, <1>3, <2>1, <2>2 DEF Replies
  <1> QED BY <1>1, <1>2, <1>3

\* One promise and its body change, no response does.
LEMMA RpcUpdate ==
    ASSUME TypeOK, TypeOK', resp' = resp, NEW r \in Requests,
           \A q \in Requests \ {r} : sw'[q] = sw[q] /\ body'[q] = body[q]
    PROVE  /\ rpcReply' = rpcReply
           /\ rpcCall' = [rpcCall EXCEPT ![r] = rpcCall'[r]]
           /\ rpcResult' = [rpcResult EXCEPT ![r] = rpcResult'[r]]
  <1>1. rpcReply' = rpcReply
      BY DEF rpcReply, Whole, Pieces
  <1>2. rpcCall' = [rpcCall EXCEPT ![r] = rpcCall'[r]]
      BY DEF rpcCall
  <1>3. rpcResult' = [rpcResult EXCEPT ![r] = rpcResult'[r]]
      BY DEF rpcResult
  <1> QED BY <1>1, <1>2, <1>3

LEMMA RpcUnchanged ==
    ASSUME UNCHANGED <<sw, body, resp>> PROVE UNCHANGED R!vars
  BY DEF R!vars, rpcCall, rpcReply, rpcResult, Whole, Pieces

\* What the SW does: a fetch is issued, and settled with what was posted.
LEMMA SWRpc ==
    ASSUME IInv, TypeOK', NEW r \in Requests, SWNext(r) PROVE [R!Next]_R!vars
  <1> USE DEF pageVars, gwVars
  <1>1. TypeOK /\ sw \in [Requests -> {"idle", "picking", "waiting", "resolved", "rejected"}]
      BY DEF IInv, TypeOK
  <1>2. /\ resp' = resp
        /\ \A q \in Requests \ {r} : sw'[q] = sw[q] /\ body'[q] = body[q]
    <2>1. /\ resp' = resp
          /\ \E s : sw' = [sw EXCEPT ![r] = s]
          /\ body' = body \/ \E b : body' = [body EXCEPT ![r] = b]
        BY DEF SWNext, Fetch, PickHost, PickOther, SWReceive, SWTimeout
    <2>2. body \in [Requests -> SUBSET (Requests \X Nat)]
        BY <1>1 DEF TypeOK
    <2> QED BY <1>1, <2>1, <2>2
  <1>3. /\ rpcReply' = rpcReply
        /\ rpcCall' = [rpcCall EXCEPT ![r] = rpcCall'[r]]
        /\ rpcResult' = [rpcResult EXCEPT ![r] = rpcResult'[r]]
      BY <1>1, <1>2, RpcUpdate
  <1>4. /\ rpcResult[r] = IF sw[r] = "resolved" THEN body[r] ELSE {}
        /\ rpcResult'[r] = IF sw'[r] = "resolved" THEN body'[r] ELSE {}
        /\ rpcResult \in [Requests -> {rpcResult[q] : q \in Requests}]
      BY DEF rpcResult
  <1>5. sw'[r] # "resolved" /\ sw[r] # "resolved" => rpcResult' = rpcResult
      BY <1>3, <1>4
  <1>6. CASE Fetch(r)
    <2>1. rpcCall[r] = "idle" /\ rpcCall'[r] = "pending"
        BY <1>1, <1>6, CallOf DEF Fetch, rpcCall
    <2>2. rpcResult' = rpcResult
        BY <1>1, <1>5, <1>6 DEF Fetch
    <2> QED BY <1>3, <2>1, <2>2 DEF R!Next, R!Issue
  <1>7. CASE PickHost(r) \/ PickOther(r)
    <2>1. rpcCall[r] = "pending" /\ rpcCall'[r] = "pending"
        BY <1>1, <1>7, CallOf DEF PickHost, PickOther, rpcCall
    <2>2. rpcResult' = rpcResult
        BY <1>1, <1>5, <1>7 DEF PickHost, PickOther
    <2>3. rpcCall' = rpcCall
        BY <1>3, <2>1 DEF rpcCall
    <2> QED BY <1>3, <2>2, <2>3 DEF R!vars
  <1>8. CASE SWTimeout(r)
    <2>1. rpcCall[r] = "pending" /\ rpcCall'[r] = "failed"
        BY <1>1, <1>8, CallOf DEF SWTimeout, rpcCall
    <2>2. rpcResult' = rpcResult
        BY <1>1, <1>5, <1>8 DEF SWTimeout
    <2> QED BY <1>3, <2>1, <2>2 DEF R!Next, R!Fail
  <1>9. CASE SWReceive(r)
    <2> DEFINE msg == Head(port[r])
    <2>1. /\ rpcCall[r] = "pending" /\ sw[r] # "resolved"
          /\ sw'[r] = IF msg.kind = "response" THEN "resolved" ELSE "rejected"
          /\ body'[r] = msg.parts
        BY <1>1, <1>9, CallOf DEF SWReceive, TypeOK
    <2>2. CASE msg.kind # "response"
      <3>1. rpcCall'[r] = "failed"
          BY <2>1, <2>2 DEF rpcCall
      <3>2. rpcResult' = rpcResult
          BY <1>5, <2>1, <2>2
      <3> QED BY <1>3, <2>1, <3>1, <3>2 DEF R!Next, R!Fail
    <2>3. CASE msg.kind = "response"
      <3>1. 1 \in DOMAIN port[r] /\ msg = port[r][1]
          BY <1>1, <1>9 DEF SWReceive, TypeOK
      <3>2. resp[r] # None /\ msg.parts = Whole(r)
          BY <2>3, <3>1 DEF IInv, Posted
      <3>3. rpcReply[r] = Whole(r) /\ Whole(r) # {}
          BY <1>1, <3>2, WholeIsReply DEF TypeOK, rpcReply
      <3>4. rpcCall'[r] = "answered" /\ rpcResult'[r] = rpcReply[r]
          BY <1>4, <2>1, <2>3, <3>2, <3>3 DEF rpcCall
      <3> QED BY <1>3, <2>1, <3>3, <3>4 DEF R!Next, R!Answer
    <2> QED BY <2>2, <2>3
  <1> QED BY <1>6, <1>7, <1>8, <1>9 DEF SWNext

\* forwardHTTP returns: the request is served, and had not been.
LEMMA GwReplyRpc ==
    ASSUME IInv, TypeOK', NEW r \in Requests, GwReply(r) PROVE [R!Next]_R!vars
  <1>1. PICK new \in Responses : resp' = [resp EXCEPT ![r] = new]
    <2>1. PICK l \in Lengths, fits \in BOOLEAN :
             resp' = [resp EXCEPT ![r] =
                        [length |-> l, chunks |-> ChunkCount(l), fits |-> fits]]
        BY DEF GwReply
    <2>2. [length |-> l, chunks |-> ChunkCount(l), fits |-> fits] \in Responses
        BY DEF Sizes
    <2> QED BY <2>1, <2>2
  <1>2. /\ resp'[r] = new /\ resp[r] = None
        /\ \A q \in Requests \ {r} : resp'[q] = resp[q]
    <2>1. resp[r] = None
        BY DEF IInv, Stage, GwReply
    <2>2. DOMAIN resp = Requests
        BY DEF IInv, TypeOK
    <2> QED BY <1>1, <2>1, <2>2
  <1>3. sw[r] # "idle" /\ UNCHANGED <<sw, body>>
      BY DEF IInv, Stage, GwReply, swVars
  <1>4. Whole(r)' \in Replies /\ Whole(r)' # {}
    <2>1. resp'[r].chunks \in Sizes /\ resp'[r].chunks \in Nat
        BY <1>2, SizesAreNat
    <2>2. Whole(r)' = Pieces(r, IF resp'[r].chunks = 0 THEN 1 ELSE resp'[r].chunks)
        BY DEF Whole, Pieces
    <2>3. <<r, 0>> \in Whole(r)'
        BY <2>1 DEF Whole, Pieces
    <2> QED BY <2>1, <2>2, <2>3 DEF Replies
  <1>5. rpcReply' = [rpcReply EXCEPT ![r] = Whole(r)'] /\ rpcReply[r] = {}
    <2>1. \A q \in Requests \ {r} : Whole(q)' = Whole(q)
        BY <1>2 DEF Whole, Pieces
    <2>2. new # None
        BY NoneAssumption
    <2> QED BY <1>2, <2>1, <2>2 DEF rpcReply
  <1>6. rpcCall' = rpcCall /\ rpcResult' = rpcResult /\ rpcCall[r] # "idle"
      BY <1>3, CallOf DEF IInv, rpcCall, rpcResult
  <1> QED BY <1>4, <1>5, <1>6 DEF R!Next, R!Serve

LEMMA NextRpc == ASSUME IInv, [Next]_vars PROVE [R!Next]_R!vars
  <1>1. TypeOK'
      BY NextInv DEF IInv
  <1>2. CASE \E r \in Requests : SWNext(r)
      BY <1>1, <1>2, SWRpc
  <1>3. CASE \E r \in Requests : GwReply(r)
      BY <1>1, <1>3, GwReplyRpc
  <1>4. CASE \/ \E r \in Requests : PageTimeout(r) \/ GwSend(r)
             \/ PageBridge \/ PageFrame \/ PageClose \/ PageGone
             \/ GwRecv \/ GwClose \/ UNCHANGED vars
    <2>1. UNCHANGED <<sw, body, resp>>
        BY <1>4 DEF PageTimeout, GwSend, PageBridge, PageFrame, PageClose, PageGone,
                    GwRecv, GwClose, vars, swVars, gwVars
    <2> QED BY <2>1, RpcUnchanged
  <1> QED BY <1>2, <1>3, <1>4 DEF Next

\* The whole path, three processes and two channels that may fail at any step,
\* is one remote call: at most once served and once settled, and answered with
\* nothing but the whole reply to that very call.
THEOREM ImplementsRpc == Spec => RpcSpec
  <1>1. Init => R!Init
      BY DEF Init, R!Init, rpcCall, rpcReply, rpcResult
  <1>2. IInv /\ [Next]_vars => [R!Next]_R!vars
      BY NextRpc
  <1> QED BY <1>1, <1>2, Inductive, PTL DEF Spec, RpcSpec, R!Spec
=============================================================================
