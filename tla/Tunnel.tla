------------------------------- MODULE Tunnel -------------------------------
(***************************************************************************)
(* One fetch after another, end to end, over one established tunnel:       *)
(*                                                                         *)
(*   service worker --postMessage--> host page --DataChannel--> gateway    *)
(*        ^                            |   ^                       |       *)
(*        +------- MessagePort --------+   +------ DataChannel ----+       *)
(*                                                                         *)
(* p2p-sw.js p2pFetch, the SW bridge and the DataChannel handlers of       *)
(* client.js buildTunnel, peer.go handleDCMessage/SendDC and proxy.go      *)
(* Handler/sendChunked.  What the upstream answers is HttpForward.tla.     *)
(*                                                                         *)
(* The host page is the tab that owns the DataChannel.  The DataChannel is *)
(* ordered and reliable while it is open (peer.go:92); what is in flight   *)
(* when an end closes is lost.                                             *)
(***************************************************************************)
EXTENDS Integers, Sequences

CONSTANTS Requests,     \* the ids of the fetches (p2p-sw.js nextID: unique)
          Lengths,      \* lengths of the bodies of the responses, in base64
          SingleMax,    \* the longest that travels in one frame (60000)
          ChunkSize,    \* what a frame of a longer one carries (16384)
          None          \* no entry

ASSUME LengthsAssumption ==
    Lengths \subseteq Nat /\ SingleMax \in Nat /\ ChunkSize \in Nat \ {0}

\* Mutant: the last chunk, which is not full, is forgotten.
ChunkCountFloor(l) == IF l <= SingleMax THEN 0 ELSE l \div ChunkSize

\* Handler and sendChunked: the chunks a body of length l is cut into; 0 stands
\* for a single frame.
ChunkCount(l) ==
    IF l <= SingleMax THEN 0 ELSE (l + ChunkSize - 1) \div ChunkSize

Sizes == {ChunkCount(l) : l \in Lengths}
Responses == [length : Lengths, chunks : Sizes, fits : BOOLEAN]

ASSUME NoneAssumption ==
    /\ None \notin Responses
    /\ None \notin [port : BOOLEAN, parts : SUBSET (Requests \X Nat)]

VARIABLES
    sw,         \* sw[r]: the promise of p2pFetch and its progress
    body,       \* body[r]: what the promise was resolved with
    toPage,     \* messages posted by the SW to the host page
    port,       \* port[r]: messages posted to ch.port2, not yet seen by port1
    page,       \* the host page: "up" or "gone" (closed, navigated away)
    pageDc,     \* ent.dc of the host page
    inflight,   \* ent.inflight: ids waiting for a response
    asm,        \* asm[r]: the entry of ent.chunked, or None
    bridged,    \* history: ids the host page's message listener has taken
    dcUp, dcDown,  \* DataChannel, page to gateway and gateway to page
    gwDc,       \* the gateway's p.dc
    gw,         \* gw[r]: the goroutine that serves r
    resp,       \* resp[r]: shape of the response of r, or None
    sent        \* sent[r]: frames of the response handed to SendDC so far

swVars   == <<sw, body>>
pageVars == <<page, pageDc, inflight, asm, bridged>>
gwVars   == <<gwDc, gw, resp, sent>>
vars     == <<swVars, pageVars, gwVars, toPage, port, dcUp, dcDown>>

Error == [kind |-> "error", parts |-> {}]

Settled(r) == sw[r] \in {"resolved", "rejected"}

(***************************************************************************)
(* Frames of a response.  A body of more than SingleMax characters is      *)
(* announced by response-start, cut into chunks and closed by response-end *)
(* and a smaller one travels in one "response" frame.                      *)
(***************************************************************************)
Frame(kind, id, n) == [kind |-> kind, id |-> id, n |-> n]

\* Mutant: the loop over the chunks is not followed by response-end.
FrameCountShort(r) == IF resp[r].chunks = 0 THEN 1 ELSE resp[r].chunks + 1

FrameCount(r) == IF resp[r].chunks = 0 THEN 1 ELSE resp[r].chunks + 2

\* Mutant: chunks numbered from the wrong end of the loop variable.
FrameAtOffByOne(r, k) ==
    IF resp[r].chunks = 0 THEN Frame("response", r, 0)
    ELSE IF k = 0 THEN Frame("start", r, resp[r].chunks)
    ELSE IF k <= resp[r].chunks THEN Frame("chunk", r, k - 2)
    ELSE Frame("end", r, 0)

\* The k-th frame (from 0) sendChunked hands to SendDC.
FrameAt(r, k) ==
    IF resp[r].chunks = 0 THEN Frame("response", r, 0)
    ELSE IF k = 0 THEN Frame("start", r, resp[r].chunks)
    ELSE IF k <= resp[r].chunks THEN Frame("chunk", r, k - 1)
    ELSE Frame("end", r, 0)

\* A body is the set of pieces it was put together from.
Piece(f) == <<f.id, f.n>>
Pieces(r, n) == {<<r, i>> : i \in 0 .. n - 1}
Whole(r) == IF resp[r].chunks = 0 THEN {<<r, 0>>} ELSE Pieces(r, resp[r].chunks)

\* The characters of the body of r, from 0, and those that piece i carries:
\* b64[i*chunkSize : end], where end is cut back to the length.
Text(r) == 0 .. resp[r].length - 1
SliceEnd(l, i) ==
    IF i * ChunkSize + ChunkSize > l THEN l ELSE i * ChunkSize + ChunkSize
Slice(r, i) ==
    IF resp[r].chunks = 0 THEN Text(r)
    ELSE i * ChunkSize .. SliceEnd(resp[r].length, i) - 1

\* Mutant: Ordered is not asked for.
DeliverUnordered(q, f) == <<f>> \o q

\* What one more message does to an ordered channel.
Deliver(q, f) == Append(q, f)

-----------------------------------------------------------------------------
(***************************************************************************)
(* Service worker.                                                         *)
(***************************************************************************)

\* p2pFetch: the promise, its 30 s timer and the call of pickClient.
Fetch(r) ==
    /\ sw[r] = "idle"
    /\ sw' = [sw EXCEPT ![r] = "picking"]
    /\ UNCHANGED <<body, pageVars, gwVars, toPage, port, dcUp, dcDown>>

\* pickClient finds the host page and the request is posted to it.
PickHost(r) ==
    /\ sw[r] = "picking"
    /\ page = "up"
    /\ sw' = [sw EXCEPT ![r] = "waiting"]
    /\ toPage' = Append(toPage, r)
    /\ UNCHANGED <<body, pageVars, gwVars, port, dcUp, dcDown>>

\* The host page is gone.  Another gateway page has no such tunnel and answers
\* with an error; another window ignores the message; with no window at all the
\* error is posted on port1, whose other end nobody listens to.
PickOther(r) ==
    /\ sw[r] = "picking"
    /\ page = "gone"
    /\ sw' = [sw EXCEPT ![r] = "waiting"]
    /\ port' \in {port, [port EXCEPT ![r] = Append(@, Error)]}
    /\ UNCHANGED <<body, pageVars, gwVars, toPage, dcUp, dcDown>>

\* Mutant: the port stays open and its handler set after the first message.
SWReceiveTwice(r) ==
    /\ sw[r] # "idle"
    /\ port[r] # <<>>
    /\ LET msg == Head(port[r])
       IN  /\ sw' = [sw EXCEPT ![r] = IF msg.kind = "response" THEN "resolved"
                                      ELSE "rejected"]
           /\ body' = [body EXCEPT ![r] = msg.parts]
    /\ port' = [port EXCEPT ![r] = Tail(@)]
    /\ UNCHANGED <<pageVars, gwVars, toPage, dcUp, dcDown>>

\* port1.onmessage: the first message settles the promise and closes the port.
SWReceive(r) ==
    /\ sw[r] \in {"picking", "waiting"}
    /\ port[r] # <<>>
    /\ LET msg == Head(port[r])
       IN  /\ sw' = [sw EXCEPT ![r] = IF msg.kind = "response" THEN "resolved"
                                      ELSE "rejected"]
           /\ body' = [body EXCEPT ![r] = msg.parts]
    /\ port' = [port EXCEPT ![r] = <<>>]
    /\ UNCHANGED <<pageVars, gwVars, toPage, dcUp, dcDown>>

\* The 30 s timer of p2pFetch.
SWTimeout(r) ==
    /\ sw[r] \in {"picking", "waiting"}
    /\ sw' = [sw EXCEPT ![r] = "rejected"]
    /\ port' = [port EXCEPT ![r] = <<>>]
    /\ UNCHANGED <<body, pageVars, gwVars, toPage, dcUp, dcDown>>

-----------------------------------------------------------------------------
(***************************************************************************)
(* Host page.                                                              *)
(***************************************************************************)

\* port.postMessage: a message to a port the SW has closed is lost.
Post(r, msg) ==
    port' = IF Settled(r) THEN port ELSE [port EXCEPT ![r] = Append(@, msg)]

\* The SW bridge's message listener, for the message at the head of the queue.
\* dc.send may throw on a channel that still reports "open".
PageBridge ==
    /\ page = "up"
    /\ toPage # <<>>
    /\ toPage' = Tail(toPage)
    /\ LET r == Head(toPage)
       IN  /\ bridged' = bridged \cup {r}
           /\ \/ /\ pageDc = "open"
                 /\ inflight' = inflight \cup {r}
                 /\ dcUp' = IF gwDc = "open" THEN Deliver(dcUp, r) ELSE dcUp
                 /\ UNCHANGED port
              \/ /\ Post(r, Error)
                 /\ UNCHANGED <<inflight, dcUp>>
    /\ UNCHANGED <<swVars, page, pageDc, asm, gwVars, dcDown>>

\* The page's own 30 s timer; an entry of ent.chunked survives it.
PageTimeout(r) ==
    /\ page = "up"
    /\ r \in inflight
    /\ inflight' = inflight \ {r}
    /\ Post(r, Error)
    /\ UNCHANGED <<swVars, page, pageDc, asm, bridged, gwVars, toPage, dcUp, dcDown>>

\* ent.chunked.set: the port is looked up when the response starts.
OpenAsm(r) == [port |-> r \in inflight, parts |-> {}]

PageStart(f) ==
    /\ f.kind = "start"
    /\ asm' = [asm EXCEPT ![f.id] = OpenAsm(f.id)]
    /\ UNCHANGED <<inflight, port>>

AddPart(c, f) == [c EXCEPT !.parts = @ \cup {Piece(f)}]

PageChunk(f) ==
    /\ f.kind = "chunk"
    /\ asm' = IF asm[f.id] = None THEN asm
              ELSE [asm EXCEPT ![f.id] = AddPart(@, f)]
    /\ UNCHANGED <<inflight, port>>

\* Mutant: the entry of ent.chunked is not deleted.
PageEndLeak(f) ==
    /\ f.kind = "end"
    /\ LET c == asm[f.id]
       IN  IF c = None
           THEN UNCHANGED <<asm, inflight, port>>
           ELSE /\ inflight' = inflight \ {f.id}
                /\ IF c.port
                   THEN Post(f.id, [kind |-> "response", parts |-> c.parts])
                   ELSE UNCHANGED port
                /\ UNCHANGED asm

\* Nothing compares c.received with c.chunks.
PageEnd(f) ==
    /\ f.kind = "end"
    /\ LET c == asm[f.id]
       IN  IF c = None
           THEN UNCHANGED <<asm, inflight, port>>
           ELSE /\ asm' = [asm EXCEPT ![f.id] = None]
                /\ inflight' = inflight \ {f.id}
                /\ IF c.port
                   THEN Post(f.id, [kind |-> "response", parts |-> c.parts])
                   ELSE UNCHANGED port

\* Mutant: the entry is deleted before the port is looked up.
PageSingleLost(f) ==
    /\ f.kind = "response"
    /\ inflight' = inflight \ {f.id}
    /\ UNCHANGED <<asm, port>>

PageSingle(f) ==
    /\ f.kind = "response"
    /\ IF f.id \in inflight
       THEN /\ inflight' = inflight \ {f.id}
            /\ Post(f.id, [kind |-> "response", parts |-> {Piece(f)}])
       ELSE UNCHANGED <<inflight, port>>
    /\ UNCHANGED asm

\* dc.onmessage of the host page.
PageFrame ==
    /\ page = "up"
    /\ pageDc = "open"
    /\ dcDown # <<>>
    /\ dcDown' = Tail(dcDown)
    /\ LET f == Head(dcDown)
       IN  PageStart(f) \/ PageChunk(f) \/ PageEnd(f) \/ PageSingle(f)
    /\ UNCHANGED <<swVars, page, pageDc, bridged, gwVars, toPage, dcUp>>

\* dc.onclose, or the third unanswered ping: the tunnel leaves the map, the
\* calls in flight stay in ent.inflight until their timers fire.
PageClose ==
    /\ page = "up"
    /\ pageDc = "open"
    /\ pageDc' = "closed"
    /\ dcDown' = <<>>
    /\ UNCHANGED <<swVars, page, inflight, asm, bridged, gwVars, toPage, port, dcUp>>

\* The tab is closed or navigates away: its timers and ports go with it.
PageGone ==
    /\ page = "up"
    /\ page' = "gone"
    /\ pageDc' = "closed"
    /\ toPage' = <<>>
    /\ inflight' = {}
    /\ asm' = [r \in Requests |-> None]
    /\ dcDown' = <<>>
    /\ UNCHANGED <<swVars, bridged, gwVars, port, dcUp>>

-----------------------------------------------------------------------------
(***************************************************************************)
(* Gateway.                                                                *)
(***************************************************************************)

\* handleDCMessage: one goroutine per request.
GwRecv ==
    /\ gwDc = "open"
    /\ dcUp # <<>>
    /\ gw' = [gw EXCEPT ![Head(dcUp)] = "proxying"]
    /\ dcUp' = Tail(dcUp)
    /\ UNCHANGED <<swVars, pageVars, gwDc, resp, sent, toPage, port, dcDown>>

\* forwardHTTP returned; an error is answered too, as a 502.  "fits" says
\* whether the frame that carries the headers is one SendText accepts.
GwReply(r) ==
    /\ gw[r] = "proxying"
    /\ gw' = [gw EXCEPT ![r] = "sending"]
    /\ \E l \in Lengths, fits \in BOOLEAN :
          resp' = [resp EXCEPT ![r] =
                     [length |-> l, chunks |-> ChunkCount(l), fits |-> fits]]
    /\ UNCHANGED <<swVars, pageVars, gwDc, sent, toPage, port, dcUp, dcDown>>

\* SendDC: one frame under sendMu, silently skipped when the channel is not
\* open or SendText refuses the frame.
SendDC(r, k) ==
    dcDown' = IF /\ gwDc = "open" /\ pageDc = "open"
                 /\ k = 0 => resp[r].fits
              THEN Deliver(dcDown, FrameAt(r, k))
              ELSE dcDown

GwSend(r) ==
    /\ gw[r] = "sending"
    /\ SendDC(r, sent[r])
    /\ sent' = [sent EXCEPT ![r] = @ + 1]
    /\ gw' = IF sent'[r] = FrameCount(r) THEN [gw EXCEPT ![r] = "done"] ELSE gw
    /\ UNCHANGED <<swVars, pageVars, gwDc, resp, toPage, port, dcUp>>

\* Peer.Close on the gateway: what it had not read is gone.
GwClose ==
    /\ gwDc = "open"
    /\ gwDc' = "closed"
    /\ dcUp' = <<>>
    /\ UNCHANGED <<swVars, pageVars, gw, resp, sent, toPage, port, dcDown>>

-----------------------------------------------------------------------------
Init ==
    /\ sw = [r \in Requests |-> "idle"]
    /\ body = [r \in Requests |-> {}]
    /\ toPage = <<>>
    /\ port = [r \in Requests |-> <<>>]
    /\ page = "up"
    /\ pageDc = "open"
    /\ inflight = {}
    /\ asm = [r \in Requests |-> None]
    /\ bridged = {}
    /\ dcUp = <<>>
    /\ dcDown = <<>>
    /\ gwDc = "open"
    /\ gw = [r \in Requests |-> "none"]
    /\ resp = [r \in Requests |-> None]
    /\ sent = [r \in Requests |-> 0]

SWNext(r) == Fetch(r) \/ PickHost(r) \/ PickOther(r) \/ SWReceive(r) \/ SWTimeout(r)

Next ==
    \/ \E r \in Requests : SWNext(r) \/ PageTimeout(r) \/ GwReply(r) \/ GwSend(r)
    \/ PageBridge \/ PageFrame \/ PageClose \/ PageGone
    \/ GwRecv \/ GwClose

\* Timers fire, event loops and goroutines run, the upstream answers within the
\* client's own timeout (proxy.go:514).  Nothing is assumed of the user, of the
\* network or of either end closing.
Fairness ==
    /\ WF_vars(PageBridge)
    /\ WF_vars(PageFrame)
    /\ WF_vars(GwRecv)
    /\ \A r \in Requests :
          /\ WF_vars(PickHost(r) \/ PickOther(r))
          /\ WF_vars(SWReceive(r))
          /\ WF_vars(SWTimeout(r))
          /\ WF_vars(PageTimeout(r))
          /\ WF_vars(GwReply(r))
          /\ WF_vars(GwSend(r))

\* A page notices within three pings that the gateway is gone (client.js:584).
PingFairness == WF_vars(gwDc = "closed" /\ PageClose)

Spec == Init /\ [][Next]_vars
FairSpec == Spec /\ Fairness /\ PingFairness

-----------------------------------------------------------------------------
(***************************************************************************)
(* Properties.                                                             *)
(***************************************************************************)
Messages == [kind : {"error", "response"}, parts : SUBSET (Requests \X Nat)]
Frames   == [kind : {"response", "start", "chunk", "end"}, id : Requests, n : Nat]

\* Every variable has its type.
TypeOK ==
    /\ sw \in [Requests -> {"idle", "picking", "waiting", "resolved", "rejected"}]
    /\ body \in [Requests -> SUBSET (Requests \X Nat)]
    /\ toPage \in Seq(Requests)
    /\ port \in [Requests -> Seq(Messages)]
    /\ page \in {"up", "gone"}
    /\ pageDc \in {"open", "closed"}
    /\ inflight \subseteq Requests
    /\ asm \in [Requests -> {None} \cup [port : BOOLEAN, parts : SUBSET (Requests \X Nat)]]
    /\ bridged \subseteq Requests
    /\ dcUp \in Seq(Requests)
    /\ dcDown \in Seq(Frames)
    /\ gwDc \in {"open", "closed"}
    /\ gw \in [Requests -> {"none", "proxying", "sending", "done"}]
    /\ resp \in [Requests -> {None} \cup Responses]
    /\ \A r \in Requests : resp[r] # None => resp[r].chunks = ChunkCount(resp[r].length)
    /\ sent \in [Requests -> Nat]

\* A promise is resolved with exactly the response of its own request: no chunk
\* is missing, none is of another fetch, although frames of several responses
\* interleave on the channel, either timer may fire between two of them, and
\* response-end is accepted without counting the chunks (client.js:628-632).
\* And its pieces, joined in the order of their indices, are the body: each
\* character is in a slice, in its place, and no slice starts behind the end,
\* where Go would panic, at whatever length (proxy.go:76, 464, 487-494).
Joined(r) ==
    /\ UNION {Slice(r, p[2]) : p \in body[r]} = Text(r)
    /\ \A p, q \in body[r] : p[2] < q[2] =>
          \A c \in Slice(r, p[2]), d \in Slice(r, q[2]) : c < d
    /\ \A p \in body[r] : p[2] * ChunkSize <= resp[r].length
Integrity ==
    \A r \in Requests : sw[r] = "resolved" =>
        resp[r] # None /\ body[r] = Whole(r) /\ Joined(r)

\* A request the host page has taken is never silently forgotten while the page
\* lives: it is in ent.inflight (and its timer will fire), or an answer is on
\* its way to the SW, or the SW has settled it (client.js:622-634, 669-673).
NeverSilent ==
    page = "up" =>
        \A r \in bridged : r \in inflight \/ port[r] # <<>> \/ Settled(r)

\* While both ends of the channel are open, a request the page waits for, and
\* a response it is putting together, has something to come that ends it: the
\* request is on its way, a goroutine works on it, or its last frame is on the
\* channel.  Only a response whose first frame SendText refused leaves the
\* page with its timer alone (peer.go:254-264, client.js:615-634).
LastFrame(r) == FrameAt(r, FrameCount(r) - 1)
Asked(r)  == \E i \in DOMAIN dcUp : dcUp[i] = r
Ending(r) == \E i \in DOMAIN dcDown : dcDown[i] = LastFrame(r)
OnItsWay(r) == Asked(r) \/ gw[r] \in {"proxying", "sending"} \/ Ending(r)
Refused(r) == resp[r] # None /\ ~resp[r].fits
NoneStranded ==
    pageDc = "open" /\ gwDc = "open" =>
        \A r \in Requests : /\ r \in inflight => OnItsWay(r) \/ Refused(r)
                            /\ asm[r] # None => OnItsWay(r)

\* The fetch is the remote call of Rpc.tla: settled once and for all, served at
\* most once, and answered only with all the gateway has replied to that very
\* request, whatever happens to page, channel, gateway and timers meanwhile.
Replies == {Pieces(r, n) : r \in Requests, n \in (Sizes \cup {1}) \ {0}}
rpcCall == [r \in Requests |->
              CASE sw[r] = "idle" -> "idle"
                [] sw[r] = "resolved" -> "answered"
                [] sw[r] = "rejected" -> "failed"
                [] OTHER -> "pending"]
rpcReply == [r \in Requests |-> IF resp[r] = None THEN {} ELSE Whole(r)]
rpcResult == [r \in Requests |-> IF sw[r] = "resolved" THEN body[r] ELSE {}]

R == INSTANCE Rpc WITH call <- rpcCall, reply <- rpcReply, result <- rpcResult,
                       Nothing <- {}
RpcSpec == R!Spec

\* Nothing is left of a fetch in the end: it is settled (p2p-sw.js:307), its
\* entry of ent.inflight leaves, and a half-received response, also one that
\* outlived it, is completed unless the channel dies under it
\* (client.js:622-633, 673).
Drains ==
    /\ R!Settles
    /\ \A r \in Requests :
        (r \in inflight \/ asm[r] # None) ~>
            (r \notin inflight /\ (asm[r] = None \/ pageDc = "closed"))
=============================================================================
