# p2p-gateway in TLA+

A browser opens a page of the gateway, which connects to it over WebRTC; a
service worker sends the browser's HTTP requests through that DataChannel and
the gateway forwards them to the target. The modules here model that program as
its code has it, TLC checks them on small instances, and TLAPS proves the
central properties for all instances.

    tlc -config MCTunnel.cfg MCTunnel        model-check one configuration
    tlapm TunnelProofs.tla                   check the proofs of a module

## The system

| Part | Code | State | Operations |
|------|------|-------|------------|
| Service worker | `web/files/p2p-sw.js` | promise, timer and MessageChannel of each fetch; `readyByClient`, `targetByClient`, `readyHostByTarget` | `fetch` handler, `p2pFetch`, `wsTunnel`, `pickClient`, `dc-state` and `target` messages |
| Host page | `web/files/client.js` | `tunnels`: per target the socket, the PeerConnection, the DataChannel, `inflight`, `chunked`, `wsStreams`, timers; `localStorage` maps of tunnels and live tabs | `buildTunnel` and its callbacks, the SW bridge, ping, `ensureTunnel`, prune, probe, takeover |
| Signaling hub | `internal/signaling/hub.go` | rooms of peers; per peer `Send`, `Inbox`, `closed`, the connection | `ServeWS`, `readPump`, `writePump`, `broadcast`, `Close` |
| Gateway peer | `internal/webrtc/peer.go`, `cmd/gateway/main.go` | `Manager.peers`; per peer the inbox, `closed`, the target, `wsStreams`, pion's PeerConnection and DataChannel | `HandleSignalingPeer`, signaling loop, pion callbacks, `handleDCMessage`, `SendDC`, `Close` |
| Proxy | `internal/proxy/proxy.go` | per request the redirect loop; per WebSocket stream the upstream connection | `Handler`, `forwardHTTP`, `sendChunked`, `handleWSOpen` and its pump |
| Target resolution | `cmd/gateway/main.go`, `internal/routing` | none | `resolveTarget`, `Resolver.Resolve` |

How they interact. A page opens `/p2p/signal`; `ServeWS` adds the connection to
the room, queues the `join` message with its id, and calls `onPeer`, in which the
WebRTC layer creates the PeerConnection, queues an offer and starts the signaling
loop. Only then do `writePump` and `readPump` run. The page answers over the same
socket; `readPump` hands what it says to the loop through the peer's inbox. Once
the channel is open, a fetch goes service worker -> (postMessage) host page ->
(DataChannel) gateway -> upstream, and the response comes back in one frame, or
cut into chunks, to the MessagePort that came with the request. On the gateway
every request has a goroutine, and so have every signaling loop, every pump, every
WebSocket stream, every connection-state handler and every "drop slow peer".

What is hard about it:

- goroutines that send on a Go channel others close. Such a send panics, also in
  a `select` with a `default`. In a handler goroutine of `net/http` the panic is
  recovered and one connection stops half way; in any other it ends the process;
- `Peer.Close` (WebRTC) runs concurrently in up to four goroutines, and releases
  its lock before it closes the PeerConnection and the socket;
- two independent 30 s timers for one request, a late answer, chunks that go on
  arriving after either, and an abrupt end of the channel, the tab or the peer;
- redirect chains whose single steps are allowed;
- WebSocket streams registered only after a dial that takes up to 10 s, while
  `ws-close`, the upstream's own close and the sweep of `Peer.Close` may come at
  any point;
- tunnels a page builds one after another under one key, whose callbacks and delayed
  clean-ups act on the map by that key, whichever tunnel is there by then;
- one registry in `localStorage` that all tabs write, take over, prune and probe, with
  timers the browser slows down and tabs that crash;
- three maps of the service worker, filled and emptied by messages and fetches of
  several tabs, read again after every wait, and lost when the browser stops the worker.

What makes each part correct is stated property by property under "The modules".
Everything that is hard to test, with its line, is in `PROJECT.json`, "hazards".

## The modules

| Module | Models | Runs |
|--------|--------|------|
| `Rpc` | the abstract promise of a fetch | refined by `Tunnel` in `tunnel` |
| `Tunnel` | one fetch after another over one tunnel, end to end | `tunnel` |
| `TunnelProofs` | theorems about `Tunnel` | |
| `HttpForward` | `forwardHTTP` | `forward` |
| `HttpForwardProofs` | theorems about `HttpForward` | |
| `Hub` | the signaling hub | `hub` |
| `HubProofs` | theorems about `Hub` | |
| `PeerLifecycle` | a gateway peer composed with the hub; refines `Hub` | `peer`, `peer_candidate`, `peer_inbox` |
| `PeerLifecycleProofs` | theorems about `PeerLifecycle`, the refinement of `Hub` among them | |
| `WsBridge` | the WebSocket streams of a gateway peer | `ws_bridge`, `ws_close` |
| `WsBridgeProofs` | theorems about `WsBridge` | |
| `ServiceWorker` | which tab and tunnel a fetch goes to | `service_worker` |
| `ServiceWorkerProofs` | theorems about `ServiceWorker` | |
| `PageTunnel` | the tunnels one page builds to one target | `page_tunnel`, `page_listed` |
| `PageTunnelProofs` | theorems about `PageTunnel` | |
| `TunnelRegistry` | the registry the pages of a browser share | `tunnel_registry` |
| `TunnelRegistryProofs` | theorems about `TunnelRegistry` | |
| `MC*` | the instances TLC checks | |

### Tunnel and Rpc

`sw[r]` is the promise of `p2pFetch`, `port[r]` the messages on their way from the
page to it, `inflight` and `asm` are `ent.inflight` and `ent.chunked`, `dcUp` and
`dcDown` the two directions of the DataChannel, `gw[r]` the goroutine that serves
`r`. `Fetch`, `PickHost`/`PickOther`, `SWReceive` and `SWTimeout` are `p2pFetch`
and `pickClient`; `PageBridge` and `PageTimeout` the SW bridge; `PageFrame` is
`dc.onmessage`, with one operator per frame type; `PageClose` is `dc.onclose` and
the third unanswered ping; `GwRecv`, `GwReply`, `GwSend` are `handleDCMessage`,
`Handler` and `sendChunked`/`SendDC`, one frame per step because other goroutines
send between two frames. `SendDC` drops a frame when the channel is not open or
refuses it, as the code does, without telling anyone.

`resp[r]` is the announcement of a response: the length of its base64 body and the number
of chunks. `ChunkCount` and `Slice` are the arithmetic of `Handler` and `sendChunked`: a body
of at most `SingleMax` characters travels in one frame, a longer one in slices of
`ChunkSize`, the last cut back to the length.

`Integrity`: a promise is resolved only with the whole response of its own request,
although chunks of several responses interleave and nothing counts them, and its pieces,
joined by their indices as the page does, are the body: every character once and in its
place (`Joined`).
`NeverSilent`: a request the live page has taken is in `inflight`, or answered, or
settled. `NoneStranded`: while both ends of the channel are open, what the page waits for
or has half put together has its last frame still to come; only a response whose first
frame the channel refused leaves it to the timer. `Drains`: every fetch is settled in the
end, and entries of the page's two tables leave them.

`Rpc` has three variables per call: what the caller sees of it, what the upstream has
replied, what the caller was given. `rpcCall`, `rpcReply` and `rpcResult` read them off
the promise and the gateway's response. `RpcSpec`: under this mapping the fetch implements
`Rpc`; it is settled once and for all, and answered only with what the gateway has replied
to that very request.

The DataChannel is external. It is FIFO and loses nothing while both ends are open
(`Ordered: true`, peer.go:92); a close of either end loses what is on the wire.
The tab may die at any moment.

### HttpForward

One round of the loop is `DoOK` or `DoError` (the request), then `Break`, `Block` or
`Follow`; `Finish` is the code after the loop. A URL is scheme, host and port, a
`Location` what it resolves to. `OnlyTheTarget`, `BodyWithItsMethod`, `NoBodyLeak`
and `Bounded` speak of whole chains of redirects through the history `contacted`.

### Hub

`serve[p]` is where the goroutine of a connection stands, from `ServeWS` to the end of
`readPump`; `cast[p]` the peers its running `broadcast` has still to reach, because
the code takes its snapshot under the lock and sends without it; `slow` the started
`go p.Close()`. `JoinPanics`, `OnPeerPanics`, `OnMessagePanics` and `CastPanics` are
the sends on closed channels, each with what the deferred calls of its goroutine
still do. The WebRTC layer is an environment: `TrySend`, `CloseSignaling`,
`OnMessagePanics`. `NothingLeftBehind` and `Departs` say what remains of a connection.

### PeerLifecycle

Extends `Hub`: its actions are actions of the hub joined with changes of the WebRTC
layer, or leave the hub alone, and `HubSpec` is checked as a property, so the
composition uses the hub only as its environment may. `setup[p]` follows
`HandleSignalingPeer` and its caller; `at[p][t]` is where goroutine `t` (the loop, or
the handler of one connection state) stands in `Peer.Close`, one step per lock
section or call. `TargetBeforeTraffic`, `IdBeforeOffer` and `TornDown`
are about orders no single function guarantees: for instance the target is set
after the offer is queued, and is there in time only because `writePump` starts later.
`NothingSurvives` is what `TornDown` promises in the end, as a state: at most one goroutine
runs the body of `Close` (`OneCloser`), and when its flag is set and none of the
goroutines that call it is at work, nothing of the peer is left.

A panic outside `ServeWS` ends the process; `fault` records it and nothing happens
afterwards. `CandidateIsDropped` shows that this happens. `LoopUnblocks` is what the comment
at the end of `readPump` says: that the hub's `Close` of a peer ends the loop of the WebRTC
layer. It does not (hub.go:45-59 closes `Send` and the connection; the loop reads the inbox of
the WebRTC peer, which only that peer's own `Close` closes), so only a change of the
connection state ends the loop, and none comes when the browser has left before its answer.
`TornDown` and `NothingSurvives` begin where the WebRTC peer's `Close` has begun.

### WsBridge

`bridge[s]` is the goroutine of `handleWSOpen`, `wsStreams` the map, `out[s]` what was
sent to the client. Each critical section of `p.mu` is an action. The client is any
client of the protocol documented in proxy.go:13-18 that opens an id once and asks for
its close once. `FrameOrder` and `Reachable` state what the documented frames
promise and that no stream is lost between the map and its goroutine, `Concluded` that an
open is answered and that streams whose upstream or peer is gone are collected.

### ServiceWorker

`ready`, `targetOf` and `hostOf` are `readyByClient`, `targetByClient` and
`readyHostByTarget`; `open[p]` are the tunnels page `p` really has, which the maps only
hear of through `mail`. `DcOpens`, `DcCloses` and `Repeats` (the later attempts of
`notifySWForKey`) send `dc-state`; `DropsTunnel` and `Leaves` change `open` without a word.
`Message` is the worker's handler, `Restart` a stop and start of the worker while it is
idle. A fetch is `Probe` (a page names a target), `Fetch` or `Navigate`; `Handle` is the
synchronous part up to the choice of the target, `Look` what follows `clients.get`,
`Tick` the waiting loop, `Pick` `pickClient`, `Bridge` the page's listener, `Timeout` the
timer of `p2pFetch`. `Route` is shared by all paths, because the code repeats it on each.

`HostsAreReady`: the two maps of tunnels do not come to disagree. `NoCrossRouting`: a
document with a target in its URL is served only through tunnels of targets it has named
(history `named`); the fallback to "the only tunnel there is" never reaches it, not even
after the worker has forgotten everything. `NeverBack`: whatever changes in the maps
between two of its steps, each step of a fetch lowers `Distance`, a bound on the steps to
its answer, and changes neither its client nor a target it has. `Answered`: every fetch is
settled.

`Pick` may choose any live tab when the host is gone, where the code prefers the one that
reported last: a superset. Deaths of documents are left out, since their requests die
with them. The model also has, and no property refutes, that after a restart of the
worker nobody reports the open tunnels again (`dc-state` is sent on `onopen` and
`onclose` only), so documents are answered with 503 until a tunnel is rebuilt, and that
a probe by a tab with another tunnel makes it the host of a target it has no tunnel for.

### PageTunnel

`ws[e]`, `pc[e]`, `dc[e]` are the socket, the PeerConnection and the channel of the tunnel
`e`, `listed` is `tunnels.get(k)`, `entry` the page's own entry of the registry, `touching`
the running touchTimers, `missed[e]` the ping timer's `failCount` and `pingPending`, `late`
the pending `setTimeout`s of `ws.onclose` and of "disconnected". `Ensure` is `ensureTunnel`
up to its probe, `CheckEnds` what follows it, `Build` `buildTunnel`; the other actions
have the names of the callbacks and timers. A callback belongs to its tunnel and acts
on `listed` and `entry`, as the code's closures do on the key. `pending` and `navigated`
are the window that Connect opens before there is a tunnel (`openTargetTab`, `switchTarget`).
The tunnel's messages are in `PeerLifecycle`, its frames in `Tunnel`.

`DeadIsSwept`: a dead tunnel in the map always has a clean-up on its way. `NoneWaits`: the
window never stays blank beside an open tunnel of the map. `Kept`: an open tunnel of the
map is not thrown out by the leftovers of earlier ones, but for its `Rival`s: another
tunnel that is still connected, whose channel or connection ends by the key, a clean-up of
a "disconnected", or a probe that is awaited; these do throw it out, as was found by
stating the property without them. `Noticed`: lost pings are
answered later or end the channel. `StaysWithdrawn`: once the entry of no tunnel is gone it
stays so until a tunnel is built or opens, or a probe ends, whatever late timers do. That
entries come and go is `Heals` and `Purged` of the registry.
`OpenIsListed` fails: a clean-up takes a tunnel out of the map that opens afterwards.

### TunnelRegistry

`reg[k]` is the entry of `p2p-tunnels`, `kept` the pages whose `p2p-keepers` stamp is fresh,
`tun[p][k]` the tunnel in page `p`'s map, `ask[p]` and `probe[p]` the two places that await
a probe, with what they have read before it, `pongs` the BroadcastChannel. `Held` is the
test `touchTunnel` and `clearTunnel` make; `setTunnelReady` (`Opens`), the write after a failed
probe (`NotShared`, `ProbeFails`) and pruning (`Stale`) make none. A JavaScript
task is one step, since tabs of one origin see each other's `localStorage` between tasks;
an await ends a task.

`ReadyWasOpen`: nothing makes up a ready entry of a target no channel was ever open for.
`Respected`: the entry of a living page that serves a target is taken or removed only by
another channel's opening, by a page that waited for a probe, or by a page whose own
tunnel had died. These three are ways in which the code does take it: they were found by
stating the property without them. `Heals`: in each case the entry comes back, or a
page is building a tunnel. `Purged`: the entry of a target without a tunnel goes, unless
a page the service worker does not control keeps it alive: its probes are answered
by the gateway's own page (`Served`), with 200. `StaysPurged`: once gone it does not
come back while no page has a tunnel, except from a page that waited for a probe and
writes what it had read before it.

## The runs

Passing runs, their bounds, and why these are enough:

| Run | Shows | Bounds | What the bounds allow |
|-----|-------|--------|-----------------------|
| `tunnel` | `TypeOK`, `Integrity`, `NeverSilent`, `NoneStranded`, `RpcSpec`, `Drains` | 2 fetches; chunks of 2 characters, bodies of 2 (one frame, the limit) and 3 (2 chunks) | frames of two responses interleave, a body may lose one chunk and keep another, an id may be confused, one response stays half received while the other proceeds; a last chunk that is full is left to the proof, for every length |
| `forward` | `TypeOK`, `OnlyTheTarget`, `BodyWithItsMethod`, `NoBodyLeak`, `Bounded` | 2 hosts, 2 ports, 3 schemes, 3 methods, limit 2 | foreign host, foreign port, two changes of scheme, the limit reached and passed |
| `ws_bridge` | `TypeOK`, `FrameOrder`, `Reachable`, `Concluded` | 2 streams, 1 message per stream and direction | two streams at different stages when `ws-close`, the upstream or the sweep comes |
| `hub` | `NothingLeftBehind`, `Departs` | 2 peers, `Send` of 1, `Inbox` of 1 | one peer broadcasts into the other at every stage, `Send` and `Inbox` full |
| `peer` | `TypeOK`, `TargetBeforeTraffic`, `IdBeforeOffer`, `NothingSurvives`, `HubSpec`, `TornDown` | 1 peer, `Send` of 2, 1 local candidate, loop inbox of 1 | the loop and all three state handlers in `Close` at once, a full inbox |
| `service_worker` | `TypeOK`, `HostsAreReady`, `NoCrossRouting`, `NeverBack`, `Answered` | 2 pages, one with tunnels to 2 targets, the other to 1 of them; 1 document, 1 fetch at a time, 1 message on its way, 2 looks | two hosts of one target, two tunnels in one tab, stale and repeated messages, a host that dies at every stage of a fetch, restarts |
| `page_tunnel` | `TypeOK`, `DeadIsSwept`, `NoneWaits`, `Kept`, `StaysWithdrawn`, `Noticed` | 2 tunnels one after the other, 2 lost pings (3 in the code) | every callback and late clean-up of the old tunnel at every stage of the new one |
| `tunnel_registry` | `TypeOK`, `ReadyWasOpen`, `Respected`, `StaysPurged`, `Purged`, `Heals` | 2 pages, 1 target | owner and taker, both probing, both controlled or not, crash or freeze of either at every step |

`HubTypeOK` is a conjunct of the `TypeOK` of `peer`. `peer` has one peer: that nothing another connection broadcasts comes before its "join"
is `IdComesFirst`, proved for any number. Keys of the registry meet only in the loops that
go through all entries (`StartProbe`, `Prune`): two of them are left to the proofs.

The named bounds are `MaxRedirects` (10 in the code), `SendCap` (128), `InboxCap` and
`LoopCap` (64), `MaxTries` (20), `MaxFails` (3), `SingleMax` (60000), `ChunkSize` (16384), `MaxCandidates`, `MaxData`, `Lengths`,
`MaxMail`, `Connects`. The first eight are constants of the code made small, the others bound the
environment. Deadlock is checked in `service_worker` only: in the other models the
environment may stop, and a finished system is quiet.

Runs that TLC finds violated show where a comment or the protocol's description and
the code disagree:

| Run | What is said | What the code does |
|-----|--------------|--------------------|
| `ws_close` | `ws-close` is answered by `ws-closed` (proxy.go:17-18) | lost while the dial is running; the stream opens and stays |
| `peer_candidate` | "dropping candidate" (peer.go:125) | a closed `Send` ends the process |
| `peer_inbox` | "Closing the peer also closes Inbox so WebRTC loops unblock" (hub.go:198) | nothing ends the loop of a peer whose browser leaves before its answer |
| `page_listed` | the status "Ready" (client.js:552) | the tunnel was taken out of the map before it opened, so the service worker's requests find none (client.js:662) |

Without a run: the client's `ws-data` is sent back to the client (proxy.go:100, peer.go:491-497),
where proxy.go:348 says that the upstream is bridged to the DataChannel; `WsBridge` has these
echoes in `out[s]`. "Inbox is unbuffered" (hub.go:138) stands over a channel of 64. A stream
registered after the sweep of `Peer.Close` outlives the peer until its upstream closes it, a
peer whose set-up failed half way goes on filling an inbox nobody reads, and a tab the
service worker does not control can keep the entry of a lost tunnel for ever; no line says
otherwise. "within the same origin" (proxy.go:160) overstates `OnlyTheTarget`, since
the code compares host names only (proxy.go:268), and follows a redirect to another port.

## Fairness

Goroutines and event loops that can run do run (weak fairness of each one's actions),
JavaScript timers fire, a dial ends (`HandshakeTimeout`, proxy.go:385) and so does a
request to the upstream (`Timeout`, proxy.go:514), and a page whose gateway is gone
notices by its third ping (`PingFairness`). Calls of the worker to the browser
(`clients.get`) are answered, and redirects followed. Nothing is assumed of users, upstreams,
pion's candidates and connection states, or of either end closing. In
`PageTunnel` only the ping timer of an open channel need fire. In `TunnelRegistry`
timers of open pages run, the keeper of a page that is gone lapses, entries expire and
messages arrive; a page may freeze for any time, and nobody need open a tunnel. In
`PeerLifecycle` fairness ends with the process (`Alive`).

## The proofs

`TunnelProofs` proves `TypeOK`, `Integrity`, `NeverSilent`, `NoneStranded` and `RpcSpec` for
any set of requests, bodies of any lengths and any limits of a frame. None of the invariants
but the first is inductive. `IInv` adds

- `Wire`: every frame on the channel is one of those its response is made of, has
  been sent, and frames of one response are in the order they were sent;
- `Assembly(r)`: an entry of `ent.chunked` holds exactly the pieces of the frames
  that have been taken from the channel, and no more are missing than are still on it;
- `Stage(r)`: how far the service worker, the page and the gateway are with `r` agree;
- `Posted(r)`: a response waiting in a MessagePort is whole.

The hard case is `response-end`: by `Wire`, when it is at the head all chunks before it
have been taken, so by `Assembly` the entry, if there is one, is complete. Losing the
channel empties `dcDown` and closes it for good, which is why a gap never becomes
a whole body. That the slices of a whole body are that body (`WholeJoined`) is arithmetic on
top of this: by `CeilDivision` the last slice begins before the end of the body and ends
with it.

`NoneStranded` needs `Strand(r)` on top of `IInv`: while the channel is linked, a request
without a goroutine is still on `dcUp` (`Underway`), and when its goroutine is done its last
frame is on `dcDown`, or the page has nothing left of it and no frame of it is to come
(`Finished`). That taking the last frame does end everything is again `Wire`: no frame of
the same response is behind it.

For `RpcSpec` each step is shown to be one of `Rpc` or to change none of the mapped
variables (`NextRpc`). `Answer` is where `IInv` is needed: the body a promise is resolved
with is, by `Posted`, that of the gateway's whole response, which is there because only
`GwReply`, the `Serve` of `Rpc`, can have started it, and is never changed again.

`HttpForwardProofs` proves the five invariants of `HttpForward` for any hosts, ports,
methods and any limit. The strengthening ties the loop's locals to the history: what
is about to be requested is allowed, the open body is that of the current hop, and
the history is as long as the counter.

`HubProofs` proves `HubTypeOK` and `NothingLeftBehind` for any number of connections
and any capacities. `Ends` is the strengthening: a closed peer has lost its
connection for good, which needs `Unknown`, that nobody knows a peer that has not
connected yet (its `conn` may still become "up").

`PeerLifecycleProofs` proves that every step of the composition is a step of the hub
or leaves it alone, so `Spec => HubSpec` and what is proved of the hub carries over;
and `TypeOK`, `TargetBeforeTraffic`, `IdBeforeOffer` and `OneCloser`, for any number of
peers, capacities and candidates. `LifeInv` adds, per peer,

- `Untouched`: until it is set up, or setting it up has failed, nothing closes it;
- `Managed`: hence `SetTarget` finds in the map what `AddPeer` put there, and a peer
  that is ready has a target;
- `Handshake`: the offer leaves the queue only when `writePump` runs, which is after
  the setup, and an answer, wherever it is on its way, comes after the offer;
- `Introduced`: "join" leads the `Send` queue or has arrived, whatever broadcasts
  other connections append;
- `ClosesOnce`: whoever runs the body of `Close` has set the flag.

`NothingSurvives` is `OneCloser` and what is left; the latter needs `TornApart`, which ties each stage of the one goroutine that runs
the body of `Close` to what it has closed by then: the flag is set, hence some goroutine
is at one of these stages or has passed the last, and what is closed stays so
(`StaysClosed`), against all that the hub, pion and the other closers still do; and a peer
in the manager has a loop that has yet to remove it.

`WsBridgeProofs` proves `TypeOK`, `Reachable` and `FrameOrder` for any number of streams and
messages. For `Reachable` only `Dialed` (past the dial there is a connection) has to be
added. For `FrameOrder` it is `Stage`: before the answer a stream has nothing but echoes of
its client's data, in the pump it has its answer and nothing that ends it.

`PageTunnelProofs` proves `TypeOK`, `DeadIsSwept`, `NoneWaits`, `Kept` and `StaysWithdrawn` for
any number of tunnels and any limit. The first two are inductive, given `TypeOK`. `NoneWaits` needs `Unbuilt`, that a
tunnel which is not built yet has no connection, so that the one `Build` lists is not
open; `pending` is set only when no open tunnel is listed, and whatever opens one takes
the window. `StaysWithdrawn` needs `TouchedBySocket`, that a touch timer runs no longer than
its tunnel's socket: without a socket or a channel nothing is left that touches the entry.

`TunnelRegistryProofs` proves `TypeOK`, `ReadyWasOpen`, `Respected` and `StaysPurged` for any pages
and targets.
`ReadyWasOpen` needs that open tunnels (`TunOpened`), the map and the target of a call that
waits (`AskOpened`), the owners a round has read (`RoundOpened`) and pongs on their way
(`PongOpened`) are all of targets some channel was open for: each of them may write a
ready entry later. `Respected` and `StaysPurged` need that a round never comes to ask the
same key twice (`RoundDone`), so that its step always changes it.

`ServiceWorkerProofs` proves `TypeOK`, `HostsAreReady`, `NoCrossRouting` and `NeverBack` for any
number of pages, documents, targets and fetches at a time; the run has one fetch at a time.
`NeverBack` is the half of `Answered` that is not about fairness: `Distance` is a natural
number, lowered by each step of a fetch and untouched by those of everybody else. It uses
that a fetch is redirected at most once, because a redirected one names its target, and
that one whose client is looked up has no target yet (`Complete`).
`HostsAreReady` is inductive. `RoutingInv` is the strengthening of `NoCrossRouting`:

- `Alone`: a document that is being navigated to has no other request, so the redirect
  that gives it a URL finds none with a guessed target;
- `Fresh`: a document nobody has opened is unknown to the worker;
- `Own`: once it has a URL with a target, what the worker holds for it and what its
  requests are routed to is named.

The assumptions are those named in the modules (`LengthsAssumption`, `NoneAssumption`,
`MaxRedirectsAssumption`, `MethodsAssumption`, `CapsAssumption`,
`LifecycleAssumption`, `MaxDataAssumption`, `RoutingAssumption`, `PageAssumption`,
`RegistryAssumption`). Only model-checked: all liveness
properties (`Drains`, `Departs`, `TornDown`, `Concluded`, `Answered`, `Noticed`, `Purged`,
`Heals`), which are out of the
prover's reach. The safety half of some of them is proved: `NoneStranded` of `Drains`,
`NothingSurvives` of `TornDown`, `NeverBack` of `Answered`, `StaysPurged` of `Purged`.

## Not modelled

- the browser end of a WebSocket stream (`wsTunnel`, `ent.wsStreams`): browsers do not hand
  WebSocket handshakes to a service worker, so no execution reaches it. Read as it stands
  it could not work: the worker sends `ws-open` with type "tunnel" (p2p-sw.js:287), for which
  the page keeps the port in `ent.inflight` and looks for it in `ent.wsStreams`;
- in the service worker: `targetByClient` of gateway pages (only the page's test button
  reads it) and requests without a client id;
- in the registry: two calls of `ensureTunnel` of one page that both wait for a probe, and
  tab ids that come back; `sig`, which nothing reads to decide anything;
- `resolveTarget`, `routing` and `normalizeTarget`: pure functions on host names, whose
  content is characters; models have their results as members of a small set;
- the gateway's own keepalive and the ready exchange, which change no state there;
- static files, configuration, the page's status rows and history, and the helpers
  nothing calls (direct proxy of main.go; `navigateToNext` and `hasOtherP2PAsync` of client.js);
- the data race on the shared client's `CheckRedirect` (proxy.go:43): all writers
  store the same behaviour.

## Plan

Done, in this order: `Tunnel` with `Rpc`, `HttpForward`, `WsBridge`, `Hub`,
`PeerLifecycle`, `ServiceWorker`, `PageTunnel`, `TunnelRegistry`; then the proofs, at last those
of the refinement of `Rpc`, of the action properties and of what is left after the
end of a peer. Left: the safety halves of `Heals` and `Concluded`.

`PageTunnel` is not a refinement of one page of `TunnelRegistry`, and is not meant to
become one: there a page's tunnel is in its map as long as it has one, which the late
clean-ups of `PageTunnel` break (`OpenIsListed`).
