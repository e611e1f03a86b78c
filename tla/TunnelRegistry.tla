--------------------------- MODULE TunnelRegistry ---------------------------
(***************************************************************************)
(* The registry that the gateway pages of one browser share: which page    *)
(* has, or is building, the tunnel to which target (web/files/client.js,   *)
(* localStorage p2p-tunnels), and which pages live (p2p-keepers).  Every   *)
(* page touches, takes over, clears and prunes entries, its own and those  *)
(* of others; a probe is an await between a read and a write.              *)
(*                                                                         *)
(* A task of a page is one step: localStorage is not written by two tasks  *)
(* at once. Every touch of a ready tunnel pings the other pages, so that a *)
(* page with an open one answers at any time. Ages are abstract: a keeper  *)
(* lapses and an entry expires at any time, since the browser slows the    *)
(* timers of hidden pages down, and an entry is too old to keep whenever   *)
(* it is looked at, or not. A page that is opened again is another page,   *)
(* with an id of its own; one that is opened later has done nothing until  *)
(* then. The callbacks of a tunnel, and those of the tunnels before it,    *)
(* are PageTunnel.tla; here a page has one tunnel to a target, in its map. *)
(* A page has at most one call of ensureTunnel and one round of probes     *)
(* under way.                                                              *)
(***************************************************************************)
EXTENDS Naturals

CONSTANTS Pages, Keys, None

\* An entry; a call of ensureTunnel that waits for a probe, with the map it
\* will write back; a round of probes, with the owners it has read.
Entries == [owner : Pages, state : {"pending", "ready"}, age : {"fresh", "expired"}]
Asks == [key : Keys, at : {"asked", "served"}, rest : [Keys -> Entries \cup {None}]]
Rounds == [key : Keys, at : {"asked", "served"}, left : [Keys -> Pages \cup {None}]]

ASSUME RegistryAssumption == None \notin Pages \cup Entries \cup Asks \cup Rounds

VARIABLES
    up,         \* the pages that are open
    kept,       \* the pages whose keeper is fresh
    tun,        \* tun[p][k]: the tunnel of page p to k; "dead" has lost its
                \* WebSocket before its channel opened
    reg,        \* p2p-tunnels: the entry of a key, or None
    ask,        \* ask[p]: ensureTunnel waiting for a probe, or None
    probe,      \* probe[p]: the round of probes of the 6 s timer, or None
    controlled, \* the pages that the service worker controls
    pongs,      \* on the BroadcastChannel, by key and receiver
    opened      \* history: the keys some channel has been open for

vars == <<up, kept, tun, reg, ask, probe, controlled, pongs, opened>>

Entry(p, state, age) == [owner |-> p, state |-> state, age |-> age]
NoEntries == [k \in Keys |-> None]

Init ==
    /\ up = Pages /\ kept = Pages /\ controlled \in SUBSET Pages
    /\ tun = [p \in Pages |-> [k \in Keys |-> "none"]]
    /\ reg = NoEntries
    /\ ask = [p \in Pages |-> None] /\ probe = [p \in Pages |-> None]
    /\ pongs = {} /\ opened = {}

----------------------------------------------------------------------------
(* What the functions of the registry make of the map m.                   *)

Fresh(e) == e # None /\ e.age = "fresh"

\* Mutant: every entry of another page is left alone, its keeper fresh or not.
HeldByAny(m, p, k) == m[k] # None /\ m[k].owner # p

\* A fresh entry of another living page is left alone.
Held(m, p, k) == Fresh(m[k]) /\ m[k].owner \in kept \ {p}

\* touchTunnel.
Touch(m, p, k, state) ==
    IF Held(m, p, k) THEN m
    ELSE [m EXCEPT ![k] = Entry(p,
            IF m[k] # None /\ m[k].state = "ready" THEN "ready" ELSE state, "fresh")]

\* Mutant: whoever owns the entry.
ClearForced(m, p, k) == [m EXCEPT ![k] = None]

\* clearTunnel.
Clear(m, p, k) ==
    IF Held(m, p, k) THEN m ELSE [m EXCEPT ![k] = None]

----------------------------------------------------------------------------
(* Pages and their keepers.                                                *)

TouchKeeper(p) ==
    /\ p \in up /\ kept' = kept \cup {p}
    /\ UNCHANGED <<up, tun, reg, ask, probe, pongs, opened, controlled>>

KeeperLapses(p) ==
    /\ kept' = kept \ {p}
    /\ UNCHANGED <<up, tun, reg, ask, probe, pongs, opened, controlled>>

\* Mutant: a call that waits for a probe survives its page.
LeaveWaiting(p) ==
    /\ p \in up /\ up' = up \ {p}
    /\ kept' \in {kept, kept \ {p}}
    /\ tun' = [tun EXCEPT ![p] = [k \in Keys |-> "none"]]
    /\ probe' = [probe EXCEPT ![p] = None]
    /\ pongs' = {m \in pongs : m[2] # p}
    /\ UNCHANGED <<reg, ask, opened, controlled>>

\* pagehide removes the keeper; a page that crashes leaves it.
Leave(p) ==
    /\ p \in up /\ up' = up \ {p}
    /\ kept' \in {kept, kept \ {p}}
    /\ tun' = [tun EXCEPT ![p] = [k \in Keys |-> "none"]]
    /\ ask' = [ask EXCEPT ![p] = None]
    /\ probe' = [probe EXCEPT ![p] = None]
    /\ pongs' = {m \in pongs : m[2] # p}
    /\ UNCHANGED <<reg, opened, controlled>>

----------------------------------------------------------------------------
(* ensureTunnel.                                                           *)

\* Mutant: a tunnel is announced before its channel opens.
BuildReady(p, k, m) ==
    /\ tun' = [tun EXCEPT ![p][k] = "building"]
    /\ reg' = Touch(m, p, k, "ready")

\* buildTunnel, on the map m.
Build(p, k, m) ==
    /\ tun' = [tun EXCEPT ![p][k] = "building"]
    /\ reg' = Touch(m, p, k, "pending")

\* isTunnelAlive, for a page without an open tunnel of its own.
Alive(p, k) ==
    /\ Fresh(reg[k]) /\ reg[k].state = "ready"
    /\ reg[k].owner \in kept \cup {p}

\* A page whose own keeper has lapsed removes its entry without a probe.
Ensure(p, k) ==
    /\ p \in up /\ tun[p][k] \in {"none", "dead"} /\ ask[p] = None
    /\ IF Alive(p, k) /\ reg[k].owner \in kept
       THEN /\ ask' = [ask EXCEPT ![p] = [key |-> k, at |-> "asked",
                                          rest |-> [reg EXCEPT ![k] = None]]]
            /\ tun' = [tun EXCEPT ![p][k] = "none"]
            /\ UNCHANGED reg
       ELSE /\ Build(p, k, IF Alive(p, k) THEN [reg EXCEPT ![k] = None] ELSE reg)
            /\ UNCHANGED ask
    /\ UNCHANGED <<up, kept, probe, pongs, opened, controlled>>

\* maybeTakeover.
Takeover(p, k) ==
    /\ reg[k].owner # p /\ (Fresh(reg[k]) => reg[k].owner \notin kept)
    /\ tun[p][k] = "none"
    /\ Ensure(p, k)

\* The storage event, of a ready entry that has just been written.
Adopt(p, k) ==
    /\ Fresh(reg[k]) /\ reg[k].state = "ready"
    /\ Takeover(p, k)

\* A probe is served through the tunnel of whatever page has one, or, past the
\* service worker, by the gateway itself: it answers with its own page.
Served(p, k) == p \notin controlled \/ \E q \in Pages : tun[q][k] = "open"

AskServed(p) ==
    /\ ask[p] # None /\ ask[p].at = "asked"
    /\ Served(p, ask[p].key)
    /\ ask' = [ask EXCEPT ![p].at = "served"]
    /\ UNCHANGED <<up, kept, tun, reg, probe, pongs, opened, controlled>>

Shared(p) ==
    /\ ask[p] # None /\ ask[p].at = "served"
    /\ LET k == ask[p].key IN
        /\ reg' = Touch(reg, p, k, "ready")
    /\ ask' = [ask EXCEPT ![p] = None]
    /\ UNCHANGED <<up, kept, tun, probe, pongs, opened, controlled>>

\* It is not, within 2 s: the map read before the probe is written back without
\* the entry, over whatever has been written meanwhile.
NotShared(p) ==
    /\ ask[p] # None /\ ask[p].at = "asked"
    /\ Build(p, ask[p].key, ask[p].rest)
    /\ ask' = [ask EXCEPT ![p] = None]
    /\ UNCHANGED <<up, kept, probe, pongs, opened, controlled>>

----------------------------------------------------------------------------
(* The tunnel of a page.                                                   *)

\* ws.onclose, before the channel is open.
LosesSignal(p, k) ==
    /\ tun[p][k] = "building" /\ tun' = [tun EXCEPT ![p][k] = "dead"]
    /\ UNCHANGED <<up, kept, reg, ask, probe, pongs, opened, controlled>>

\* dc.onopen: setTunnelReady does not ask whose entry it is.
Opens(p, k) ==
    /\ tun[p][k] \in {"building", "dead"}
    /\ tun' = [tun EXCEPT ![p][k] = "open"]
    /\ reg' = [reg EXCEPT ![k] = Entry(p, "ready", "fresh")]
    /\ opened' = opened \cup {k}
    /\ UNCHANGED <<up, kept, ask, probe, pongs, controlled>>

\* Its channel closes, it fails, or the user closes it, with or without one.
Closes(p, k) ==
    /\ p \in up /\ tun' = [tun EXCEPT ![p][k] = "none"]
    /\ reg' = Clear(reg, p, k)
    /\ UNCHANGED <<up, kept, ask, probe, pongs, opened, controlled>>

Reuse(p, k) ==
    /\ tun[p][k] = "open"
    /\ reg' = Touch(reg, p, k, "ready")
    /\ UNCHANGED <<up, kept, tun, ask, probe, pongs, opened, controlled>>

\* The touchTimer, the ping timer, frames from the gateway, and ensureTunnel
\* when it finds the page's own tunnel open.
TouchTick(p, k) ==
    \/ tun[p][k] = "building"
       /\ reg' = Touch(reg, p, k, "pending")
       /\ UNCHANGED <<up, kept, tun, ask, probe, pongs, opened, controlled>>
    \/ Reuse(p, k)

----------------------------------------------------------------------------
(* The background work of every page.                                      *)

OwnerDead(p, e) == e.owner \notin kept \cup {p}

\* Mutant: a ready entry is never pruned.
StalePending(p, k, late) ==
    /\ tun[p][k] # "open"
    /\ reg[k].state = "pending"
    /\ tun[p][k] \in {"none", "dead"} /\ late

\* What pruneStaleTunnels removes, whoever owns it: late says that a pending
\* entry has been pending for more than 15 s, or that one whose tunnel is dead
\* here is more than 5 s old.  An open tunnel keeps the entry young and its
\* owner in place, but not a pending one when its own WebSocket has closed,
\* which it may have at any time.
Stale(p, k, late) ==
    LET e == reg[k]
    IN  \/ tun[p][k] # "open" /\ (e.age = "expired" \/ OwnerDead(p, e))
        \/ /\ late /\ e.state = "pending" /\ tun[p][k] \in {"none", "open"}
           /\ tun[p][k] = "open" => Fresh(e)
        \/ tun[p][k] = "dead" /\ (late \/ e.owner = p)

Pruned(p, k, late) ==
    IF reg[k] = None \/ Stale(p, k, late) THEN None
    ELSE IF tun[p][k] = "open" THEN Entry(reg[k].owner, reg[k].state, "fresh")
    ELSE reg[k]

Prune(p) ==
    /\ p \in up
    /\ \E late \in SUBSET Keys : reg' = [k \in Keys |-> Pruned(p, k, k \in late)]
    /\ tun' = [tun EXCEPT ![p] = [k \in Keys |-> IF @[k] = "dead" THEN "none" ELSE @[k]]]
    /\ UNCHANGED <<up, kept, ask, probe, pongs, opened, controlled>>

\* The owners, as the round has read them, that are still to be looked at.
Suspects(p, left) ==
    {k \in Keys : left[k] \notin kept \cup {None} /\ tun[p][k] # "open"}

GoOn(p, left) ==
    IF Suspects(p, left) = {} THEN probe' = [probe EXCEPT ![p] = None]
    ELSE \E k \in Suspects(p, left) : probe' = [probe EXCEPT ![p] =
            [key |-> k, at |-> "asked", left |-> [left EXCEPT ![k] = None]]]

StartProbe(p) ==
    /\ p \in up /\ probe[p] = None
    /\ LET left == [k \in Keys |->
                      IF reg[k] # None /\ reg[k].state = "ready" /\ reg[k].owner # p
                      THEN reg[k].owner ELSE None]
       IN  Suspects(p, left) # {} /\ GoOn(p, left)
    /\ UNCHANGED <<up, kept, tun, reg, ask, pongs, opened, controlled>>

ProbeServed(p) ==
    /\ probe[p] # None /\ probe[p].at = "asked"
    /\ Served(p, probe[p].key)
    /\ probe' = [probe EXCEPT ![p].at = "served"]
    /\ UNCHANGED <<up, kept, tun, reg, ask, pongs, opened, controlled>>

ProbeOk(p) ==
    /\ probe[p] # None /\ probe[p].at = "served"
    /\ LET k == probe[p].key IN
        /\ reg' = Touch(reg, p, k, "ready")
    /\ GoOn(p, probe[p].left)
    /\ UNCHANGED <<up, kept, tun, ask, pongs, opened, controlled>>

\* The entry is removed, whoever owns it by now.
ProbeFails(p) ==
    /\ probe[p] # None /\ probe[p].at = "asked"
    /\ reg' = [reg EXCEPT ![probe[p].key] = None]
    /\ GoOn(p, probe[p].left)
    /\ UNCHANGED <<up, kept, tun, ask, pongs, opened, controlled>>

\* BC_TUNNEL.onmessage: a page with an open tunnel answers a ping, to all.
Pong(p, k) ==
    /\ tun[p][k] = "open"
    /\ pongs' = pongs \cup {<<k, q>> : q \in up \ {p}}
    /\ UNCHANGED <<up, kept, tun, reg, ask, probe, opened, controlled>>

\* Mutant: the page that hears of a tunnel notes it down.
HearPongCreates(p, k) ==
    /\ <<k, p>> \in pongs /\ pongs' = pongs \ {<<k, p>>}
    /\ reg' = [reg EXCEPT ![k] =
                 Entry(IF @ = None THEN p ELSE @.owner, "ready", "fresh")]
    /\ UNCHANGED <<up, kept, tun, ask, probe, opened, controlled>>

HearPong(p, k) ==
    /\ <<k, p>> \in pongs /\ pongs' = pongs \ {<<k, p>>}
    /\ reg' = IF reg[k] = None THEN reg
              ELSE [reg EXCEPT ![k] = Entry(reg[k].owner, "ready", "fresh")]
    /\ UNCHANGED <<up, kept, tun, ask, probe, opened, controlled>>

\* Thirty seconds without a touch.
Expires(k) ==
    /\ Fresh(reg[k])
    /\ reg' = [reg EXCEPT ![k] = Entry(reg[k].owner, reg[k].state, "expired")]
    /\ UNCHANGED <<up, kept, tun, ask, probe, pongs, opened, controlled>>

----------------------------------------------------------------------------
OfPage(p) ==
    \/ TouchKeeper(p) \/ KeeperLapses(p) \/ Leave(p)
    \/ AskServed(p) \/ Shared(p) \/ NotShared(p)
    \/ Prune(p) \/ StartProbe(p) \/ ProbeServed(p) \/ ProbeOk(p) \/ ProbeFails(p)

OfTunnel(p, k) ==
    \/ Ensure(p, k) \/ Adopt(p, k) \/ LosesSignal(p, k)
    \/ Opens(p, k) \/ Closes(p, k) \/ TouchTick(p, k)
    \/ Pong(p, k) \/ HearPong(p, k)

Next ==
    \/ \E p \in Pages : OfPage(p) \/ \E k \in Keys : OfTunnel(p, k)
    \/ \E k \in Keys : Expires(k)

Spec == Init /\ [][Next]_vars

\* Timers of a living page run, a page that is gone does not renew its keeper,
\* an entry that nobody touches grows old, and messages arrive.
Fairness ==
    /\ \A p \in Pages :
        /\ WF_vars(Prune(p)) /\ WF_vars(p \notin up /\ KeeperLapses(p))
        /\ \A k \in Keys : WF_vars(TouchTick(p, k)) /\ WF_vars(HearPong(p, k))
    /\ \A k \in Keys : WF_vars(Expires(k))

FairSpec == Spec /\ Fairness

----------------------------------------------------------------------------
\* The type of each variable; only a living page has tunnels, and probes under
\* way.
TypeOK ==
    /\ up \subseteq Pages /\ kept \subseteq Pages /\ controlled \subseteq Pages
    /\ tun \in [Pages -> [Keys -> {"none", "building", "dead", "open"}]]
    /\ reg \in [Keys -> Entries \cup {None}]
    /\ ask \in [Pages -> {None} \cup Asks]
    /\ probe \in [Pages -> {None} \cup Rounds]
    /\ pongs \subseteq Keys \X Pages
    /\ opened \subseteq Keys
    /\ \A p \in Pages \ up :
        ask[p] = None /\ probe[p] = None /\ \A k \in Keys : tun[p][k] = "none"

\* An entry says ready only of a target some channel has been open for: no
\* touch, take-over, late probe, pong or map written back makes up a tunnel
\* that never was (client.js:109, 124, 135-136, 478).
ReadyWasOpen == \A k \in Keys : reg[k] # None /\ reg[k].state = "ready" => k \in opened

Serves(p, k) == /\ Fresh(reg[k]) /\ reg[k].state = "ready"
                /\ reg[k].owner = p /\ p \in kept /\ tun[p][k] = "open"

Waits(p) == ask[p] # None \/ probe[p] # None

\* A living page that serves a target keeps its entry (client.js:134, 151),
\* but for the three ways the code leaves open: another page's channel opens
\* (client.js:144), a page that was waiting for a probe writes what it read
\* before it, or removes what it found (client.js:205-206, 478), and a page
\* whose own tunnel died prunes by the key (client.js:177).
Respected == [][\A p \in Pages, k \in Keys :
    Serves(p, k) /\ tun'[p][k] = "open" =>
        \/ reg'[k] # None /\ reg'[k].owner = p
        \/ \E q \in Pages :
              \/ tun[q][k] # "open" /\ tun'[q][k] = "open"
              \/ Waits(q) /\ <<ask[q], probe[q]>> # <<ask'[q], probe'[q]>>
              \/ tun[q][k] = "dead" /\ tun'[q][k] = "none"]_vars

\* When no page has a tunnel to a target its entry goes, whether its page
\* closed it, left or crashed: pages prune each other's entries, and none
\* refreshes one for ever (client.js:155-210).  A page the service worker does
\* not control may: its probes always succeed.
Quiet(k) == \A p \in Pages : tun[p][k] = "none"
Watched == up # {} /\ up \subseteq controlled
Purged == \A k \in Keys :
    Quiet(k) /\ Watched ~> reg[k] = None \/ ~Quiet(k) \/ ~Watched

\* An entry that is gone while no page has a tunnel stays gone: no pong, touch
\* or pruning on its way brings it back, only a page that waited for a probe
\* may, with what it read before it (client.js:125, 132-140, 478).
StaysPurged == [][\A k \in Keys :
    Quiet(k) /\ reg[k] = None =>
        \/ reg'[k] = None \/ ~Quiet(k)'
        \/ \E q \in Pages :
              Waits(q) /\ <<ask[q], probe[q]>> # <<ask'[q], probe'[q]>>]_vars

\* Whatever other pages make of the entry of an open tunnel, it is ready and
\* fresh again (client.js:599), or held by a page that builds a tunnel too.
Heals == \A p \in Pages, k \in Keys :
    tun[p][k] = "open" ~>
        \/ tun[p][k] # "open"
        \/ Fresh(reg[k]) /\ reg[k].state = "ready"
        \/ \E q \in Pages : tun[q][k] \in {"building", "dead"}
=============================================================================
