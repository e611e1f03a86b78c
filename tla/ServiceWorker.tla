---------------------------- MODULE ServiceWorker ----------------------------
(***************************************************************************)
(* Which tab and which target a fetch goes to: the three maps of the       *)
(* service worker (web/files/p2p-sw.js), the messages of the gateway pages *)
(* that fill them, the fetch handler that reads them, and the page's       *)
(* listener that finds, or does not find, the tunnel.  What happens in the *)
(* tunnel is Tunnel.tla.                                                   *)
(*                                                                         *)
(* Pages are gateway pages (/p2p/), which hold tunnels; Docs are documents *)
(* shown through one.  The browser may stop the worker between two events  *)
(* and start it again with empty maps.  Targets are normalised names.      *)
(*                                                                         *)
(* Left out: requests without any client id; WebSocket upgrades, which     *)
(* browsers do not hand to service workers; the entries targetByClient has *)
(* for gateway pages, which only the page's test button reads.  The checks *)
(* repeated after a wait and in forward() run in the task of the check     *)
(* they repeat, so they are not steps.  Connects[p] are the targets that   *)
(* page p connects; MaxTries stands for 20; MaxMail bounds the messages on *)
(* their way from a page, one page at a time.                              *)
(***************************************************************************)
EXTENDS Naturals, Sequences, FiniteSets

CONSTANTS Pages, Docs, Targets, Requests, None, Connects, MaxTries, MaxMail

Clients == Pages \cup Docs

ASSUME RoutingAssumption ==
    /\ None \notin Clients \cup Targets /\ Pages \cap Docs = {}
    /\ Connects \in [Pages -> SUBSET Targets]
    /\ MaxTries \in Nat \ {0, 1} /\ MaxMail \in Nat

VARIABLES
    life,       \* a client is "new", "alive" or "gone"
    url,        \* the ?target= of a document's URL
    named,      \* history: the targets that a document with a target in its
                \* URL has named, there or in a request
    open,       \* the keys of the page's tunnels whose dc is open
    mail,       \* its messages on their way to the worker
    ready,      \* the keys of readyByClient
    targetOf,   \* targetByClient
    hostOf,     \* readyHostByTarget
    req         \* the fetch events

pageVars == <<open, mail>>
swVars   == <<ready, targetOf, hostOf>>
vars     == <<life, url, named, pageVars, swVars, req>>

MaybeTarget == Targets \cup {None}
MaybeClient == Clients \cup {None}
Busy    == {"looking", "waiting", "picking", "posted", "redirect"}

\* A fetch: its stage, client, mode and target, the client it is for or has
\* been posted to, and how often its tunnel has been looked for.
Event(at, c, mode, t, h, n) ==
    [at |-> at, by |-> c, mode |-> mode, target |-> t, host |-> h, tries |-> n]
Idle == Event("idle", None, "no-cors", None, None, 0)

Init ==
    /\ life = [c \in Clients |-> IF c \in Pages THEN "alive" ELSE "new"]
    /\ url = [d \in Docs |-> None] /\ named = [d \in Docs |-> {}]
    /\ open = [p \in Pages |-> {}] /\ mail = [p \in Pages |-> <<>>]
    /\ ready = {}
    /\ targetOf = [d \in Docs |-> None]
    /\ hostOf = [t \in Targets |-> None]
    /\ req = [r \in Requests |-> Idle]

----------------------------------------------------------------------------
(* The gateway pages.                                                      *)

Post(p, type, t) ==
    /\ life[p] = "alive"
    /\ Len(mail[p]) < MaxMail /\ \A q \in Pages \ {p} : mail[q] = <<>>
    /\ mail' = [mail EXCEPT ![p] = Append(@, [type |-> type, target |-> t])]

\* dc.onopen, dc.onclose and notifySWForKey.
DcOpens(p, t) ==
    /\ t \in Connects[p] \ open[p] /\ open' = [open EXCEPT ![p] = @ \cup {t}]
    /\ Post(p, "dc open", t)
    /\ UNCHANGED <<life, url, named, swVars, req>>

DcCloses(p, t) ==
    /\ t \in open[p] /\ open' = [open EXCEPT ![p] = @ \ {t}]
    /\ Post(p, "dc close", t)
    /\ UNCHANGED <<life, url, named, swVars, req>>

\* The later attempts of notifySWForKey may repeat a message that has arrived,
\* and whose channel has changed since.
Repeats(p, type, t) ==
    /\ t \in Connects[p] /\ Post(p, type, t)
    /\ UNCHANGED <<life, url, named, open, swVars, req>>

\* pc.close() on the page's own side may end a channel without an onclose.
DropsTunnel(p, t) ==
    /\ life[p] = "alive" /\ t \in open[p]
    /\ open' = [open EXCEPT ![p] = @ \ {t}]
    /\ UNCHANGED <<life, url, named, mail, swVars, req>>

\* A page is closed or navigated away; nothing tells the worker.  (A document
\* that leaves takes its requests with it.)
Leaves(p) ==
    /\ life[p] = "alive" /\ life' = [life EXCEPT ![p] = "gone"]
    /\ open' = [open EXCEPT ![p] = {}]
    /\ UNCHANGED <<url, named, mail, swVars, req>>

----------------------------------------------------------------------------
(* The worker's message handler.                                           *)

Hosts(c) == {t \in Targets : hostOf[t] = c}

OnOpen(p, t) ==
    /\ ready' = ready \cup {p}
    /\ hostOf' = [hostOf EXCEPT ![t] = p]
    /\ UNCHANGED targetOf

\* Mutant: a page that closes one tunnel is no longer ready for any.
OnCloseAll(p, t) ==
    /\ hostOf' = IF hostOf[t] = p THEN [hostOf EXCEPT ![t] = None] ELSE hostOf
    /\ ready' = ready \ {p}
    /\ UNCHANGED targetOf

OnClose(p, t) ==
    /\ hostOf' = IF hostOf[t] = p THEN [hostOf EXCEPT ![t] = None] ELSE hostOf
    /\ ready' = IF Hosts(p) \ {t} = {} THEN ready \ {p} ELSE ready
    /\ UNCHANGED targetOf

\* The message of a page that has gone may arrive without a source.
Message(p) ==
    /\ mail[p] # <<>>
    /\ mail' = [mail EXCEPT ![p] = Tail(@)]
    /\ LET m == Head(mail[p]) IN
        \/ m.type = "dc open"  /\ OnOpen(p, m.target)
        \/ m.type = "dc close" /\ OnClose(p, m.target)
        \/ life[p] = "gone"    /\ UNCHANGED swVars
    /\ UNCHANGED <<life, url, named, open, req>>

\* The worker is idle and stopped; the next event finds its globals empty.
Restart ==
    /\ \A r \in Requests : req[r].at \notin Busy
    /\ ready' = {}
    /\ targetOf' = [d \in Docs |-> None]
    /\ hostOf' = [t \in Targets |-> None]
    /\ UNCHANGED <<life, url, named, pageVars, req>>

----------------------------------------------------------------------------
(* The fetch handler.                                                      *)

\* Once the target is known, with the hosts as they are by then.
Route(c, mode, asks, t, hosts) ==
    IF mode = "navigate" /\ asks = None THEN Event("redirect", c, mode, t, None, 0)
    ELSE IF hosts[t] \in ready THEN Event("picking", c, mode, t, hosts[t], 0)
    ELSE Event("waiting", c, mode, t, None, 1)

\* A tab that hosts some tunnel asks for a target without a host: it becomes it.
Claims(c, t) ==
    IF c \in ready /\ hostOf[t] = None THEN [hostOf EXCEPT ![t] = c] ELSE hostOf

\* A page probes a target (verifyTunnelAlive): its request names it.
Probe(r, p, t) ==
    /\ life[p] = "alive" /\ req[r].at = "idle"
    /\ hostOf' = Claims(p, t)
    /\ req' = [req EXCEPT ![r] = Route(p, "no-cors", t, t, Claims(p, t))]
    /\ UNCHANGED <<life, url, named, pageVars, ready, targetOf>>

\* A request of document d that asks for ?target=asks, or does not (None), and
\* whose Referer has ?target=ref, or has none.
Handle(r, d, mode, asks, ref) ==
    /\ LET t == IF asks # None THEN asks
                ELSE IF targetOf[d] # None THEN targetOf[d] ELSE ref
       IN  /\ targetOf' = IF asks # None \/ targetOf[d] = None
                          THEN [targetOf EXCEPT ![d] = t] ELSE targetOf
           /\ req' = [req EXCEPT ![r] =
                IF t # None THEN Route(d, mode, asks, t, hostOf)
                ELSE Event("looking", d, mode, None, None, 0)]
    /\ UNCHANGED <<ready, hostOf, pageVars>>

\* Its document does not exist before a navigation is answered.
Navigating(f) == f.mode = "navigate" /\ f.at \in Busy

\* A loaded document fetches something.
Fetch(r, d, asks, ref) ==
    /\ life[d] = "alive" /\ req[r].at = "idle"
    /\ ~ \E q \in Requests : req[q].by = d /\ Navigating(req[q])
    /\ ref \in {None, url[d]}
    /\ Handle(r, d, "no-cors", asks, ref)
    /\ named' = IF None \in {asks, url[d]} THEN named
                ELSE [named EXCEPT ![d] = @ \cup {asks}]
    /\ UNCHANGED <<life, url>>

\* A new document is opened, from the address bar or from a link in any tab.
Navigate(r, d, asks, ref) ==
    /\ life[d] = "new" /\ life' = [life EXCEPT ![d] = "alive"]
    /\ req[r].at = "idle"
    /\ Handle(r, d, "navigate", asks, ref)
    /\ url' = [url EXCEPT ![d] = asks]
    /\ named' = [named EXCEPT ![d] = {asks} \ {None}]

\* The browser follows the redirect to the same address with ?target=.
FollowRedirect(r) ==
    /\ req[r].at = "redirect"
    /\ LET d == req[r].by
           t == req[r].target
       IN  /\ Handle(r, d, "navigate", t, None)
           /\ url' = [url EXCEPT ![d] = t]
           /\ named' = [named EXCEPT ![d] = @ \cup {t}]
    /\ UNCHANGED life

\* The target of the only tunnel there is.
Hosted == {t \in Targets : hostOf[t] # None}
Single == IF \E t \in Hosted : Hosted = {t} /\ hostOf[t] \in ready
          THEN CHOOSE t \in Hosted : TRUE ELSE None

\* Mutant: the URL of the client is not looked at.
LookedUpSkipped(d) == None

\* clients.get has answered: the URL of the client.  A document that is being
\* opened has no ?target=, or it would be known.
LookedUp(d) == url[d]

\* Answered with 502 or 503, or left to the network: nothing of it remains.
Ends(r) == req' = [req EXCEPT ![r] = Idle]

Look(r) ==
    /\ req[r].at = "looking"
    /\ LET d   == req[r].by
           own == LookedUp(d)
           t   == IF own # None THEN own ELSE Single
       IN  /\ targetOf' = IF own = None THEN targetOf
                          ELSE [targetOf EXCEPT ![d] = own]
           /\ IF t = None THEN Ends(r)
              ELSE req' = [req EXCEPT ![r] = Route(d, req[r].mode, None, t, hostOf)]
    /\ UNCHANGED <<life, url, named, pageVars, ready, hostOf>>

\* The event goes on: to stage at, with h and n.
Goes(r, at, h, n) == req' = [req EXCEPT ![r] =
    Event(at, req[r].by, req[r].mode, req[r].target, h, n)]

\* Mutant: a request looks for its tunnel once more.
LooksOneMore(r) ==
    IF req[r].tries >= MaxTries THEN Ends(r)
    ELSE Goes(r, "waiting", None, req[r].tries + 1)

\* Mutant: every look counts from the start.
LooksForever(r) == Goes(r, "waiting", None, 1)

LooksAgain(r) ==
    IF req[r].tries + 1 >= MaxTries THEN Ends(r)
    ELSE Goes(r, "waiting", None, req[r].tries + 1)

\* The ticks after the first, which is part of Route.
Tick(r) ==
    /\ req[r].at = "waiting"
    /\ LET h == hostOf[req[r].target] IN
        IF h \in ready THEN Goes(r, "picking", h, 0) ELSE LooksAgain(r)
    /\ UNCHANGED <<life, url, named, pageVars, swVars>>

\* Mutant: a request whose tab is gone waits for another one.
PickWaits(r) ==
    /\ req[r].at = "picking"
    /\ IF life[req[r].host] = "alive" THEN Goes(r, "posted", req[r].host, 0)
       ELSE Goes(r, "waiting", None, 1)
    /\ UNCHANGED <<life, url, named, pageVars, swVars>>

\* pickClient: the tab the request is for; if that is gone the tab that
\* reported last or the first there is: any tab.  "no client" is posted to
\* nobody, and its request waits for the timer.
Pick(r) ==
    /\ req[r].at = "picking"
    /\ LET h     == req[r].host
           alive == {c \in Clients : life[c] = "alive"}
       IN  \/ h \in alive /\ Goes(r, "posted", h, 0)
           \/ h \notin alive /\ \E c \in alive : Goes(r, "posted", c, 0)
           \/ alive = {} /\ Goes(r, "posted", None, 0)
    /\ UNCHANGED <<life, url, named, pageVars, swVars>>

\* The page's listener hands it to the tunnel of its target, or answers with an
\* error.
Bridge(r) ==
    /\ req[r].at = "posted" /\ req[r].host \in Pages
    /\ life[req[r].host] = "alive"
    /\ IF req[r].target \in open[req[r].host]
       THEN Goes(r, "served", None, 0)
       ELSE Ends(r)
    /\ UNCHANGED <<life, url, named, pageVars, swVars>>

\* The 30 s timer of p2pFetch.
Timeout(r) ==
    /\ req[r].at \in {"picking", "posted"}
    /\ Ends(r)
    /\ UNCHANGED <<life, url, named, pageVars, swVars>>

\* The tunnel has answered, or its timer has.
Over(r) ==
    /\ req[r].at = "served"
    /\ Ends(r)
    /\ UNCHANGED <<life, url, named, pageVars, swVars>>

----------------------------------------------------------------------------
OfPage(p) ==
    \/ \E t \in Targets :
        \/ DcOpens(p, t) \/ DcCloses(p, t) \/ DropsTunnel(p, t)
        \/ \E type \in {"dc open", "dc close"} : Repeats(p, type, t)
    \/ Message(p)

OfFetch(r) ==
    \/ \E p \in Pages, t \in Targets : Probe(r, p, t)
    \/ \E d \in Docs, asks, ref \in MaybeTarget :
            Fetch(r, d, asks, ref) \/ Navigate(r, d, asks, ref)
    \/ FollowRedirect(r) \/ Look(r) \/ Tick(r)
    \/ Pick(r) \/ Bridge(r) \/ Timeout(r) \/ Over(r)

Next ==
    \/ \E p \in Pages : OfPage(p) \/ Leaves(p)
    \/ \E r \in Requests : OfFetch(r)
    \/ Restart

Spec == Init /\ [][Next]_vars

\* Timers fire, asynchronous calls of the worker are answered, and a browser
\* follows a redirect.  Pages need not answer, report or connect.
Fairness == \A r \in Requests :
    /\ WF_vars(Look(r)) /\ WF_vars(Tick(r)) /\ WF_vars(Timeout(r))
    /\ WF_vars(Pick(r)) /\ WF_vars(FollowRedirect(r))

FairSpec == Spec /\ Fairness

----------------------------------------------------------------------------
Messages == [type : {"dc open", "dc close"}, target : Targets]
Modes    == {"navigate", "no-cors"}
Fetches  == [at : {"idle", "served"} \cup Busy, by : MaybeClient, mode : Modes,
             target : MaybeTarget, host : MaybeClient, tries : 0..MaxTries - 1]

\* What is asked for has a client, then a target, then a tab that has it.
Complete(f) ==
    /\ f.at # "idle" => f.by # None
    /\ f.at # "idle" => (f.target = None <=> f.at = "looking")
    /\ f.at = "picking" => f.host # None
    /\ f.at = "looking" \/ f.mode = "navigate" => f.by \in Docs
    /\ f.at = "redirect" => f.mode = "navigate"

\* Types; a request looks for its tunnel at most MaxTries times (p2p-sw.js:222),
\* and has what its stage needs.
TypeOK ==
    /\ life \in [Clients -> {"new", "alive", "gone"}]
    /\ url \in [Docs -> MaybeTarget] /\ named \in [Docs -> SUBSET Targets]
    /\ open \in [Pages -> SUBSET Targets] /\ mail \in [Pages -> Seq(Messages)]
    /\ ready \subseteq Pages
    /\ targetOf \in [Docs -> MaybeTarget]
    /\ hostOf \in [Targets -> Pages \cup {None}]
    /\ req \in [Requests -> Fetches]
    /\ \A r \in Requests : Complete(req[r])

\* A tab that is the host of some target is in readyByClient: the two maps,
\* filled by messages and by fetches and emptied by messages of several tabs,
\* never disagree in a way that makes a registered tunnel unusable
\* (p2p-sw.js:38-53, 90-96).
HostsAreReady == \A t \in Targets : hostOf[t] # None => hostOf[t] \in ready

\* "strict per-key, no fallback to avoid cross-routing" (client.js:653): a
\* document with a target in its URL is only ever served through a tunnel of a
\* target it has named, whatever the pages register or close and whenever the
\* worker is restarted (p2p-sw.js:87-131, client.js:657-667).
NoCrossRouting == \A r \in Requests, d \in Docs :
    req[r].at = "served" /\ req[r].by = d /\ url[d] # None
        => req[r].target \in named[d]

\* How far a fetch is from its answer at most.
Distance(f) ==
    CASE f.at = "looking"  -> MaxTries + 4
      [] f.at = "redirect" -> MaxTries + 3
      [] f.at = "waiting"  -> MaxTries + 2 - f.tries
      [] f.at = "picking"  -> 2
      [] f.at = "posted"   -> 1
      [] OTHER             -> 0

\* A fetch never goes back: whatever messages, other fetches and restarts of
\* the worker change in its maps meanwhile, each of its own steps brings it
\* nearer to its answer, for the same client and, once it has one, with the
\* same target (p2p-sw.js:87-131, 158-171, 215-231).
NeverBack == [][\A r \in Requests :
    req[r].at \in Busy /\ req'[r] # req[r] =>
        /\ Distance(req'[r]) < Distance(req[r])
        /\ req'[r].at # "idle" =>
              req'[r].by = req[r].by /\ req[r].target \in {None, req'[r].target}]_vars

\* Every fetch the worker takes is answered, served or not, whatever tabs die
\* and however tunnels come and go meanwhile (p2p-sw.js:158-171, 267-276, 307).
Answered == \A r \in Requests : req[r].at \in Busy ~> req[r].at \notin Busy
=============================================================================
