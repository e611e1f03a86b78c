------------------------ MODULE TunnelRegistryProofs ------------------------
(***************************************************************************)
(* Proofs about TunnelRegistry.tla, for every number of pages and targets: *)
(* TypeOK, that no entry says ready of a target no channel has been open   *)
(* for, who may take the entry of a page that serves its target, and that  *)
(* an entry that is gone with the last tunnel is not brought back.         *)
(***************************************************************************)
EXTENDS TunnelRegistry, TLAPS

Maps == [Keys -> Entries \cup {None}]

(***************************************************************************)
(* What the helpers return.                                                *)
(***************************************************************************)

LEMMA EntryType == ASSUME NEW p \in Pages, NEW state \in {"pending", "ready"},
                          NEW age \in {"fresh", "expired"}
                   PROVE  /\ Entry(p, state, age) \in Entries
                          /\ Entry(p, state, age) # None
                          /\ Entry(p, state, age).owner = p
                          /\ Entry(p, state, age).state = state
                          /\ Entry(p, state, age).age = age
BY RegistryAssumption DEF Entry, Entries

LEMMA EntryFields == ASSUME NEW m \in Maps, NEW k \in Keys, m[k] # None
                     PROVE  /\ m[k].owner \in Pages
                            /\ m[k].state \in {"pending", "ready"}
                            /\ m[k].age \in {"fresh", "expired"}
<1>1. m[k] \in Entries
  BY DEF Maps
<1> QED BY <1>1 DEF Entries

\* A touch writes nothing but the entry of its key, and is ready only if it
\* says so or the entry was.
LEMMA TouchFacts ==
    ASSUME NEW m \in Maps, NEW p \in Pages, NEW k \in Keys,
           NEW state \in {"pending", "ready"}
    PROVE  /\ Touch(m, p, k, state) \in Maps
           /\ \A j \in Keys \ {k} : Touch(m, p, k, state)[j] = m[j]
           /\ \/ Held(m, p, k) /\ Touch(m, p, k, state) = m
              \/ /\ Touch(m, p, k, state)[k] # None
                 /\ Touch(m, p, k, state)[k].owner = p
                 /\ Touch(m, p, k, state)[k].state = "ready" =>
                        state = "ready" \/ (m[k] # None /\ m[k].state = "ready")
<1>1. CASE Held(m, p, k)
  BY <1>1 DEF Touch
<1>2. CASE ~Held(m, p, k)
  <2> DEFINE s == IF m[k] # None /\ m[k].state = "ready" THEN "ready" ELSE state
  <2>1. s \in {"pending", "ready"}
    OBVIOUS
  <2>2. Touch(m, p, k, state) = [m EXCEPT ![k] = Entry(p, s, "fresh")]
    BY <1>2 DEF Touch
  <2>3. Entry(p, s, "fresh") \in Entries /\ Entry(p, s, "fresh") # None
    BY <2>1, EntryType
  <2>4. Entry(p, s, "fresh").owner = p /\ Entry(p, s, "fresh").state = s
    BY <2>1, EntryType
  <2> HIDE DEF s
  <2>5. Touch(m, p, k, state) \in Maps /\ Touch(m, p, k, state)[k] = Entry(p, s, "fresh")
    BY <2>2, <2>3 DEF Maps
  <2>6. \A j \in Keys \ {k} : Touch(m, p, k, state)[j] = m[j]
    BY <2>2 DEF Maps
  <2>7. s = "ready" => state = "ready" \/ (m[k] # None /\ m[k].state = "ready")
    BY DEF s
  <2> QED BY <2>3, <2>4, <2>5, <2>6, <2>7
<1> QED BY <1>1, <1>2

LEMMA TouchOther ==
    ASSUME NEW m \in Maps, NEW p \in Pages, NEW k \in Keys,
           NEW state \in {"pending", "ready"}, NEW j \in Keys, j # k
    PROVE  Touch(m, p, k, state)[j] = m[j]
BY TouchFacts

LEMMA ClearFacts ==
    ASSUME NEW m \in Maps, NEW p \in Pages, NEW k \in Keys
    PROVE  /\ Clear(m, p, k) \in Maps
           /\ \A j \in Keys : Clear(m, p, k)[j] \in {m[j], None}
           /\ \A j \in Keys \ {k} : Clear(m, p, k)[j] = m[j]
           /\ Held(m, p, k) => Clear(m, p, k) = m
BY DEF Clear, Maps

\* What is left of an entry is the entry, with its age at most renewed.
LEMMA PrunedFacts ==
    ASSUME TypeOK, NEW p \in Pages, NEW k \in Keys, NEW late
    PROVE  /\ Pruned(p, k, late) \in Entries \cup {None}
           /\ Pruned(p, k, late) # None =>
                /\ reg[k] # None
                /\ Pruned(p, k, late).owner = reg[k].owner
                /\ Pruned(p, k, late).state = reg[k].state
<1>1. CASE reg[k] = None \/ Stale(p, k, late)
  BY <1>1 DEF Pruned
<1>2. CASE ~(reg[k] = None \/ Stale(p, k, late))
  <2>1. reg[k] \in Entries
    BY <1>2 DEF TypeOK
  <2>2. reg[k].owner \in Pages /\ reg[k].state \in {"pending", "ready"}
    BY <2>1 DEF Entries
  <2>3. /\ Entry(reg[k].owner, reg[k].state, "fresh") \in Entries
        /\ Entry(reg[k].owner, reg[k].state, "fresh").owner = reg[k].owner
        /\ Entry(reg[k].owner, reg[k].state, "fresh").state = reg[k].state
    BY <2>2, EntryType
  <2> QED BY <1>2, <2>1, <2>3 DEF Pruned
<1> QED BY <1>1, <1>2

\* A round goes on with a key it has read as another page's, or ends.
LEMMA GoOnFacts ==
    ASSUME TypeOK, NEW p \in up, NEW left \in [Keys -> Pages \cup {None}],
           GoOn(p, left)
    PROVE  /\ probe' \in [Pages -> {None} \cup Rounds]
           /\ \A q \in Pages \ {p} : probe'[q] = probe[q]
           /\ probe'[p] # None =>
                /\ left[probe'[p].key] # None
                /\ probe'[p].left[probe'[p].key] = None
                /\ \A k \in Keys : probe'[p].left[k] # None => left[k] # None
<1>1. p \in Pages
  BY DEF TypeOK
<1>2. CASE probe' = [probe EXCEPT ![p] = None]
  BY <1>1, <1>2 DEF TypeOK
<1>3. ASSUME NEW k \in Suspects(p, left),
             probe' = [probe EXCEPT ![p] =
                [key |-> k, at |-> "asked", left |-> [left EXCEPT ![k] = None]]]
      PROVE  /\ probe' \in [Pages -> {None} \cup Rounds]
             /\ \A q \in Pages \ {p} : probe'[q] = probe[q]
             /\ left[probe'[p].key] # None
             /\ probe'[p].left[probe'[p].key] = None
             /\ \A j \in Keys : probe'[p].left[j] # None => left[j] # None
  <2> DEFINE rest == [left EXCEPT ![k] = None]
             r == [key |-> k, at |-> "asked", left |-> rest]
  <2>1. k \in Keys /\ left[k] # None
    BY DEF Suspects
  <2>2. /\ rest \in [Keys -> Pages \cup {None}] /\ rest[k] = None
        /\ \A j \in Keys : rest[j] # None => left[j] # None
    BY <2>1
  <2> HIDE DEF rest
  <2>3. r \in Rounds /\ r.key = k /\ r.left = rest
    BY <2>1, <2>2 DEF Rounds
  <2>4. probe' = [probe EXCEPT ![p] = r]
    BY <1>3 DEF rest
  <2> HIDE DEF r
  <2>5. probe'[p] = r /\ probe' \in [Pages -> {None} \cup Rounds]
    BY <1>1, <2>3, <2>4 DEF TypeOK
  <2>6. \A q \in Pages \ {p} : probe'[q] = probe[q]
    BY <2>4 DEF TypeOK
  <2> QED BY <2>1, <2>2, <2>3, <2>5, <2>6
<1> QED BY <1>1, <1>2, <1>3 DEF GoOn, TypeOK

LEMMA SnapshotFacts ==
    ASSUME TypeOK, NEW p \in Pages
    PROVE  LET left == [k \in Keys |->
                          IF reg[k] # None /\ reg[k].state = "ready" /\ reg[k].owner # p
                          THEN reg[k].owner ELSE None]
           IN  /\ left \in [Keys -> Pages \cup {None}]
               /\ \A k \in Keys : left[k] # None => reg[k] # None /\ reg[k].state = "ready"
<1>1. reg \in Maps
  BY DEF TypeOK, Maps
<1> QED BY <1>1, EntryFields

(***************************************************************************)
(* TypeOK.                                                                 *)
(***************************************************************************)

LEMMA TypeInit == Init => TypeOK
BY DEF Init, TypeOK, NoEntries

\* buildTunnel by a living page.
LEMMA BuildType ==
    ASSUME TypeOK, NEW p \in up, NEW k \in Keys, NEW m \in Maps, Build(p, k, m)
    PROVE  /\ reg' \in Maps
           /\ tun' \in [Pages -> [Keys -> {"none", "building", "dead", "open"}]]
           /\ \A q \in Pages \ {p} : tun'[q] = tun[q]
<1>1. p \in Pages
  BY DEF TypeOK
<1>2. reg' \in Maps
  BY <1>1, TouchFacts DEF Build
<1> QED BY <1>1, <1>2 DEF Build, TypeOK

\* A step of a living page that leaves the rest as it is.
LEMMA LivingType ==
    ASSUME TypeOK, NEW p \in up, UNCHANGED <<up, kept, controlled>>,
           tun' \in [Pages -> [Keys -> {"none", "building", "dead", "open"}]],
           reg' \in Maps,
           ask' \in [Pages -> {None} \cup Asks],
           probe' \in [Pages -> {None} \cup Rounds],
           pongs' \subseteq Keys \X Pages, opened' \subseteq Keys,
           \A q \in Pages \ {p} : tun'[q] = tun[q] /\ ask'[q] = ask[q] /\ probe'[q] = probe[q]
    PROVE  TypeOK'
<1>1. ASSUME NEW q \in Pages \ up'
      PROVE  ask'[q] = None /\ probe'[q] = None /\ \A k \in Keys : tun'[q][k] = "none"
  <2>1. q \in Pages \ up /\ q # p
    BY <1>1
  <2>2. ask[q] = None /\ probe[q] = None /\ \A k \in Keys : tun[q][k] = "none"
    BY <2>1 DEF TypeOK
  <2> QED BY <2>1, <2>2
<1> QED BY <1>1 DEF TypeOK, Maps

LEMMA TypeStep == TypeOK /\ [Next]_vars => TypeOK'
<1> SUFFICES ASSUME TypeOK, [Next]_vars PROVE TypeOK'
  OBVIOUS
<1>0. reg \in Maps /\ up \subseteq Pages
  BY DEF TypeOK, Maps
<1>1. ASSUME NEW p \in Pages, OfPage(p) PROVE TypeOK'
  <2>1. CASE TouchKeeper(p)
    BY <2>1 DEF TouchKeeper, TypeOK
  <2>2. CASE KeeperLapses(p)
    BY <2>2 DEF KeeperLapses, TypeOK
  <2>3. CASE Leave(p)
    <3>1. UNCHANGED <<reg, opened, controlled>>
      BY <2>3 DEF Leave
    <3>2. up' \subseteq Pages /\ kept' \subseteq Pages /\ pongs' \subseteq Keys \X Pages
      BY <2>3 DEF Leave, TypeOK
    <3>3. tun' \in [Pages -> [Keys -> {"none", "building", "dead", "open"}]]
      BY <2>3 DEF Leave, TypeOK
    <3>4. ask' \in [Pages -> {None} \cup Asks] /\ probe' \in [Pages -> {None} \cup Rounds]
      BY <2>3 DEF Leave, TypeOK
    <3>5. ASSUME NEW q \in Pages \ up'
          PROVE  ask'[q] = None /\ probe'[q] = None /\ \A k \in Keys : tun'[q][k] = "none"
      <4>1. CASE q = p
        BY <2>3, <4>1 DEF Leave, TypeOK
      <4>2. CASE q # p
        BY <2>3, <4>2 DEF Leave, TypeOK
      <4> QED BY <4>1, <4>2
    <3> QED BY <3>1, <3>2, <3>3, <3>4, <3>5 DEF TypeOK
  <2>4. CASE AskServed(p)
    <3>1. p \in up /\ ask[p] \in Asks
      BY <2>4 DEF AskServed, TypeOK
    <3>2. [ask[p] EXCEPT !.at = "served"] \in Asks
      BY <3>1 DEF Asks
    <3>3. ask' = [ask EXCEPT ![p] = [ask[p] EXCEPT !.at = "served"]]
      BY <2>4 DEF AskServed
    <3>4. ask' \in [Pages -> {None} \cup Asks] /\ \A q \in Pages \ {p} : ask'[q] = ask[q]
      BY <3>2, <3>3 DEF TypeOK
    <3>5. UNCHANGED <<up, kept, tun, reg, probe, pongs, opened, controlled>>
      BY <2>4 DEF AskServed
    <3> QED BY <3>1, <3>4, <3>5, <1>0, LivingType DEF TypeOK
  <2>5. CASE Shared(p)
    <3>1. p \in up /\ ask[p] \in Asks
      BY <2>5 DEF Shared, TypeOK
    <3>2. reg' \in Maps
      BY <2>5, <3>1, <1>0, TouchFacts DEF Shared, Asks
    <3>3. ask' \in [Pages -> {None} \cup Asks] /\ \A q \in Pages \ {p} : ask'[q] = ask[q]
      BY <2>5 DEF Shared, TypeOK
    <3>4. UNCHANGED <<up, kept, tun, probe, pongs, opened, controlled>>
      BY <2>5 DEF Shared
    <3> QED BY <3>1, <3>2, <3>3, <3>4, LivingType DEF TypeOK
  <2>6. CASE NotShared(p)
    <3>1. p \in up /\ ask[p] \in Asks
      BY <2>6 DEF NotShared, TypeOK
    <3>2. ask[p].key \in Keys /\ ask[p].rest \in Maps
      BY <3>1 DEF Asks, Maps
    <3>3. /\ reg' \in Maps
          /\ tun' \in [Pages -> [Keys -> {"none", "building", "dead", "open"}]]
          /\ \A q \in Pages \ {p} : tun'[q] = tun[q]
      BY <2>6, <3>1, <3>2, BuildType DEF NotShared
    <3>4. ask' \in [Pages -> {None} \cup Asks] /\ \A q \in Pages \ {p} : ask'[q] = ask[q]
      BY <2>6 DEF NotShared, TypeOK
    <3>5. UNCHANGED <<up, kept, probe, pongs, opened, controlled>>
      BY <2>6 DEF NotShared
    <3> QED BY <3>1, <3>3, <3>4, <3>5, LivingType DEF TypeOK
  <2>7. CASE Prune(p)
    <3>1. p \in up /\ UNCHANGED <<up, kept, ask, probe, pongs, opened, controlled>>
      BY <2>7 DEF Prune
    <3>2. PICK late \in SUBSET Keys : reg' = [k \in Keys |-> Pruned(p, k, k \in late)]
      BY <2>7 DEF Prune
    <3>3. reg' \in Maps
      BY <3>2, PrunedFacts DEF Maps
    <3>4. /\ tun' \in [Pages -> [Keys -> {"none", "building", "dead", "open"}]]
          /\ \A q \in Pages \ {p} : tun'[q] = tun[q]
      BY <2>7 DEF Prune, TypeOK
    <3> QED BY <3>1, <3>3, <3>4, LivingType DEF TypeOK
  <2>8. CASE StartProbe(p)
    <3>1. PICK left \in [Keys -> Pages \cup {None}] : GoOn(p, left)
      BY <2>8, SnapshotFacts DEF StartProbe
    <3>2. p \in up /\ UNCHANGED <<up, kept, tun, reg, ask, pongs, opened, controlled>>
      BY <2>8 DEF StartProbe
    <3> QED BY <3>1, <3>2, <1>0, GoOnFacts, LivingType DEF TypeOK
  <2>9. CASE ProbeServed(p)
    <3>1. p \in up /\ probe[p] \in Rounds
      BY <2>9 DEF ProbeServed, TypeOK
    <3>2. [probe[p] EXCEPT !.at = "served"] \in Rounds
      BY <3>1 DEF Rounds
    <3>3. probe' = [probe EXCEPT ![p] = [probe[p] EXCEPT !.at = "served"]]
      BY <2>9 DEF ProbeServed
    <3>4. probe' \in [Pages -> {None} \cup Rounds] /\ \A q \in Pages \ {p} : probe'[q] = probe[q]
      BY <3>2, <3>3 DEF TypeOK
    <3>5. UNCHANGED <<up, kept, tun, reg, ask, pongs, opened, controlled>>
      BY <2>9 DEF ProbeServed
    <3> QED BY <3>1, <3>4, <3>5, <1>0, LivingType DEF TypeOK
  <2>10. CASE ProbeOk(p)
    <3>1. p \in up /\ probe[p] \in Rounds
      BY <2>10 DEF ProbeOk, TypeOK
    <3>2. probe[p].key \in Keys /\ probe[p].left \in [Keys -> Pages \cup {None}]
      BY <3>1 DEF Rounds
    <3>3. reg' \in Maps
      BY <2>10, <3>2, <1>0, TouchFacts DEF ProbeOk
    <3>4. GoOn(p, probe[p].left) /\ UNCHANGED <<up, kept, tun, ask, pongs, opened, controlled>>
      BY <2>10 DEF ProbeOk
    <3> QED BY <3>1, <3>2, <3>3, <3>4, GoOnFacts, LivingType DEF TypeOK
  <2>11. CASE ProbeFails(p)
    <3>1. p \in up /\ probe[p] \in Rounds
      BY <2>11 DEF ProbeFails, TypeOK
    <3>2. probe[p].key \in Keys /\ probe[p].left \in [Keys -> Pages \cup {None}]
      BY <3>1 DEF Rounds
    <3>3. reg' \in Maps
      BY <2>11, <3>2, <1>0 DEF ProbeFails, Maps
    <3>4. GoOn(p, probe[p].left) /\ UNCHANGED <<up, kept, tun, ask, pongs, opened, controlled>>
      BY <2>11 DEF ProbeFails
    <3> QED BY <3>1, <3>2, <3>3, <3>4, GoOnFacts, LivingType DEF TypeOK
  <2> QED BY <1>1, <2>1, <2>2, <2>3, <2>4, <2>5, <2>6, <2>7, <2>8, <2>9, <2>10, <2>11 DEF OfPage
<1>2. ASSUME NEW p \in Pages, NEW k \in Keys, OfTunnel(p, k) PROVE TypeOK'
  <2>1. CASE Ensure(p, k) \/ Adopt(p, k)
    <3>0. Ensure(p, k)
      BY <2>1 DEF Adopt, Takeover
    <3>1. p \in up /\ UNCHANGED <<up, kept, probe, pongs, opened, controlled>>
      BY <3>0 DEF Ensure
    <3>2. [reg EXCEPT ![k] = None] \in Maps
      BY <1>0 DEF Maps
    <3>3. CASE Alive(p, k) /\ reg[k].owner \in kept
      <4> DEFINE a == [key |-> k, at |-> "asked", rest |-> [reg EXCEPT ![k] = None]]
      <4>1. a \in Asks
        BY <3>2 DEF Asks, Maps
      <4>2. ask' = [ask EXCEPT ![p] = a] /\ tun' = [tun EXCEPT ![p][k] = "none"] /\ reg' = reg
        BY <3>0, <3>3 DEF Ensure
      <4> HIDE DEF a
      <4>3. ask' \in [Pages -> {None} \cup Asks] /\ \A q \in Pages \ {p} : ask'[q] = ask[q]
        BY <4>1, <4>2 DEF TypeOK
      <4>4. /\ tun' \in [Pages -> [Keys -> {"none", "building", "dead", "open"}]]
            /\ \A q \in Pages \ {p} : tun'[q] = tun[q]
        BY <4>2 DEF TypeOK
      <4> QED BY <3>1, <4>2, <4>3, <4>4, <1>0, LivingType DEF TypeOK
    <3>4. CASE ~(Alive(p, k) /\ reg[k].owner \in kept)
      <4>1. PICK m \in Maps : Build(p, k, m)
        BY <3>0, <3>2, <3>4, <1>0 DEF Ensure
      <4>2. ask' = ask
        BY <3>0, <3>4 DEF Ensure
      <4> QED BY <3>1, <4>1, <4>2, BuildType, LivingType DEF TypeOK
    <3> QED BY <3>3, <3>4
  <2>2. CASE LosesSignal(p, k)
    <3>1. p \in up
      BY <2>2 DEF LosesSignal, TypeOK
    <3>2. UNCHANGED <<up, kept, reg, ask, probe, pongs, opened, controlled>>
      BY <2>2 DEF LosesSignal
    <3>3. /\ tun' \in [Pages -> [Keys -> {"none", "building", "dead", "open"}]]
          /\ \A q \in Pages \ {p} : tun'[q] = tun[q]
      BY <2>2 DEF LosesSignal, TypeOK
    <3> QED BY <3>1, <3>2, <3>3, <1>0, LivingType DEF TypeOK
  <2>3. CASE Opens(p, k)
    <3>1. p \in up
      BY <2>3 DEF Opens, TypeOK
    <3>2. UNCHANGED <<up, kept, ask, probe, pongs, controlled>> /\ opened' \subseteq Keys
      BY <2>3 DEF Opens, TypeOK
    <3>3. /\ tun' \in [Pages -> [Keys -> {"none", "building", "dead", "open"}]]
          /\ \A q \in Pages \ {p} : tun'[q] = tun[q]
      BY <2>3 DEF Opens, TypeOK
    <3>4. reg' \in Maps
      BY <2>3, <1>0, EntryType DEF Opens, Maps
    <3> QED BY <3>1, <3>2, <3>3, <3>4, LivingType DEF TypeOK
  <2>4. CASE Closes(p, k)
    <3>1. p \in up /\ UNCHANGED <<up, kept, ask, probe, pongs, opened, controlled>>
      BY <2>4 DEF Closes
    <3>2. reg' \in Maps
      BY <2>4, <1>0, ClearFacts DEF Closes
    <3>3. /\ tun' \in [Pages -> [Keys -> {"none", "building", "dead", "open"}]]
          /\ \A q \in Pages \ {p} : tun'[q] = tun[q]
      BY <2>4 DEF Closes, TypeOK
    <3> QED BY <3>1, <3>2, <3>3, LivingType DEF TypeOK
  <2>5. CASE TouchTick(p, k)
    <3>1. reg' \in Maps /\ UNCHANGED <<up, kept, tun, ask, probe, pongs, opened, controlled>>
      BY <2>5, <1>0, TouchFacts DEF TouchTick, Reuse
    <3> QED BY <3>1 DEF TypeOK, Maps
  <2>6. CASE Pong(p, k)
    BY <2>6 DEF Pong, TypeOK
  <2>7. CASE HearPong(p, k)
    <3>1. UNCHANGED <<up, kept, tun, ask, probe, opened, controlled>>
      BY <2>7 DEF HearPong
    <3>2. reg' \in Maps
      BY <2>7, <1>0, EntryFields, EntryType DEF HearPong, Maps
    <3>3. pongs' \subseteq Keys \X Pages
      BY <2>7 DEF HearPong, TypeOK
    <3> QED BY <3>1, <3>2, <3>3 DEF TypeOK, Maps
  <2> QED BY <1>2, <2>1, <2>2, <2>3, <2>4, <2>5, <2>6, <2>7 DEF OfTunnel
<1>3. ASSUME NEW k \in Keys, Expires(k) PROVE TypeOK'
  <2>1. UNCHANGED <<up, kept, tun, ask, probe, pongs, opened, controlled>>
    BY <1>3 DEF Expires
  <2>2. reg' \in Maps
    BY <1>3, <1>0, EntryFields, EntryType DEF Expires, Fresh, Maps
  <2> QED BY <2>1, <2>2 DEF TypeOK, Maps
<1>4. CASE UNCHANGED vars
  BY <1>4 DEF vars, TypeOK
<1> QED BY <1>1, <1>2, <1>3, <1>4 DEF Next

\* Every variable keeps its type, and what a page had under way goes with it.
THEOREM TypeCorrect == Spec => []TypeOK
BY TypeInit, TypeStep, PTL DEF Spec

(***************************************************************************)
(* ReadyWasOpen.  What a page has read before a probe, what it is about to *)
(* look at and what other pages tell it must not say more than the entries *)
(* did: that is the rest of the inductive invariant.                       *)
(***************************************************************************)

TunOpened == \A p \in Pages, k \in Keys : tun[p][k] = "open" => k \in opened

AskOpened == \A p \in Pages : ask[p] # None =>
    /\ ask[p].key \in opened
    /\ \A k \in Keys : ask[p].rest[k] # None /\ ask[p].rest[k].state = "ready" => k \in opened

RoundOpened == \A p \in Pages : probe[p] # None =>
    /\ probe[p].key \in opened
    /\ \A k \in Keys : probe[p].left[k] # None => k \in opened

PongOpened == \A p \in Pages, k \in Keys : <<k, p>> \in pongs => k \in opened

OpenedInv == ReadyWasOpen /\ TunOpened /\ AskOpened /\ RoundOpened /\ PongOpened

LEMMA OpenedInit == Init => OpenedInv
BY DEF Init, NoEntries, OpenedInv, ReadyWasOpen, TunOpened, AskOpened, RoundOpened, PongOpened

\* A map whose entries say ready only of such targets, and a touch of it.
LEMMA TouchOpened ==
    ASSUME NEW m \in Maps, NEW p \in Pages, NEW k \in Keys,
           NEW state \in {"pending", "ready"}, state = "ready" => k \in opened,
           \A j \in Keys : m[j] # None /\ m[j].state = "ready" => j \in opened
    PROVE  \A j \in Keys : Touch(m, p, k, state)[j] # None /\ Touch(m, p, k, state)[j].state = "ready"
                => j \in opened
<1>1. TAKE j \in Keys
<1>2. CASE j # k
  BY <1>2, TouchFacts
<1>3. CASE j = k
  BY <1>3, TouchFacts
<1> QED BY <1>2, <1>3

LEMMA OpenedStep == TypeOK /\ OpenedInv /\ [Next]_vars => OpenedInv'
<1> SUFFICES ASSUME TypeOK, OpenedInv, [Next]_vars PROVE OpenedInv'
  OBVIOUS
<1>0. /\ reg \in Maps /\ up \subseteq Pages
      /\ ReadyWasOpen /\ TunOpened /\ AskOpened /\ RoundOpened /\ PongOpened
  BY DEF TypeOK, Maps, OpenedInv
<1>a. ASSUME opened' = opened, reg' = reg PROVE ReadyWasOpen'
  BY <1>a, <1>0 DEF ReadyWasOpen
<1>b. ASSUME opened' = opened, tun' = tun PROVE TunOpened'
  BY <1>b, <1>0 DEF TunOpened
<1>c. ASSUME opened' = opened, \A p \in Pages : ask'[p] \in {ask[p], None} PROVE AskOpened'
  BY <1>c, <1>0 DEF AskOpened
<1>d. ASSUME opened' = opened, \A p \in Pages : probe'[p] \in {probe[p], None} PROVE RoundOpened'
  BY <1>d, <1>0 DEF RoundOpened
<1>e. ASSUME opened' = opened, pongs' \subseteq pongs PROVE PongOpened'
  BY <1>e, <1>0 DEF PongOpened
<1>f. ASSUME opened' = opened, NEW p \in Pages, NEW k \in Keys, NEW m \in Maps, Build(p, k, m),
             \A j \in Keys : m[j] # None /\ m[j].state = "ready" => j \in opened
      PROVE  ReadyWasOpen' /\ TunOpened'
  <2>1. ReadyWasOpen'
    BY <1>f, TouchOpened DEF Build, ReadyWasOpen
  <2>2. TunOpened'
    BY <1>f, <1>0 DEF Build, TunOpened, TypeOK
  <2> QED BY <2>1, <2>2
<1>g. ASSUME opened' = opened, NEW p \in up, NEW left \in [Keys -> Pages \cup {None}], GoOn(p, left),
             \A k \in Keys : left[k] # None => k \in opened
      PROVE  RoundOpened'
  <2>1. \A q \in Pages \ {p} : probe'[q] = probe[q]
    BY <1>g, GoOnFacts
  <2>2. probe'[p] # None =>
          /\ probe'[p].key \in opened
          /\ \A k \in Keys : probe'[p].left[k] # None => k \in opened
    <3>1. p \in Pages /\ probe'[p] \in {None} \cup Rounds
      BY <1>0, <1>g, GoOnFacts
    <3>2. probe'[p] # None => probe'[p].key \in Keys
      BY <3>1 DEF Rounds
    <3> QED BY <1>g, <3>2, GoOnFacts
  <2> QED BY <1>g, <1>0, <2>1, <2>2 DEF RoundOpened
<1>1. ASSUME NEW p \in Pages, OfPage(p) PROVE OpenedInv'
  <2>1. CASE TouchKeeper(p)
    BY <2>1, <1>a, <1>b, <1>c, <1>d, <1>e DEF TouchKeeper, OpenedInv
  <2>2. CASE KeeperLapses(p)
    BY <2>2, <1>a, <1>b, <1>c, <1>d, <1>e DEF KeeperLapses, OpenedInv
  <2>3. CASE Leave(p)
    <3>1. UNCHANGED <<reg, opened>> /\ pongs' \subseteq pongs
      BY <2>3 DEF Leave
    <3>2. /\ \A q \in Pages : ask'[q] \in {ask[q], None}
          /\ \A q \in Pages : probe'[q] \in {probe[q], None}
      BY <2>3 DEF Leave, TypeOK
    <3>3. TunOpened'
      BY <2>3, <3>1, <1>0 DEF Leave, TypeOK, TunOpened
    <3> QED BY <3>1, <3>2, <3>3, <1>a, <1>c, <1>d, <1>e DEF OpenedInv
  <2>4. CASE AskServed(p)
    <3>1. UNCHANGED <<tun, reg, probe, pongs, opened>>
      BY <2>4 DEF AskServed
    <3>2. ask[p] \in Asks /\ ask' = [ask EXCEPT ![p] = [ask[p] EXCEPT !.at = "served"]]
      BY <2>4 DEF AskServed, TypeOK
    <3>3. /\ [ask[p] EXCEPT !.at = "served"].key = ask[p].key
          /\ [ask[p] EXCEPT !.at = "served"].rest = ask[p].rest
      BY <3>2 DEF Asks
    <3>4. ask[p] # None
      BY <2>4 DEF AskServed
    <3>5. ask'[p].key = ask[p].key /\ ask'[p].rest = ask[p].rest
      BY <3>2, <3>3 DEF TypeOK
    <3>6. \A q \in Pages \ {p} : ask'[q] = ask[q]
      BY <3>2 DEF TypeOK
    <3>7. AskOpened'
      BY <1>0, <3>1, <3>4, <3>5, <3>6 DEF AskOpened
    <3> QED BY <3>1, <3>7, <1>a, <1>b, <1>d, <1>e DEF OpenedInv
  <2>5. CASE Shared(p)
    <3>1. ask[p] \in Asks /\ ask[p].key \in Keys /\ ask[p].key \in opened
      BY <2>5, <1>0 DEF Shared, TypeOK, Asks, AskOpened
    <3>2. reg' = Touch(reg, p, ask[p].key, "ready") /\ UNCHANGED <<tun, probe, pongs, opened>>
      BY <2>5 DEF Shared
    <3>3. ReadyWasOpen'
      BY <3>1, <3>2, <1>0, TouchOpened DEF ReadyWasOpen
    <3>4. \A q \in Pages : ask'[q] \in {ask[q], None}
      BY <2>5 DEF Shared, TypeOK
    <3> QED BY <3>2, <3>3, <3>4, <1>b, <1>c, <1>d, <1>e DEF OpenedInv
  <2>6. CASE NotShared(p)
    <3>1. ask[p] # None /\ ask[p] \in Asks
      BY <2>6 DEF NotShared, TypeOK
    <3>2. ask[p].key \in Keys /\ ask[p].rest \in Maps
      BY <3>1 DEF Asks, Maps
    <3>3. Build(p, ask[p].key, ask[p].rest) /\ UNCHANGED <<probe, pongs, opened>>
      BY <2>6 DEF NotShared
    <3>4. ReadyWasOpen' /\ TunOpened'
      BY <3>1, <3>2, <3>3, <1>0, <1>f DEF AskOpened
    <3>5. \A q \in Pages : ask'[q] \in {ask[q], None}
      BY <2>6 DEF NotShared, TypeOK
    <3> QED BY <3>3, <3>4, <3>5, <1>c, <1>d, <1>e DEF OpenedInv
  <2>7. CASE Prune(p)
    <3>1. UNCHANGED <<ask, probe, pongs, opened>>
      BY <2>7 DEF Prune
    <3>2. PICK late \in SUBSET Keys : reg' = [k \in Keys |-> Pruned(p, k, k \in late)]
      BY <2>7 DEF Prune
    <3>3. ReadyWasOpen'
      BY <3>1, <3>2, <1>0, PrunedFacts DEF ReadyWasOpen
    <3>4. TunOpened'
      BY <2>7, <1>0 DEF Prune, TypeOK, TunOpened
    <3> QED BY <3>1, <3>3, <3>4, <1>c, <1>d, <1>e DEF OpenedInv
  <2>8. CASE StartProbe(p)
    <3>1. PICK left \in [Keys -> Pages \cup {None}] :
              GoOn(p, left) /\ \A k \in Keys : left[k] # None => k \in opened
      BY <2>8, <1>0, SnapshotFacts DEF StartProbe, ReadyWasOpen
    <3>2. p \in up /\ UNCHANGED <<tun, reg, ask, pongs, opened>>
      BY <2>8 DEF StartProbe
    <3> QED BY <3>1, <3>2, <1>a, <1>b, <1>c, <1>e, <1>g DEF OpenedInv
  <2>9. CASE ProbeServed(p)
    <3>1. UNCHANGED <<tun, reg, ask, pongs, opened>>
      BY <2>9 DEF ProbeServed
    <3>2. probe[p] \in Rounds /\ probe' = [probe EXCEPT ![p] = [probe[p] EXCEPT !.at = "served"]]
      BY <2>9 DEF ProbeServed, TypeOK
    <3>3. /\ [probe[p] EXCEPT !.at = "served"].key = probe[p].key
          /\ [probe[p] EXCEPT !.at = "served"].left = probe[p].left
      BY <3>2 DEF Rounds
    <3>4. probe[p] # None
      BY <2>9 DEF ProbeServed
    <3>5. probe'[p].key = probe[p].key /\ probe'[p].left = probe[p].left
      BY <3>2, <3>3 DEF TypeOK
    <3>6. \A q \in Pages \ {p} : probe'[q] = probe[q]
      BY <3>2 DEF TypeOK
    <3>7. RoundOpened'
      BY <1>0, <3>1, <3>4, <3>5, <3>6 DEF RoundOpened
    <3> QED BY <3>1, <3>7, <1>a, <1>b, <1>c, <1>e DEF OpenedInv
  <2>10. CASE ProbeOk(p) \/ ProbeFails(p)
    <3>1. p \in up /\ probe[p] # None /\ probe[p] \in Rounds
      BY <2>10 DEF ProbeOk, ProbeFails, TypeOK
    <3>2. probe[p].key \in Keys /\ probe[p].left \in [Keys -> Pages \cup {None}]
      BY <3>1 DEF Rounds
    <3>3. probe[p].key \in opened /\ \A k \in Keys : probe[p].left[k] # None => k \in opened
      BY <3>1, <1>0 DEF RoundOpened, TypeOK
    <3>4. GoOn(p, probe[p].left) /\ UNCHANGED <<tun, ask, pongs, opened>>
      BY <2>10 DEF ProbeOk, ProbeFails
    <3>5. CASE ProbeOk(p)
      <4>1. reg' = Touch(reg, p, probe[p].key, "ready")
        BY <3>5 DEF ProbeOk
      <4>2. ReadyWasOpen'
        BY <4>1, <3>2, <3>3, <3>4, <1>0, TouchOpened DEF ReadyWasOpen
      <4> QED BY <4>2, <3>1, <3>2, <3>3, <3>4, <1>b, <1>c, <1>e, <1>g DEF OpenedInv
    <3>6. CASE ProbeFails(p)
      <4>1. reg' = [reg EXCEPT ![probe[p].key] = None]
        BY <3>6 DEF ProbeFails
      <4>2. ReadyWasOpen'
        BY <4>1, <3>2, <3>4, <1>0 DEF ReadyWasOpen, Maps
      <4> QED BY <4>2, <3>1, <3>2, <3>3, <3>4, <1>b, <1>c, <1>e, <1>g DEF OpenedInv
    <3> QED BY <2>10, <3>5, <3>6
  <2> QED BY <1>1, <2>1, <2>2, <2>3, <2>4, <2>5, <2>6, <2>7, <2>8, <2>9, <2>10 DEF OfPage
<1>2. ASSUME NEW p \in Pages, NEW k \in Keys, OfTunnel(p, k) PROVE OpenedInv'
  <2>1. CASE Ensure(p, k) \/ Adopt(p, k)
    <3>0. Ensure(p, k)
      BY <2>1 DEF Adopt, Takeover
    <3>1. UNCHANGED <<probe, pongs, opened>>
      BY <3>0 DEF Ensure
    <3>2. CASE Alive(p, k) /\ reg[k].owner \in kept
      <4>1. /\ ask' = [ask EXCEPT ![p] = [key |-> k, at |-> "asked",
                                           rest |-> [reg EXCEPT ![k] = None]]]
            /\ tun' = [tun EXCEPT ![p][k] = "none"] /\ reg' = reg
        BY <3>0, <3>2 DEF Ensure
      <4>2. /\ ask'[p].key = k /\ ask'[p].rest = [reg EXCEPT ![k] = None]
            /\ \A q \in Pages \ {p} : ask'[q] = ask[q]
        BY <4>1 DEF TypeOK
      <4>3. k \in opened
        BY <3>2, <1>0 DEF Alive, Fresh, ReadyWasOpen
      <4>4. \A j \in Keys : ask'[p].rest[j] # None /\ ask'[p].rest[j].state = "ready" => j \in opened
        BY <4>2, <1>0 DEF ReadyWasOpen, Maps
      <4>5. AskOpened'
        BY <4>2, <4>3, <4>4, <3>1, <1>0 DEF AskOpened
      <4>6. TunOpened'
        BY <4>1, <3>1, <1>0 DEF TunOpened, TypeOK
      <4> QED BY <3>1, <4>1, <4>5, <4>6, <1>a, <1>d, <1>e DEF OpenedInv
    <3>3. CASE ~(Alive(p, k) /\ reg[k].owner \in kept)
      <4>1. Build(p, k, IF Alive(p, k) THEN [reg EXCEPT ![k] = None] ELSE reg) /\ ask' = ask
        BY <3>0, <3>3 DEF Ensure
      <4> DEFINE gone == [reg EXCEPT ![k] = None]
      <4>a. gone \in Maps /\ \A j \in Keys : gone[j] # None => gone[j] = reg[j]
        BY <1>0 DEF Maps
      <4>b. Build(p, k, gone) \/ Build(p, k, reg)
        BY <4>1
      <4> HIDE DEF gone
      <4>2. PICK m \in Maps : Build(p, k, m) /\ \A j \in Keys : m[j] # None => m[j] = reg[j]
        BY <4>a, <4>b, <1>0
      <4>3. ReadyWasOpen' /\ TunOpened'
        BY <3>1, <4>2, <1>0, <1>f DEF ReadyWasOpen
      <4> QED BY <3>1, <4>1, <4>3, <1>c, <1>d, <1>e DEF OpenedInv
    <3> QED BY <3>2, <3>3
  <2>2. CASE LosesSignal(p, k)
    <3>1. UNCHANGED <<reg, ask, probe, pongs, opened>>
      BY <2>2 DEF LosesSignal
    <3>2. TunOpened'
      BY <2>2, <1>0 DEF LosesSignal, TunOpened, TypeOK
    <3> QED BY <3>1, <3>2, <1>a, <1>c, <1>d, <1>e DEF OpenedInv
  <2>3. CASE Opens(p, k)
    <3>1. opened' = opened \cup {k} /\ UNCHANGED <<ask, probe, pongs>>
      BY <2>3 DEF Opens
    <3>2. TunOpened'
      BY <2>3, <1>0 DEF Opens, TunOpened, TypeOK
    <3>3. ReadyWasOpen'
      BY <2>3, <1>0 DEF Opens, ReadyWasOpen, Maps
    <3>4. AskOpened' /\ RoundOpened' /\ PongOpened'
      BY <3>1, <1>0 DEF AskOpened, RoundOpened, PongOpened
    <3> QED BY <3>2, <3>3, <3>4 DEF OpenedInv
  <2>4. CASE Closes(p, k)
    <3>1. UNCHANGED <<ask, probe, pongs, opened>>
      BY <2>4 DEF Closes
    <3>2. ReadyWasOpen'
      BY <2>4, <3>1, <1>0, ClearFacts DEF Closes, ReadyWasOpen
    <3>3. TunOpened'
      BY <2>4, <1>0 DEF Closes, TunOpened, TypeOK
    <3> QED BY <3>1, <3>2, <3>3, <1>c, <1>d, <1>e DEF OpenedInv
  <2>5. CASE TouchTick(p, k)
    <3>1. UNCHANGED <<tun, ask, probe, pongs, opened>>
      BY <2>5 DEF TouchTick, Reuse
    <3>2. ReadyWasOpen'
      BY <2>5, <3>1, <1>0, TouchOpened DEF TouchTick, Reuse, ReadyWasOpen, TunOpened
    <3> QED BY <3>1, <3>2, <1>b, <1>c, <1>d, <1>e DEF OpenedInv
  <2>6. CASE Pong(p, k)
    <3>1. UNCHANGED <<tun, reg, ask, probe, opened>>
      BY <2>6 DEF Pong
    <3>2. PongOpened'
      BY <2>6, <1>0 DEF Pong, PongOpened, TunOpened
    <3> QED BY <3>1, <3>2, <1>a, <1>b, <1>c, <1>d DEF OpenedInv
  <2>7. CASE HearPong(p, k)
    <3>1. UNCHANGED <<tun, ask, probe, opened>> /\ pongs' \subseteq pongs
      BY <2>7 DEF HearPong
    <3>2. k \in opened
      BY <2>7, <1>0 DEF HearPong, PongOpened
    <3>3. \A j \in Keys \ {k} : reg'[j] = reg[j]
      BY <2>7, <1>0 DEF HearPong, Maps
    <3>4. ReadyWasOpen'
      BY <3>1, <3>2, <3>3, <1>0 DEF ReadyWasOpen
    <3> QED BY <3>1, <3>4, <1>b, <1>c, <1>d, <1>e DEF OpenedInv
  <2> QED BY <1>2, <2>1, <2>2, <2>3, <2>4, <2>5, <2>6, <2>7 DEF OfTunnel
<1>3. ASSUME NEW k \in Keys, Expires(k) PROVE OpenedInv'
  <2>1. UNCHANGED <<tun, ask, probe, pongs, opened>>
    BY <1>3 DEF Expires
  <2>2. reg[k] # None /\ reg' = [reg EXCEPT ![k] = Entry(reg[k].owner, reg[k].state, "expired")]
    BY <1>3 DEF Expires, Fresh
  <2>3. reg'[k].state = reg[k].state /\ \A j \in Keys \ {k} : reg'[j] = reg[j]
    BY <2>2, <1>0 DEF Maps, Entry
  <2>4. ReadyWasOpen'
    BY <2>1, <2>2, <2>3, <1>0 DEF ReadyWasOpen
  <2> QED BY <2>1, <2>4, <1>b, <1>c, <1>d, <1>e DEF OpenedInv
<1>4. CASE UNCHANGED vars
  BY <1>4, <1>a, <1>b, <1>c, <1>d, <1>e DEF vars, OpenedInv
<1> QED BY <1>1, <1>2, <1>3, <1>4 DEF Next

\* No entry says ready of a target no channel has been open for
\* (client.js:109, 124, 135-136, 478).
THEOREM ReadyOnlyOnceOpen == Spec => []ReadyWasOpen
<1>1. OpenedInv => ReadyWasOpen
  BY DEF OpenedInv
<1> QED BY <1>1, TypeInit, TypeStep, OpenedInit, OpenedStep, PTL DEF Spec

(***************************************************************************)
(* Respected.                                                              *)
(***************************************************************************)

\* A round does not look at the same entry twice.
RoundDone == \A p \in Pages : probe[p] # None => probe[p].left[probe[p].key] = None

LEMMA RoundInit == Init => RoundDone
BY DEF Init, RoundDone

LEMMA RoundStep == TypeOK /\ RoundDone /\ [Next]_vars => RoundDone'
<1> SUFFICES ASSUME TypeOK, RoundDone, [Next]_vars PROVE RoundDone'
  OBVIOUS
<1>1. ASSUME \A p \in Pages : probe'[p] \in {probe[p], None} PROVE RoundDone'
  BY <1>1 DEF RoundDone
<1>2. ASSUME NEW p \in up, NEW left \in [Keys -> Pages \cup {None}], GoOn(p, left)
      PROVE  RoundDone'
  BY <1>2, GoOnFacts DEF RoundDone
<1>3. ASSUME NEW p \in Pages, OfPage(p) PROVE RoundDone'
  <2>1. CASE Leave(p)
    BY <2>1, <1>1 DEF Leave, TypeOK
  <2>2. CASE StartProbe(p)
    BY <2>2, <1>2, SnapshotFacts DEF StartProbe
  <2>3. CASE ProbeServed(p)
    <3>1. probe[p] \in Rounds /\ probe' = [probe EXCEPT ![p] = [probe[p] EXCEPT !.at = "served"]]
      BY <2>3 DEF ProbeServed, TypeOK
    <3>2. /\ [probe[p] EXCEPT !.at = "served"].key = probe[p].key
          /\ [probe[p] EXCEPT !.at = "served"].left = probe[p].left
      BY <3>1 DEF Rounds
    <3>3. probe[p] # None
      BY <2>3 DEF ProbeServed
    <3>4. probe'[p].key = probe[p].key /\ probe'[p].left = probe[p].left
      BY <3>1, <3>2 DEF TypeOK
    <3>5. \A q \in Pages \ {p} : probe'[q] = probe[q]
      BY <3>1 DEF TypeOK
    <3> QED BY <3>3, <3>4, <3>5 DEF RoundDone
  <2>4. CASE ProbeOk(p) \/ ProbeFails(p)
    <3>1. p \in up /\ probe[p] \in Rounds /\ GoOn(p, probe[p].left)
      BY <2>4 DEF ProbeOk, ProbeFails, TypeOK
    <3> QED BY <3>1, <1>2 DEF Rounds
  <2>5. CASE TouchKeeper(p) \/ KeeperLapses(p)
    BY <2>5, <1>1 DEF TouchKeeper, KeeperLapses
  <2>6. CASE AskServed(p) \/ Shared(p) \/ NotShared(p) \/ Prune(p)
    BY <2>6, <1>1 DEF AskServed, Shared, NotShared, Prune
  <2> QED BY <1>3, <2>1, <2>2, <2>3, <2>4, <2>5, <2>6 DEF OfPage
<1>4. ASSUME NEW p \in Pages, NEW k \in Keys, OfTunnel(p, k) PROVE RoundDone'
  <2>1. CASE Ensure(p, k) \/ Adopt(p, k)
    BY <2>1, <1>1 DEF Adopt, Takeover, Ensure
  <2>2. CASE LosesSignal(p, k) \/ Opens(p, k) \/ Closes(p, k)
    BY <2>2, <1>1 DEF LosesSignal, Opens, Closes
  <2>3. CASE TouchTick(p, k) \/ Pong(p, k) \/ HearPong(p, k)
    BY <2>3, <1>1 DEF TouchTick, Reuse, Pong, HearPong
  <2> QED BY <1>4, <2>1, <2>2, <2>3 DEF OfTunnel
<1>5. ASSUME NEW k \in Keys, Expires(k) PROVE RoundDone'
  BY <1>5, <1>1 DEF Expires
<1>6. CASE UNCHANGED vars
  BY <1>6, <1>1 DEF vars
<1> QED BY <1>3, <1>4, <1>5, <1>6 DEF Next

\* A round that goes on looks at another key, or is over.
LEMMA RoundMoves == ASSUME TypeOK, RoundDone, NEW q \in up, probe[q] \in Rounds,
                           GoOn(q, probe[q].left)
                    PROVE  probe'[q] # probe[q]
<1>1. probe[q] # None /\ probe[q].left \in [Keys -> Pages \cup {None}] /\ q \in Pages
  BY RegistryAssumption DEF Rounds, TypeOK
<1>2. probe[q].left[probe[q].key] = None
  BY <1>1 DEF RoundDone
<1>3. probe'[q] # None => probe[q].left[probe'[q].key] # None
  BY <1>1, GoOnFacts
<1> QED BY <1>1, <1>2, <1>3

\* What a step may do to the entry of a page that serves.
Keeps(p, k) == reg'[k] # None /\ reg'[k].owner = p
Taken(k) == \E q \in Pages :
    \/ tun[q][k] # "open" /\ tun'[q][k] = "open"
    \/ Waits(q) /\ <<ask[q], probe[q]>> # <<ask'[q], probe'[q]>>
    \/ tun[q][k] = "dead" /\ tun'[q][k] = "none"

LEMMA ServesFacts == ASSUME TypeOK, NEW p \in Pages, NEW k \in Keys, Serves(p, k)
                     PROVE  /\ reg[k] # None /\ reg[k].owner = p
                            /\ \A q \in Pages \ {p} : Held(reg, q, k)
BY DEF Serves, Held, Fresh

LEMMA RespectedStep ==
    ASSUME TypeOK, RoundDone, [Next]_vars, NEW p \in Pages, NEW k \in Keys,
           Serves(p, k), tun'[p][k] = "open"
    PROVE  Keeps(p, k) \/ Taken(k)
<1>0. /\ reg \in Maps /\ up \subseteq Pages /\ reg[k] # None /\ reg[k].owner = p
      /\ tun[p][k] = "open"
  BY ServesFacts DEF TypeOK, Maps, Serves
<1>a. ASSUME reg'[k] = reg[k] PROVE Keeps(p, k)
  BY <1>a, <1>0 DEF Keeps
<1>b. ASSUME NEW q \in Pages, NEW j \in Keys, NEW state \in {"pending", "ready"},
             reg' = Touch(reg, q, j, state)
      PROVE  Keeps(p, k)
  <2>1. CASE j # k
    <3>1. Touch(reg, q, j, state)[k] = reg[k]
      BY <2>1, <1>0, TouchOther
    <3> QED BY <3>1, <1>b, <1>a
  <2>2. CASE j = k /\ q = p
    BY <2>2, <1>b, <1>0, TouchFacts DEF Keeps
  <2>3. CASE j = k /\ q # p
    BY <2>3, <1>b, <1>a, ServesFacts DEF Touch
  <2> QED BY <2>1, <2>2, <2>3
<1>1. ASSUME NEW q \in Pages, OfPage(q) PROVE Keeps(p, k) \/ Taken(k)
  <2>1. CASE TouchKeeper(q) \/ KeeperLapses(q) \/ Leave(q) \/ AskServed(q)
    BY <2>1, <1>a DEF TouchKeeper, KeeperLapses, Leave, AskServed
  <2>2. CASE StartProbe(q) \/ ProbeServed(q)
    BY <2>2, <1>a DEF StartProbe, ProbeServed
  <2>3. CASE Shared(q) \/ NotShared(q)
    <3>1. ask[q] # None /\ ask'[q] = None
      BY <2>3 DEF Shared, NotShared, TypeOK
    <3> QED BY <3>1 DEF Taken, Waits
  <2>4. CASE ProbeOk(q)
    <3>1. probe[q] \in Rounds
      BY <2>4 DEF ProbeOk, TypeOK
    <3> QED BY <2>4, <3>1, <1>0, <1>b DEF ProbeOk, Rounds
  <2>5. CASE ProbeFails(q)
    <3>1. probe[q] # None /\ probe[q] \in Rounds /\ q \in up /\ GoOn(q, probe[q].left)
      BY <2>5 DEF ProbeFails, TypeOK
    <3> QED BY <3>1, RoundMoves DEF Taken, Waits
  <2>6. CASE Prune(q)
    <3>1. PICK late \in SUBSET Keys : reg' = [j \in Keys |-> Pruned(q, j, j \in late)]
      BY <2>6 DEF Prune
    <3>2. reg'[k] = Pruned(q, k, k \in late)
      BY <3>1
    <3>3. CASE tun[q][k] = "dead"
      <4>1. tun'[q][k] = "none"
        BY <2>6, <3>3 DEF Prune, TypeOK
      <4> QED BY <3>3, <4>1 DEF Taken
    <3>4. CASE tun[q][k] # "dead"
      <4>1. ~Stale(q, k, k \in late)
        <5>1. reg[k].age = "fresh" /\ reg[k].state = "ready" /\ reg[k].owner \in kept
          BY DEF Serves, Fresh
        <5> QED BY <3>4, <5>1 DEF Stale, OwnerDead
      <4>2. reg'[k] \in {reg[k], Entry(reg[k].owner, reg[k].state, "fresh")}
        BY <3>2, <4>1, <1>0 DEF Pruned
      <4>3. /\ Entry(reg[k].owner, reg[k].state, "fresh") # None
            /\ Entry(reg[k].owner, reg[k].state, "fresh").owner = reg[k].owner
        BY <1>0, EntryFields, EntryType
      <4> QED BY <4>2, <4>3, <1>0 DEF Keeps
    <3> QED BY <3>3, <3>4
  <2> QED BY <1>1, <2>1, <2>2, <2>3, <2>4, <2>5, <2>6 DEF OfPage
<1>2. ASSUME NEW q \in Pages, NEW j \in Keys, OfTunnel(q, j) PROVE Keeps(p, k) \/ Taken(k)
  <2>1. CASE Ensure(q, j) \/ Adopt(q, j)
    <3>0. Ensure(q, j)
      BY <2>1 DEF Adopt, Takeover
    <3>1. CASE j = k
      <4>1. Alive(q, k) /\ reg[k].owner \in kept
        BY DEF Serves, Alive
      <4> QED BY <3>0, <3>1, <4>1, <1>a DEF Ensure
    <3>2. CASE j # k
      <4> DEFINE gone == [reg EXCEPT ![j] = None]
      <4>1. gone \in Maps /\ gone[k] = reg[k]
        BY <3>2, <1>0 DEF Maps
      <4>2. reg' = reg \/ Build(q, j, gone) \/ Build(q, j, reg)
        BY <3>0 DEF Ensure
      <4> HIDE DEF gone
      <4>3. reg'[k] = reg[k]
        <5>1. /\ Touch(gone, q, j, "pending")[k] = gone[k]
              /\ Touch(reg, q, j, "pending")[k] = reg[k]
          BY <3>2, <4>1, <1>0, TouchOther
        <5> QED BY <4>1, <4>2, <5>1 DEF Build
      <4> QED BY <4>3, <1>a
    <3> QED BY <3>1, <3>2
  <2>2. CASE LosesSignal(q, j) \/ Pong(q, j)
    BY <2>2, <1>a DEF LosesSignal, Pong
  <2>3. CASE Opens(q, j)
    <3>1. CASE j # k
      BY <2>3, <3>1, <1>0, <1>a DEF Opens, Maps
    <3>2. CASE j = k
      BY <2>3, <3>2 DEF Opens, Taken, TypeOK
    <3> QED BY <3>1, <3>2
  <2>4. CASE Closes(q, j)
    <3>1. CASE j # k
      BY <2>4, <3>1, <1>0, <1>a, ClearFacts DEF Closes
    <3>2. CASE j = k /\ q = p
      BY <2>4, <3>2 DEF Closes, TypeOK
    <3>3. CASE j = k /\ q # p
      BY <2>4, <3>3, <1>a, ServesFacts DEF Closes, Clear
    <3> QED BY <3>1, <3>2, <3>3
  <2>5. CASE TouchTick(q, j)
    BY <2>5, <1>b DEF TouchTick, Reuse
  <2>6. CASE HearPong(q, j)
    <3>1. CASE j # k
      BY <2>6, <3>1, <1>0, <1>a DEF HearPong, Maps
    <3>2. CASE j = k
      <4>1. reg'[k] = Entry(reg[k].owner, "ready", "fresh")
        BY <2>6, <3>2, <1>0 DEF HearPong, Maps
      <4> QED BY <4>1, <1>0, EntryType DEF Keeps
    <3> QED BY <3>1, <3>2
  <2> QED BY <1>2, <2>1, <2>2, <2>3, <2>4, <2>5, <2>6 DEF OfTunnel
<1>3. ASSUME NEW j \in Keys, Expires(j) PROVE Keeps(p, k)
  <2>1. CASE j # k
    BY <1>3, <2>1, <1>0, <1>a DEF Expires, Maps
  <2>2. CASE j = k
    <3>1. reg'[k] = Entry(reg[k].owner, reg[k].state, "expired")
      BY <1>3, <2>2, <1>0 DEF Expires, Maps
    <3> QED BY <3>1, <1>0, EntryFields, EntryType DEF Keeps
  <2> QED BY <2>1, <2>2
<1>4. CASE UNCHANGED vars
  BY <1>4, <1>a DEF vars
<1> QED BY <1>1, <1>2, <1>3, <1>4 DEF Next

\* A page that serves keeps its entry but for the three ways Respected lists
\* (client.js:144, 177, 205-206, 478).
THEOREM EntryRespected == Spec => Respected
<1>1. TypeOK /\ RoundDone /\ [Next]_vars =>
        [\A p \in Pages, k \in Keys : Serves(p, k) /\ tun'[p][k] = "open" =>
            \/ reg'[k] # None /\ reg'[k].owner = p
            \/ \E q \in Pages :
                  \/ tun[q][k] # "open" /\ tun'[q][k] = "open"
                  \/ Waits(q) /\ <<ask[q], probe[q]>> # <<ask'[q], probe'[q]>>
                  \/ tun[q][k] = "dead" /\ tun'[q][k] = "none"]_vars
  BY RespectedStep DEF Keeps, Taken
<1> QED BY <1>1, TypeInit, TypeStep, RoundInit, RoundStep, PTL DEF Spec, Respected

(***************************************************************************)
(* StaysPurged.                                                            *)
(***************************************************************************)

\* A page ends its wait for a probe, and may write what it read before it.
LateWrite == \E q \in Pages :
    Waits(q) /\ <<ask[q], probe[q]>> # <<ask'[q], probe'[q]>>

LEMMA PurgedStep ==
    ASSUME TypeOK, RoundDone, [Next]_vars, NEW k \in Keys, Quiet(k), reg[k] = None
    PROVE  reg'[k] = None \/ ~Quiet(k)' \/ LateWrite
<1>0. /\ reg \in Maps /\ up \subseteq Pages
      /\ \A q \in Pages : tun[q][k] = "none"
  BY DEF TypeOK, Maps, Quiet
<1>1. ASSUME NEW q \in Pages, OfPage(q) PROVE reg'[k] = None \/ LateWrite
  <2>1. CASE TouchKeeper(q) \/ KeeperLapses(q) \/ Leave(q) \/ AskServed(q)
    BY <2>1 DEF TouchKeeper, KeeperLapses, Leave, AskServed
  <2>2. CASE StartProbe(q) \/ ProbeServed(q)
    BY <2>2 DEF StartProbe, ProbeServed
  <2>3. CASE Shared(q) \/ NotShared(q)
    <3>1. ask[q] # None /\ ask'[q] = None
      BY <2>3 DEF Shared, NotShared, TypeOK
    <3> QED BY <3>1 DEF LateWrite, Waits
  <2>4. CASE ProbeOk(q)
    <3>1. probe[q] # None /\ probe[q] \in Rounds /\ q \in up /\ GoOn(q, probe[q].left)
      BY <2>4 DEF ProbeOk, TypeOK
    <3> QED BY <3>1, RoundMoves DEF LateWrite, Waits
  <2>5. CASE ProbeFails(q)
    BY <2>5, <1>0 DEF ProbeFails, Maps
  <2>6. CASE Prune(q)
    BY <2>6 DEF Prune, Pruned
  <2> QED BY <1>1, <2>1, <2>2, <2>3, <2>4, <2>5, <2>6 DEF OfPage
<1>2. ASSUME NEW q \in Pages, NEW j \in Keys, OfTunnel(q, j)
      PROVE  reg'[k] = None \/ ~Quiet(k)'
  <2>1. CASE Ensure(q, j) \/ Adopt(q, j)
    <3>0. Ensure(q, j)
      BY <2>1 DEF Adopt, Takeover
    \* Without an entry, a page builds a tunnel of its own.
    <3>1. CASE j = k
      <4>1. ~Alive(q, k)
        BY DEF Alive, Fresh
      <4>2. tun'[q][k] = "building"
        BY <3>0, <3>1, <4>1 DEF Ensure, Build, TypeOK
      <4> QED BY <4>2 DEF Quiet
    <3>2. CASE j # k
      <4> DEFINE gone == [reg EXCEPT ![j] = None]
      <4>1. gone \in Maps /\ gone[k] = reg[k]
        BY <3>2, <1>0 DEF Maps
      <4>2. reg' = reg \/ Build(q, j, gone) \/ Build(q, j, reg)
        BY <3>0 DEF Ensure
      <4> HIDE DEF gone
      <4>3. /\ Touch(gone, q, j, "pending")[k] = gone[k]
            /\ Touch(reg, q, j, "pending")[k] = reg[k]
        BY <3>2, <4>1, <1>0, TouchOther
      <4> QED BY <4>1, <4>2, <4>3 DEF Build
    <3> QED BY <3>1, <3>2
  <2>2. CASE LosesSignal(q, j) \/ Pong(q, j)
    BY <2>2 DEF LosesSignal, Pong
  <2>3. CASE Opens(q, j)
    <3>1. j # k
      BY <2>3, <1>0 DEF Opens
    <3> QED BY <2>3, <3>1, <1>0 DEF Opens, Maps
  <2>4. CASE Closes(q, j)
    BY <2>4, <1>0, ClearFacts DEF Closes
  <2>5. CASE TouchTick(q, j)
    <3>1. j # k
      BY <2>5, <1>0 DEF TouchTick, Reuse
    <3>2. /\ Touch(reg, q, j, "pending")[k] = reg[k]
          /\ Touch(reg, q, j, "ready")[k] = reg[k]
      BY <3>1, <1>0, TouchOther
    <3> QED BY <2>5, <3>2 DEF TouchTick, Reuse
  <2>6. CASE HearPong(q, j)
    BY <2>6, <1>0 DEF HearPong, Maps
  <2> QED BY <1>2, <2>1, <2>2, <2>3, <2>4, <2>5, <2>6 DEF OfTunnel
<1>3. ASSUME NEW j \in Keys, Expires(j) PROVE reg'[k] = None
  BY <1>3, <1>0 DEF Expires, Fresh, Maps
<1>4. CASE UNCHANGED vars
  BY <1>4 DEF vars
<1> QED BY <1>1, <1>2, <1>3, <1>4 DEF Next

\* The entry of a target no page has a tunnel to, once it is gone, comes back
\* only by a page that waited for a probe (client.js:125, 132-140, 478).
THEOREM EntryStaysPurged == Spec => StaysPurged
<1>1. TypeOK /\ RoundDone /\ [Next]_vars =>
        [\A k \in Keys : Quiet(k) /\ reg[k] = None =>
            \/ reg'[k] = None \/ ~Quiet(k)'
            \/ \E q \in Pages :
                  Waits(q) /\ <<ask[q], probe[q]>> # <<ask'[q], probe'[q]>>]_vars
  BY PurgedStep DEF LateWrite
<1> QED BY <1>1, TypeInit, TypeStep, RoundInit, RoundStep, PTL DEF Spec, StaysPurged
=============================================================================
