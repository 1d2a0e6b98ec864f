------------------------- MODULE FederatedIncidents -------------------------
(***************************************************************************)
(* The cluster-wide incidents of internal/federation: SharedState's        *)
(* incident map and tombstones (state.go) and the messages cluster.go      *)
(* moves between nodes.                                                    *)
(*                                                                         *)
(* Status changes travel as best-effort messages, which may be lost,       *)
(* duplicated and reordered.  Whole incidents travel when they are created *)
(* and in the full states of memberlist's push/pull and of the sync        *)
(* request a join triggers.  A full state is modelled as its incidents,    *)
(* one message each: MergeFullState takes the locks anew for every one.    *)
(*                                                                         *)
(* Incidents are encoded after the lock that guards them is released,      *)
(* while UpdateIncident writes their fields in place: what is sent may mix *)
(* the values a field had in the meantime.                                 *)
(***************************************************************************)
EXTENDS Integers, FiniteSets

CONSTANTS
    Nodes, Incidents,
    Skew,         \* node -> how far its clock is ahead
    TornReads,    \* may json.Marshal race with UpdateIncident?
    Delay,        \* ticks a datagram may be old when it arrives
    Expiry,       \* the 24 hours of cleanupTombstones, in ticks
    MaxTime, MaxRestarts,   \* bounds on the clock and on restarts
    MaxUpdates, MaxFlight   \* on status changes, on incidents in transit

ASSUME FederationAssumption ==
    /\ Skew \in [Nodes -> Nat]
    /\ TornReads \in BOOLEAN
    /\ Delay \in Nat /\ Expiry \in Nat
    /\ MaxTime \in Nat /\ MaxRestarts \in Nat /\ MaxUpdates \in Nat /\ MaxFlight \in Nat

VARIABLES
    clock, restarts,
    incidents,   \* node -> SharedState.incidents
    tombstones,  \* node -> SharedState.tombstones, 0 for none
    adding,      \* node -> AddIncident calls between their two locks
    encoding,    \* node -> incidents being encoded: the values seen so far,
                 \*         and whether the map still holds that object
    cutoff,      \* node -> cutoff of a running cleanup, 0 for none
    records,     \* incidents on their way to a node
    updates,     \* IncidentUpdates that were broadcast
    created,     \* ghost: incident -> when it was created, 0 for not yet
    misdated     \* ghost: node -> the incidents it stored a misdated copy of

local == <<incidents, tombstones, adding, encoding, cutoff>>
ghosts == <<created, misdated>>
vars == <<clock, restarts, local, records, updates, ghosts>>

Status == {"triggered", "acknowledged", "resolved"}

\* Status, UpdatedAt and ResolvedAt (0 for nil) of an IncidentEvent.
Event == [st : Status, upd : Nat, res : Nat]
NoEvent == [st |-> "none", upd |-> 0, res |-> 0]

Held(n, i) == incidents[n][i].st # "none"

Now(n) == clock + Skew[n]

Encoding == [seen : SUBSET Event, live : BOOLEAN]
NoEncoding == [seen |-> {}, live |-> FALSE]

\* What the encoder may produce: each field as it was at some moment; with
\* TornReads FALSE, all of them as they were at the same moment.
Encoded(seen) ==
    IF TornReads
    THEN {[st |-> a.st, upd |-> b.upd, res |-> c.res] :
            a \in seen, b \in seen, c \in seen}
    ELSE seen

To(n, i, e) == {[to |-> m, id |-> i, ev |-> e] : m \in Nodes \ {n}}

Init ==
    /\ clock = 1 /\ restarts = 0
    /\ incidents = [n \in Nodes |-> [i \in Incidents |-> NoEvent]]
    /\ tombstones = [n \in Nodes |-> [i \in Incidents |-> 0]]
    /\ adding = [n \in Nodes |-> {}]
    /\ encoding = [n \in Nodes |-> [i \in Incidents |-> NoEncoding]]
    /\ cutoff = [n \in Nodes |-> 0]
    /\ records = {} /\ updates = {} /\ created = [i \in Incidents |-> 0]
    /\ misdated = [n \in Nodes |-> {}]

-----------------------------------------------------------------------------
(* Local operations. *)

\* BroadcastIncident of a new incident: it is stored, and then encoded.
BroadcastIncident(n, i) ==
    LET e == [st |-> "triggered", upd |-> Now(n), res |-> 0]
    IN  /\ created[i] = 0
        /\ incidents' = [incidents EXCEPT ![n][i] = e]
        /\ encoding' = [encoding EXCEPT ![n][i] = [seen |-> {e}, live |-> TRUE]]
        /\ created' = [created EXCEPT ![i] = e.upd]
        /\ UNCHANGED <<clock, restarts, tombstones, adding, cutoff,
                       records, updates, misdated>>

Applied(e, u) ==
    IF u.st = "resolved" THEN [st |-> u.st, upd |-> u.ts, res |-> u.ts]
    ELSE [e EXCEPT !.st = u.st, !.upd = u.ts]

\* Only a newer update is applied, and only to an incident that is known.
Applies(n, u) == Held(n, u.id) /\ u.ts > incidents[n][u.id].upd

\* UpdateIncident, under incidentMu: it changes the object in place, and a
\* resolution leaves a tombstone.
UpdateIncident(n, u) ==
    IF Applies(n, u)
    THEN LET e == Applied(incidents[n][u.id], u)
         IN  /\ incidents' = [incidents EXCEPT ![n][u.id] = e]
             /\ tombstones' = IF u.st = "resolved"
                              THEN [tombstones EXCEPT ![n][u.id] = u.ts]
                              ELSE tombstones
             /\ encoding' = IF encoding[n][u.id].live
                            THEN [encoding EXCEPT ![n][u.id].seen = @ \cup {e}]
                            ELSE encoding
    ELSE UNCHANGED <<incidents, tombstones, encoding>>

\* BroadcastIncidentUpdate: applied here, then sent whatever came of it.
BroadcastIncidentUpdate(n, i, st) ==
    LET u == [id |-> i, st |-> st, ts |-> Now(n)]
    IN  /\ created[i] # 0
        /\ UpdateIncident(n, u)
        /\ updates' = updates \cup {u}
        /\ Cardinality(updates') <= MaxUpdates
        /\ UNCHANGED <<clock, restarts, adding, cutoff, records, ghosts>>

-----------------------------------------------------------------------------
(* Messages. *)

\* An IncidentUpdate arrives, perhaps late, perhaps again.
ReceiveUpdate(n) ==
    /\ \E u \in updates : u.ts + Delay >= Now(n) /\ UpdateIncident(n, u)
    /\ UNCHANGED <<clock, restarts, adding, cutoff, records, updates, ghosts>>

\* (mutant) a missing incident is encoded too.
MutBeginEncoding(n, i) ==
    /\ encoding[n][i].seen = {}
    /\ encoding' = [encoding EXCEPT ![n][i] =
                      [seen |-> {incidents[n][i]}, live |-> TRUE]]
    /\ UNCHANGED <<clock, restarts, incidents, tombstones, adding, cutoff,
                   records, updates, ghosts>>

\* LocalState, sendStateSyncResponse: GetFullState copies the pointers.
BeginEncoding(n, i) ==
    /\ Held(n, i) /\ encoding[n][i].seen = {}
    /\ encoding' = [encoding EXCEPT ![n][i] =
                      [seen |-> {incidents[n][i]}, live |-> TRUE]]
    /\ UNCHANGED <<clock, restarts, incidents, tombstones, adding, cutoff,
                   records, updates, ghosts>>

\* json.Marshal has read every field; the result is sent.
EndEncoding(n, i) ==
    /\ encoding[n][i].seen # {}
    /\ \E e \in Encoded(encoding[n][i].seen) : records' = records \cup To(n, i, e)
    /\ \A m \in Nodes : Cardinality({r \in records' : r.to = m}) <= MaxFlight
    /\ encoding' = [encoding EXCEPT ![n][i] = NoEncoding]
    /\ UNCHANGED <<clock, restarts, incidents, tombstones, adding, cutoff,
                   updates, ghosts>>

\* (mutant) any resolved incident counts as tombstoned.
MutTombstoned(n, i) == incidents[n][i].st = "resolved"

Tombstoned(n, i) == tombstones[n][i] # 0

\* AddIncident, first half: tombstones are checked under their own lock.
CheckTombstone(n, r) ==
    /\ r \in records /\ r.to = n
    /\ records' = records \ {r}
    /\ adding' = IF Tombstoned(n, r.id) THEN adding
                 ELSE [adding EXCEPT ![n] = @ \cup {[id |-> r.id, ev |-> r.ev]}]
    /\ Cardinality(adding'[n]) <= MaxFlight
    /\ UNCHANGED <<clock, restarts, incidents, tombstones, encoding, cutoff,
                   updates, ghosts>>

\* (mutant) `not before` instead of `after`.
MutNewer(n, i, e) == ~Held(n, i) \/ e.upd >= incidents[n][i].upd

\* Last writer wins, judged by UpdatedAt.
Newer(n, i, e) == ~Held(n, i) \/ e.upd > incidents[n][i].upd

\* A mixture of two versions: resolved, and updated after the resolution that
\* ResolvedAt names.
Misdated(e) == e.st = "resolved" /\ e.res # 0 /\ e.res < e.upd

\* AddIncident, second half: the incident replaces an older one.
StoreIncident(n, a) ==
    /\ a \in adding[n]
    /\ adding' = [adding EXCEPT ![n] = @ \ {a}]
    /\ IF Newer(n, a.id, a.ev)
       THEN /\ incidents' = [incidents EXCEPT ![n][a.id] = a.ev]
            /\ encoding' = [encoding EXCEPT ![n][a.id].live = FALSE]
            /\ misdated' = IF Misdated(a.ev) THEN [misdated EXCEPT ![n] = @ \cup {a.id}]
                           ELSE misdated
       ELSE UNCHANGED <<incidents, encoding, misdated>>
    /\ UNCHANGED <<clock, restarts, tombstones, cutoff, records, updates, created>>

-----------------------------------------------------------------------------
(* cleanupTombstones, and the environment. *)

\* The hourly cleanup drops old tombstones, and then (another lock) old
\* resolved incidents.
CleanTombstones(n) ==
    /\ cutoff[n] = 0 /\ Now(n) > Expiry
    /\ cutoff' = [cutoff EXCEPT ![n] = Now(n) - Expiry]
    /\ tombstones' = [tombstones EXCEPT ![n] =
                        [i \in Incidents |-> IF @[i] < Now(n) - Expiry THEN 0 ELSE @[i]]]
    /\ UNCHANGED <<clock, restarts, incidents, adding, encoding,
                   records, updates, ghosts>>

\* (mutant) off by one.
MutExpired(e, c) == e.st = "resolved" /\ e.res # 0 /\ e.res <= c

Expired(e, c) == e.st = "resolved" /\ e.res # 0 /\ e.res < c

CleanIncidents(n) ==
    /\ cutoff[n] # 0
    /\ incidents' = [incidents EXCEPT ![n] =
                       [i \in Incidents |-> IF Expired(@[i], cutoff[n]) THEN NoEvent ELSE @[i]]]
    /\ encoding' = [encoding EXCEPT ![n] =
                      [i \in Incidents |->
                         IF Expired(incidents[n][i], cutoff[n])
                         THEN [@[i] EXCEPT !.live = FALSE] ELSE @[i]]]
    /\ cutoff' = [cutoff EXCEPT ![n] = 0]
    /\ UNCHANGED <<clock, restarts, tombstones, adding, records, updates, ghosts>>

Tick ==
    /\ clock < MaxTime /\ clock' = clock + 1
    /\ UNCHANGED <<restarts, local, records, updates, ghosts>>

\* A node is restarted: its shared state is in memory only.
Restart(n) ==
    /\ restarts < MaxRestarts /\ restarts' = restarts + 1
    /\ incidents' = [incidents EXCEPT ![n] = [i \in Incidents |-> NoEvent]]
    /\ tombstones' = [tombstones EXCEPT ![n] = [i \in Incidents |-> 0]]
    /\ adding' = [adding EXCEPT ![n] = {}]
    /\ encoding' = [encoding EXCEPT ![n] = [i \in Incidents |-> NoEncoding]]
    /\ cutoff' = [cutoff EXCEPT ![n] = 0]
    /\ misdated' = [misdated EXCEPT ![n] = {}]
    /\ UNCHANGED <<clock, records, updates, created>>

AddIncidentChecks(n) == \E r \in records : CheckTombstone(n, r)
AddIncidentStores(n) == \E a \in adding[n] : StoreIncident(n, a)

Next ==
    \/ Tick
    \/ \E n \in Nodes :
         \/ ReceiveUpdate(n) \/ AddIncidentChecks(n) \/ AddIncidentStores(n)
         \/ CleanTombstones(n) \/ CleanIncidents(n) \/ Restart(n)
         \/ \E i \in Incidents :
              \/ BroadcastIncident(n, i)
              \/ \E st \in Status \ {"triggered"} : BroadcastIncidentUpdate(n, i, st)
              \/ BeginEncoding(n, i) \/ EndEncoding(n, i)

Spec == Init /\ [][Next]_vars

\* Push/pull runs every 30 seconds over TCP and the cleanup every hour; the
\* best-effort messages may all be lost.
Fairness ==
    \A n \in Nodes :
        /\ WF_vars(AddIncidentChecks(n)) /\ WF_vars(AddIncidentStores(n))
        /\ WF_vars(CleanTombstones(n)) /\ WF_vars(CleanIncidents(n))
        /\ \A i \in Incidents : /\ WF_vars(BeginEncoding(n, i))
                                /\ WF_vars(EndEncoding(n, i))

FairSpec == Spec /\ Fairness

-----------------------------------------------------------------------------
Records == [id : Incidents, ev : Event]

\* The types of SharedState's maps, of the messages and of the ghosts.
TypeOK ==
    /\ clock \in Nat \ {0} /\ restarts \in Nat
    /\ incidents \in [Nodes -> [Incidents -> Event \cup {NoEvent}]]
    /\ tombstones \in [Nodes -> [Incidents -> Nat]]
    /\ adding \in [Nodes -> SUBSET Records]
    /\ encoding \in [Nodes -> [Incidents -> Encoding]]
    /\ cutoff \in [Nodes -> Nat]
    /\ records \subseteq [to : Nodes, id : Incidents, ev : Event]
    /\ updates \subseteq [id : Incidents, st : Status, ts : Nat]
    /\ created \in [Incidents -> Nat]
    /\ misdated \in [Nodes -> SUBSET Incidents]

\* A tombstone never outlives the incident it is about, and the node shows
\* nothing older than the resolution while it lasts: AddIncident checks the
\* tombstones, and stores, under different locks, and cleanupTombstones
\* drops tombstones and incidents under different locks, yet no late
\* triggered incident gets in between.  It takes datagrams that arrive before
\* they are Expiry old.  Torn reads do no harm unless the node has stored a
\* copy whose ResolvedAt is older than its UpdatedAt: that one is dropped
\* before its tombstone.
TombstoneHasRecord ==
    \A n \in Nodes, i \in Incidents :
        tombstones[n][i] # 0 /\ i \notin misdated[n] =>
            Held(n, i) /\ incidents[n][i].upd >= tombstones[n][i]

\* Last writer wins: while a node holds an incident, what it holds changes
\* only to something with a later UpdatedAt, whether an update, a merge or a
\* torn copy brings it and in whatever order they come.
NewestWins ==
    [][\A n \in Nodes, i \in Incidents :
         Held(n, i) /\ Held(n, i)' /\ incidents'[n][i] # incidents[n][i]
            => incidents'[n][i].upd > incidents[n][i].upd]_vars

\* Push/pull alone, with every best-effort message lost, brings each node
\* without a tombstone up to the newest version any node holds.
NewestSpreads ==
    <>[](\A n, m \in Nodes, i \in Incidents :
            tombstones[n][i] = 0 => incidents[n][i].upd >= incidents[m][i].upd)
=============================================================================
