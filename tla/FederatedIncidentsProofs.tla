---------------------- MODULE FederatedIncidentsProofs ----------------------
(***************************************************************************)
(* Proofs about FederatedIncidents, for any nodes, incidents, clocks and   *)
(* bounds, torn reads included: types, last writer wins, and, when         *)
(* datagrams arrive before they are Expiry old, that a tombstone never     *)
(* outlives its incident but for one the node stored a misdated copy of.   *)
(* Without torn reads no node ever stores one.                             *)
(***************************************************************************)
EXTENDS FederatedIncidents, TLAPS

\* Updating one entry of a map of maps: its type, and what it changes.
LEMMA NestedType ==
    ASSUME NEW A, NEW B, NEW S, NEW f \in [A -> [B -> S]],
           NEW a \in A, NEW b \in B, NEW v \in S
    PROVE  [f EXCEPT ![a][b] = v] \in [A -> [B -> S]]
<1>1. [f[a] EXCEPT ![b] = v] \in [B -> S]
  OBVIOUS
<1>2. [f EXCEPT ![a] = [f[a] EXCEPT ![b] = v]] \in [A -> [B -> S]]
  BY <1>1
<1> QED BY <1>2

LEMMA NestedValue ==
    ASSUME NEW A, NEW B, NEW S, NEW f \in [A -> [B -> S]],
           NEW a \in A, NEW b \in B, NEW v, NEW x \in A, NEW y \in B
    PROVE  [f EXCEPT ![a][b] = v][x][y]
             = IF x = a /\ y = b THEN v ELSE f[x][y]
OBVIOUS

\* What Next does, as one disjunct per action.
LEMMA NextSplit ==
    ASSUME Next
    PROVE  \/ Tick
           \/ \E n \in Nodes : ReceiveUpdate(n)
           \/ \E n \in Nodes : \E r \in records : CheckTombstone(n, r)
           \/ \E n \in Nodes : \E a \in adding[n] : StoreIncident(n, a)
           \/ \E n \in Nodes : CleanTombstones(n)
           \/ \E n \in Nodes : CleanIncidents(n)
           \/ \E n \in Nodes : Restart(n)
           \/ \E n \in Nodes, i \in Incidents : BroadcastIncident(n, i)
           \/ \E n \in Nodes, i \in Incidents, st \in Status \ {"triggered"} :
                BroadcastIncidentUpdate(n, i, st)
           \/ \E n \in Nodes, i \in Incidents : BeginEncoding(n, i)
           \/ \E n \in Nodes, i \in Incidents : EndEncoding(n, i)
BY Zenon DEF Next, AddIncidentChecks, AddIncidentStores

\* A node's time is a natural number and not zero.
LEMMA NowNat ==
    ASSUME TypeOK, NEW n \in Nodes
    PROVE  Now(n) \in Nat \ {0}
BY FederationAssumption DEF TypeOK, Now

\* What the encoder produces is an event, torn or not.
LEMMA EncodedType ==
    ASSUME NEW S \in SUBSET Event
    PROVE  Encoded(S) \subseteq Event
BY DEF Encoded, Event

\* Marking an encoding as detached from the map.
LEMMA DetachedType ==
    ASSUME NEW c \in Encoding
    PROVE  [c EXCEPT !.live = FALSE] \in Encoding
BY DEF Encoding

\* UpdateIncident keeps the types of what it assigns.
LEMMA UpdateTypes ==
    ASSUME TypeOK, NEW n \in Nodes,
           NEW u \in [id : Incidents, st : Status, ts : Nat],
           UpdateIncident(n, u)
    PROVE  /\ incidents' \in [Nodes -> [Incidents -> Event \cup {NoEvent}]]
           /\ tombstones' \in [Nodes -> [Incidents -> Nat]]
           /\ encoding' \in [Nodes -> [Incidents -> Encoding]]
<1>1. CASE ~Applies(n, u)
  BY <1>1 DEF UpdateIncident, TypeOK
<1>2. CASE Applies(n, u)
  <2> DEFINE e == Applied(incidents[n][u.id], u)
  <2>1. incidents[n][u.id] \in Event
    BY <1>2 DEF Applies, Held, TypeOK, NoEvent
  <2>2. e \in Event
    BY <2>1 DEF Applied, Event
  <2>3. incidents' = [incidents EXCEPT ![n][u.id] = e]
    BY <1>2 DEF UpdateIncident
  <2>4. \/ tombstones' = tombstones
        \/ tombstones' = [tombstones EXCEPT ![n][u.id] = u.ts]
    BY <1>2 DEF UpdateIncident
  <2>5. \/ encoding' = encoding
        \/ encoding' = [encoding EXCEPT ![n][u.id].seen = @ \cup {e}]
    BY <1>2 DEF UpdateIncident
  <2> HIDE DEF e
  <2>6. u.id \in Incidents /\ u.ts \in Nat
    OBVIOUS
  <2>7. incidents' \in [Nodes -> [Incidents -> Event \cup {NoEvent}]]
    BY <2>2, <2>3, <2>6 DEF TypeOK
  <2>8. tombstones' \in [Nodes -> [Incidents -> Nat]]
    <3>1. [tombstones EXCEPT ![n][u.id] = u.ts] \in [Nodes -> [Incidents -> Nat]]
      BY <2>6, NestedType DEF TypeOK
    <3> QED BY <2>4, <3>1 DEF TypeOK
  <2>9. encoding' \in [Nodes -> [Incidents -> Encoding]]
    <3> DEFINE c == [encoding[n][u.id] EXCEPT !.seen = @ \cup {e}]
    <3>1. encoding[n][u.id] \in Encoding
      BY <2>6 DEF TypeOK
    <3>2. c \in Encoding
      BY <2>2, <3>1 DEF Encoding
    <3>3. [encoding EXCEPT ![n][u.id].seen = @ \cup {e}] = [encoding EXCEPT ![n][u.id] = c]
      BY <2>6 DEF TypeOK
    <3> HIDE DEF c
    <3>4. [encoding EXCEPT ![n][u.id] = c] \in [Nodes -> [Incidents -> Encoding]]
      BY <2>6, <3>2, NestedType DEF TypeOK
    <3> QED BY <2>5, <3>3, <3>4 DEF TypeOK
  <2> QED BY <2>7, <2>8, <2>9
<1> QED BY <1>1, <1>2

\* StoreIncident marks at most the incident it stores.
LEMMA MarkedMore ==
    ASSUME NEW n, NEW a, StoreIncident(n, a)
    PROVE  \/ misdated' = misdated
           \/ misdated' = [misdated EXCEPT ![n] = @ \cup {a.id}]
<1>1. CASE Newer(n, a.id, a.ev)
  <2>1. misdated' = IF Misdated(a.ev) THEN [misdated EXCEPT ![n] = @ \cup {a.id}]
                    ELSE misdated
    BY <1>1 DEF StoreIncident
  <2> QED BY <2>1
<1>2. CASE ~Newer(n, a.id, a.ev)
  BY <1>2 DEF StoreIncident
<1> QED BY <1>1, <1>2

LEMMA TypeStep ==
    ASSUME TypeOK, [Next]_vars
    PROVE  TypeOK'
<1> USE FederationAssumption
<1>1. CASE UNCHANGED vars
  BY <1>1 DEF vars, local, ghosts, TypeOK
<1>2. CASE Tick
  BY <1>2 DEF Tick, local, ghosts, TypeOK
<1>3. ASSUME NEW n \in Nodes, ReceiveUpdate(n) PROVE TypeOK'
  <2>1. PICK u \in updates : UpdateIncident(n, u)
    BY <1>3 DEF ReceiveUpdate
  <2>2. u \in [id : Incidents, st : Status, ts : Nat]
    BY DEF TypeOK
  <2> QED BY <1>3, <2>1, <2>2, UpdateTypes DEF ReceiveUpdate, ghosts, TypeOK
<1>4. ASSUME NEW n \in Nodes, NEW r \in records, CheckTombstone(n, r) PROVE TypeOK'
  <2>1. r.id \in Incidents /\ r.ev \in Event
    BY DEF TypeOK
  <2>2. [id |-> r.id, ev |-> r.ev] \in Records
    BY <2>1 DEF Records
  <2>3. adding' \in [Nodes -> SUBSET Records]
    BY <1>4, <2>2 DEF CheckTombstone, TypeOK
  <2> QED BY <1>4, <2>3 DEF CheckTombstone, ghosts, TypeOK
<1>5. ASSUME NEW n \in Nodes, NEW a \in adding[n], StoreIncident(n, a) PROVE TypeOK'
  <2>1. a.id \in Incidents /\ a.ev \in Event
    BY DEF TypeOK, Records
  <2>2. incidents' \in [Nodes -> [Incidents -> Event \cup {NoEvent}]]
    <3>1. [incidents EXCEPT ![n][a.id] = a.ev]
              \in [Nodes -> [Incidents -> Event \cup {NoEvent}]]
      BY <2>1, NestedType DEF TypeOK
    <3> QED BY <1>5, <3>1 DEF StoreIncident, TypeOK
  <2>3. encoding' \in [Nodes -> [Incidents -> Encoding]]
    <3> DEFINE c == [encoding[n][a.id] EXCEPT !.live = FALSE]
    <3>1. encoding[n][a.id] \in Encoding
      BY <2>1 DEF TypeOK
    <3>2. c \in Encoding
      BY <3>1 DEF Encoding
    <3>3. [encoding EXCEPT ![n][a.id].live = FALSE] = [encoding EXCEPT ![n][a.id] = c]
      BY <2>1 DEF TypeOK
    <3> HIDE DEF c
    <3>4. [encoding EXCEPT ![n][a.id] = c] \in [Nodes -> [Incidents -> Encoding]]
      BY <2>1, <3>2, NestedType DEF TypeOK
    <3> QED BY <1>5, <3>3, <3>4 DEF StoreIncident, TypeOK
  <2>4. adding' \in [Nodes -> SUBSET Records]
    BY <1>5 DEF StoreIncident, TypeOK
  <2>5. misdated' \in [Nodes -> SUBSET Incidents]
    <3>1. \/ misdated' = misdated
          \/ misdated' = [misdated EXCEPT ![n] = @ \cup {a.id}]
      BY <1>5, MarkedMore
    <3>2. misdated \in [Nodes -> SUBSET Incidents]
      BY DEF TypeOK
    <3> QED BY <2>1, <3>1, <3>2
  <2> QED BY <1>5, <2>2, <2>3, <2>4, <2>5 DEF StoreIncident, TypeOK
<1>6. ASSUME NEW n \in Nodes, CleanTombstones(n) PROVE TypeOK'
  <2>1. Now(n) - Expiry \in Nat
    BY <1>6, NowNat DEF CleanTombstones
  <2>2. cutoff' \in [Nodes -> Nat]
    BY <1>6, <2>1 DEF CleanTombstones, TypeOK
  <2>3. tombstones' \in [Nodes -> [Incidents -> Nat]]
    BY <1>6 DEF CleanTombstones, TypeOK
  <2> QED BY <1>6, <2>2, <2>3 DEF CleanTombstones, ghosts, TypeOK
<1>7. ASSUME NEW n \in Nodes, CleanIncidents(n) PROVE TypeOK'
  <2>1. incidents' \in [Nodes -> [Incidents -> Event \cup {NoEvent}]]
    BY <1>7 DEF CleanIncidents, TypeOK
  <2>2. encoding' \in [Nodes -> [Incidents -> Encoding]]
    <3> DEFINE g == [i \in Incidents |->
                       IF Expired(incidents[n][i], cutoff[n])
                       THEN [encoding[n][i] EXCEPT !.live = FALSE]
                       ELSE encoding[n][i]]
    <3>1. \A i \in Incidents :
            /\ encoding[n][i] \in Encoding
            /\ [encoding[n][i] EXCEPT !.live = FALSE] \in Encoding
      BY DetachedType DEF TypeOK
    <3>2. g \in [Incidents -> Encoding]
      BY <3>1
    <3>3. encoding' = [encoding EXCEPT ![n] = g]
      BY <1>7 DEF CleanIncidents
    <3> HIDE DEF g
    <3> QED BY <3>2, <3>3 DEF TypeOK
  <2>3. cutoff' \in [Nodes -> Nat]
    BY <1>7 DEF CleanIncidents, TypeOK
  <2> QED BY <1>7, <2>1, <2>2, <2>3 DEF CleanIncidents, ghosts, TypeOK
<1>8. ASSUME NEW n \in Nodes, Restart(n) PROVE TypeOK'
  <2>1. [i \in Incidents |-> NoEncoding]
            \in [Incidents -> Encoding]
    BY DEF NoEncoding, Encoding
  <2>2. encoding' \in [Nodes -> [Incidents -> Encoding]]
    BY <1>8, <2>1 DEF Restart, TypeOK
  <2> QED BY <1>8, <2>2 DEF Restart, TypeOK
<1>9. ASSUME NEW n \in Nodes, NEW i \in Incidents, BroadcastIncident(n, i) PROVE TypeOK'
  <2> DEFINE e == [st |-> "triggered", upd |-> Now(n), res |-> 0]
  <2>1. e \in Event
    BY NowNat DEF Event, Status
  <2>2. /\ incidents' = [incidents EXCEPT ![n][i] = e]
        /\ encoding' = [encoding EXCEPT ![n][i] = [seen |-> {e}, live |-> TRUE]]
        /\ created' = [created EXCEPT ![i] = Now(n)]
    BY <1>9 DEF BroadcastIncident
  <2> HIDE DEF e
  <2>3. incidents' \in [Nodes -> [Incidents -> Event \cup {NoEvent}]]
    BY <2>1, <2>2 DEF TypeOK
  <2>4. encoding' \in [Nodes -> [Incidents -> Encoding]]
    <3>1. [seen |-> {e}, live |-> TRUE] \in Encoding
      BY <2>1 DEF Encoding
    <3> QED BY <2>2, <3>1, NestedType DEF TypeOK
  <2>5. created' \in [Incidents -> Nat]
    BY <2>2, NowNat DEF TypeOK
  <2> QED BY <1>9, <2>3, <2>4, <2>5 DEF BroadcastIncident, TypeOK
<1>10. ASSUME NEW n \in Nodes, NEW i \in Incidents, NEW st \in Status \ {"triggered"},
              BroadcastIncidentUpdate(n, i, st)
       PROVE  TypeOK'
  <2> DEFINE u == [id |-> i, st |-> st, ts |-> Now(n)]
  <2>1. u \in [id : Incidents, st : Status, ts : Nat]
    BY NowNat
  <2>2. UpdateIncident(n, u) /\ updates' = updates \cup {u}
    BY <1>10 DEF BroadcastIncidentUpdate
  <2> HIDE DEF u
  <2> QED BY <1>10, <2>1, <2>2, UpdateTypes DEF BroadcastIncidentUpdate, ghosts, TypeOK
<1>11. ASSUME NEW n \in Nodes, NEW i \in Incidents, BeginEncoding(n, i) PROVE TypeOK'
  <2>1. incidents[n][i] \in Event
    BY <1>11 DEF BeginEncoding, Held, TypeOK, NoEvent
  <2>2. encoding' \in [Nodes -> [Incidents -> Encoding]]
    BY <1>11, <2>1 DEF BeginEncoding, TypeOK, Encoding
  <2> QED BY <1>11, <2>2 DEF BeginEncoding, ghosts, TypeOK
<1>12. ASSUME NEW n \in Nodes, NEW i \in Incidents, EndEncoding(n, i) PROVE TypeOK'
  <2>1. PICK e \in Encoded(encoding[n][i].seen) : records' = records \cup To(n, i, e)
    BY <1>12 DEF EndEncoding
  <2>2. encoding[n][i].seen \subseteq Event
    BY DEF TypeOK, Encoding
  <2>3. e \in Event
    BY <2>2, EncodedType
  <2>4. records' \subseteq [to : Nodes, id : Incidents, ev : Event]
    BY <2>1, <2>3 DEF To, TypeOK
  <2>5. encoding' \in [Nodes -> [Incidents -> Encoding]]
    BY <1>12 DEF EndEncoding, NoEncoding, TypeOK, Encoding
  <2> QED BY <1>12, <2>4, <2>5 DEF EndEncoding, ghosts, TypeOK
<1> QED
  BY NextSplit, <1>1, <1>2, <1>3, <1>4, <1>5, <1>6, <1>7, <1>8, <1>9, <1>10, <1>11, <1>12

LEMMA TypeInit == ASSUME Init PROVE TypeOK
BY DEF Init, TypeOK, NoEncoding, Encoding

\* SharedState's maps and the messages keep their types on every path.
THEOREM TypeCorrect == Spec => []TypeOK
<1>1. Init => TypeOK
  BY TypeInit
<1>2. TypeOK /\ [Next]_vars => TypeOK'
  BY TypeStep
<1> QED BY <1>1, <1>2, PTL DEF Spec

-----------------------------------------------------------------------------
(* Last writer wins. *)

\* What UpdateIncident does to each node's copy of each incident.
LEMMA UpdateEffect ==
    ASSUME TypeOK, NEW n \in Nodes,
           NEW u \in [id : Incidents, st : Status, ts : Nat],
           UpdateIncident(n, u), NEW m \in Nodes, NEW j \in Incidents
    PROVE  \/ /\ incidents'[m][j] = incidents[m][j]
              /\ tombstones'[m][j] = tombstones[m][j]
              /\ encoding'[m][j] = encoding[m][j]
           \/ /\ m = n /\ j = u.id /\ Held(m, j) /\ u.ts > incidents[m][j].upd
              /\ incidents'[m][j] = Applied(incidents[m][j], u)
              /\ tombstones'[m][j] = IF u.st = "resolved" THEN u.ts
                                     ELSE tombstones[m][j]
              /\ encoding'[m][j] \in
                   {encoding[m][j],
                    [encoding[m][j] EXCEPT !.seen = @ \cup {Applied(incidents[m][j], u)}]}
<1>1. CASE ~Applies(n, u)
  BY <1>1 DEF UpdateIncident
<1>2. CASE Applies(n, u)
  <2> DEFINE e == Applied(incidents[n][u.id], u)
  <2>1. u.id \in Incidents
    OBVIOUS
  <2>2. incidents' = [incidents EXCEPT ![n][u.id] = e]
    BY <1>2 DEF UpdateIncident
  <2>3. tombstones' = IF u.st = "resolved"
                      THEN [tombstones EXCEPT ![n][u.id] = u.ts]
                      ELSE tombstones
    BY <1>2 DEF UpdateIncident
  <2>4. \/ encoding' = encoding
        \/ encoding' = [encoding EXCEPT ![n][u.id].seen = @ \cup {e}]
    BY <1>2 DEF UpdateIncident
  <2>5. Held(n, u.id) /\ u.ts > incidents[n][u.id].upd
    BY <1>2 DEF Applies
  <2> HIDE DEF e
  <2>6. incidents'[m][j] = IF m = n /\ j = u.id THEN e ELSE incidents[m][j]
    BY <2>1, <2>2, NestedValue DEF TypeOK
  <2>7. tombstones'[m][j] = IF m = n /\ j = u.id /\ u.st = "resolved" THEN u.ts
                            ELSE tombstones[m][j]
    BY <2>1, <2>3, NestedValue DEF TypeOK
  <2>8. \/ encoding'[m][j] = encoding[m][j]
        \/ /\ m = n /\ j = u.id
           /\ encoding'[m][j] = [encoding[m][j] EXCEPT !.seen = @ \cup {e}]
    <3> DEFINE c == [encoding[n][u.id] EXCEPT !.seen = @ \cup {e}]
    <3>1. [encoding EXCEPT ![n][u.id].seen = @ \cup {e}] = [encoding EXCEPT ![n][u.id] = c]
      BY <2>1 DEF TypeOK
    <3>2. [encoding EXCEPT ![n][u.id] = c][m][j]
            = IF m = n /\ j = u.id THEN c ELSE encoding[m][j]
      <4> HIDE DEF c
      <4> QED BY <2>1, NestedValue DEF TypeOK
    <3> QED BY <2>4, <3>1, <3>2
  <2>9. CASE m = n /\ j = u.id
    BY <2>5, <2>6, <2>7, <2>8, <2>9 DEF e
  <2>10. CASE ~(m = n /\ j = u.id)
    BY <2>6, <2>7, <2>8, <2>10
  <2> QED BY <2>9, <2>10
<1> QED BY <1>1, <1>2

\* The ways a step may change a node's copy of an incident.
LEMMA IncidentEffect ==
    ASSUME TypeOK, [Next]_vars, NEW m \in Nodes, NEW j \in Incidents
    PROVE  \/ incidents'[m][j] = incidents[m][j]
           \/ incidents'[m][j] = NoEvent
           \/ created[j] = 0 /\ created'[j] # 0
           \/ \E u \in [id : Incidents, st : Status, ts : Nat] :
                /\ Held(m, j) /\ u.ts > incidents[m][j].upd
                /\ incidents'[m][j] = Applied(incidents[m][j], u)
           \/ \E a \in adding[m] :
                a.id = j /\ Newer(m, j, a.ev) /\ incidents'[m][j] = a.ev
<1>1. CASE UNCHANGED incidents
  BY <1>1
<1>2. ASSUME NEW n \in Nodes, ReceiveUpdate(n) 
      PROVE  \/ incidents'[m][j] = incidents[m][j]
             \/ \E u \in [id : Incidents, st : Status, ts : Nat] :
                  /\ Held(m, j) /\ u.ts > incidents[m][j].upd
                  /\ incidents'[m][j] = Applied(incidents[m][j], u)
  <2>1. PICK u \in updates : UpdateIncident(n, u)
    BY <1>2 DEF ReceiveUpdate
  <2>2. u \in [id : Incidents, st : Status, ts : Nat]
    BY DEF TypeOK
  <2> QED BY <2>1, <2>2, UpdateEffect
<1>3. ASSUME NEW n \in Nodes, NEW i \in Incidents, NEW st \in Status \ {"triggered"},
             BroadcastIncidentUpdate(n, i, st)
      PROVE  \/ incidents'[m][j] = incidents[m][j]
             \/ \E u \in [id : Incidents, st : Status, ts : Nat] :
                  /\ Held(m, j) /\ u.ts > incidents[m][j].upd
                  /\ incidents'[m][j] = Applied(incidents[m][j], u)
  <2> DEFINE u == [id |-> i, st |-> st, ts |-> Now(n)]
  <2>1. u \in [id : Incidents, st : Status, ts : Nat]
    BY NowNat
  <2>2. UpdateIncident(n, u)
    BY <1>3 DEF BroadcastIncidentUpdate
  <2> HIDE DEF u
  <2> QED BY <2>1, <2>2, UpdateEffect
<1>4. ASSUME NEW n \in Nodes, NEW a \in adding[n], StoreIncident(n, a)
      PROVE  \/ incidents'[m][j] = incidents[m][j]
             \/ \E b \in adding[m] :
                  b.id = j /\ Newer(m, j, b.ev) /\ incidents'[m][j] = b.ev
  <2>1. a.id \in Incidents
    BY DEF TypeOK, Records
  <2>2. CASE ~Newer(n, a.id, a.ev)
    BY <1>4, <2>2 DEF StoreIncident
  <2>3. CASE Newer(n, a.id, a.ev)
    <3>1. incidents' = [incidents EXCEPT ![n][a.id] = a.ev]
      BY <1>4, <2>3 DEF StoreIncident
    <3>2. incidents'[m][j] = IF m = n /\ j = a.id THEN a.ev ELSE incidents[m][j]
      BY <2>1, <3>1, NestedValue DEF TypeOK
    <3> QED BY <2>3, <3>2
  <2> QED BY <2>2, <2>3
<1>5. ASSUME NEW n \in Nodes, CleanIncidents(n)
      PROVE  incidents'[m][j] = incidents[m][j] \/ incidents'[m][j] = NoEvent
  BY <1>5 DEF CleanIncidents, TypeOK
<1>6. ASSUME NEW n \in Nodes, Restart(n)
      PROVE  incidents'[m][j] = incidents[m][j] \/ incidents'[m][j] = NoEvent
  BY <1>6 DEF Restart, TypeOK
<1>7. ASSUME NEW n \in Nodes, NEW i \in Incidents, BroadcastIncident(n, i)
      PROVE  \/ incidents'[m][j] = incidents[m][j]
             \/ created[j] = 0 /\ created'[j] # 0
  <2> DEFINE e == [st |-> "triggered", upd |-> Now(n), res |-> 0]
  <2>1. /\ incidents' = [incidents EXCEPT ![n][i] = e]
        /\ created[i] = 0 /\ created' = [created EXCEPT ![i] = Now(n)]
    BY <1>7 DEF BroadcastIncident
  <2> HIDE DEF e
  <2>2. incidents'[m][j] = IF m = n /\ j = i THEN e ELSE incidents[m][j]
    BY <2>1, NestedValue DEF TypeOK
  <2>3. created'[i] # 0
    BY <2>1, NowNat DEF TypeOK
  <2> QED BY <2>1, <2>2, <2>3
<1>8. CASE Tick
  BY <1>8, <1>1 DEF Tick, local
<1>9. CASE UNCHANGED vars
  BY <1>9, <1>1 DEF vars, local
<1>10. CASE \E n \in Nodes : \E r \in records : CheckTombstone(n, r)
  BY <1>10, <1>1 DEF CheckTombstone
<1>11. CASE \E n \in Nodes : CleanTombstones(n)
  BY <1>11, <1>1 DEF CleanTombstones
<1>12. CASE \E n \in Nodes, i \in Incidents : BeginEncoding(n, i) \/ EndEncoding(n, i)
  BY <1>12, <1>1 DEF BeginEncoding, EndEncoding
<1>13. CASE Next
  BY <1>13, NextSplit, <1>2, <1>3, <1>4, <1>5, <1>6, <1>7, <1>8, <1>10, <1>11, <1>12
<1> QED BY <1>9, <1>13

\* AddIncident calls come from records.
LEMMA AddingEffect ==
    ASSUME TypeOK, [Next]_vars, NEW m \in Nodes, NEW a \in adding'[m]
    PROVE  a \in adding[m] \/ \E r \in records : a = [id |-> r.id, ev |-> r.ev]
<1>1. CASE UNCHANGED adding
  BY <1>1
<1>2. ASSUME NEW n \in Nodes, NEW r \in records, CheckTombstone(n, r)
      PROVE  a \in adding[m] \/ a = [id |-> r.id, ev |-> r.ev]
  BY <1>2 DEF CheckTombstone, TypeOK
<1>3. ASSUME NEW n \in Nodes, NEW b \in adding[n], StoreIncident(n, b)
      PROVE  a \in adding[m]
  BY <1>3 DEF StoreIncident, TypeOK
<1>4. ASSUME NEW n \in Nodes, Restart(n) PROVE a \in adding[m]
  BY <1>4 DEF Restart, TypeOK
<1>5. CASE Next
  BY <1>1, <1>2, <1>3, <1>4, <1>5, NextSplit
     DEF Tick, local, ReceiveUpdate, CleanTombstones, CleanIncidents,
         BroadcastIncident, BroadcastIncidentUpdate, BeginEncoding, EndEncoding
<1> QED BY <1>1, <1>5 DEF vars, local

\* An encoder sees values the node's copy has.
LEMMA SeenEffect ==
    ASSUME TypeOK, [Next]_vars, NEW m \in Nodes, NEW j \in Incidents,
           NEW e \in encoding'[m][j].seen
    PROVE  e \in encoding[m][j].seen \/ e = incidents[m][j] \/ e = incidents'[m][j]
<1>0. encoding[m][j] \in Encoding
  BY DEF TypeOK
<1>1. CASE UNCHANGED encoding
  BY <1>1
<1>2. ASSUME NEW n \in Nodes, NEW u \in [id : Incidents, st : Status, ts : Nat],
             UpdateIncident(n, u)
      PROVE  e \in encoding[m][j].seen \/ e = incidents'[m][j]
  <2>1. CASE encoding'[m][j] = encoding[m][j]
    BY <2>1
  <2>2. CASE /\ incidents'[m][j] = Applied(incidents[m][j], u)
             /\ encoding'[m][j] = [encoding[m][j] EXCEPT
                                     !.seen = @ \cup {Applied(incidents[m][j], u)}]
    BY <1>0, <2>2 DEF Encoding
  <2> QED BY <1>2, <2>1, <2>2, UpdateEffect
<1>3. ASSUME NEW n \in Nodes, ReceiveUpdate(n)
      PROVE  e \in encoding[m][j].seen \/ e = incidents'[m][j]
  BY <1>2, <1>3 DEF ReceiveUpdate, TypeOK
<1>4. ASSUME NEW n \in Nodes, NEW i \in Incidents, NEW st \in Status \ {"triggered"},
             BroadcastIncidentUpdate(n, i, st)
      PROVE  e \in encoding[m][j].seen \/ e = incidents'[m][j]
  <2> DEFINE u == [id |-> i, st |-> st, ts |-> Now(n)]
  <2>1. u \in [id : Incidents, st : Status, ts : Nat]
    BY NowNat
  <2>2. UpdateIncident(n, u)
    BY <1>4 DEF BroadcastIncidentUpdate
  <2> HIDE DEF u
  <2> QED BY <1>2, <2>1, <2>2
<1>5. ASSUME NEW n \in Nodes, NEW a \in adding[n], StoreIncident(n, a)
      PROVE  e \in encoding[m][j].seen
  <2>1. a.id \in Incidents
    BY DEF TypeOK, Records
  <2>2. CASE UNCHANGED encoding
    BY <2>2
  <2>3. CASE encoding' = [encoding EXCEPT ![n][a.id].live = FALSE]
    <3> DEFINE c == [encoding[n][a.id] EXCEPT !.live = FALSE]
    <3>1. encoding' = [encoding EXCEPT ![n][a.id] = c]
      BY <2>1, <2>3 DEF TypeOK
    <3>2. encoding[n][a.id] \in Encoding
      BY <2>1 DEF TypeOK
    <3>3. c.seen = encoding[n][a.id].seen
      BY <3>2 DEF Encoding
    <3> HIDE DEF c
    <3>4. encoding'[m][j] = IF m = n /\ j = a.id THEN c ELSE encoding[m][j]
      BY <2>1, <3>1, NestedValue DEF TypeOK
    <3> QED BY <3>3, <3>4
  <2> QED BY <1>5, <2>2, <2>3 DEF StoreIncident
<1>6. ASSUME NEW n \in Nodes, CleanIncidents(n) PROVE e \in encoding[m][j].seen
  <2>1. \/ encoding'[m][j] = encoding[m][j]
        \/ encoding'[m][j] = [encoding[m][j] EXCEPT !.live = FALSE]
    BY <1>6 DEF CleanIncidents, TypeOK
  <2> QED BY <1>0, <2>1 DEF Encoding
<1>7. ASSUME NEW n \in Nodes, Restart(n) PROVE e \in encoding[m][j].seen
  BY <1>7 DEF Restart, TypeOK, NoEncoding
<1>8. ASSUME NEW n \in Nodes, NEW i \in Incidents, BroadcastIncident(n, i)
      PROVE  e \in encoding[m][j].seen \/ e = incidents'[m][j]
  <2> DEFINE f == [st |-> "triggered", upd |-> Now(n), res |-> 0]
             c == [seen |-> {f}, live |-> TRUE]
  <2>1. /\ incidents' = [incidents EXCEPT ![n][i] = f]
        /\ encoding' = [encoding EXCEPT ![n][i] = c]
    BY <1>8 DEF BroadcastIncident
  <2>2. c.seen = {f}
    OBVIOUS
  <2> HIDE DEF f, c
  <2>3. encoding'[m][j] = IF m = n /\ j = i THEN c ELSE encoding[m][j]
    BY <2>1, NestedValue DEF TypeOK
  <2>4. incidents'[m][j] = IF m = n /\ j = i THEN f ELSE incidents[m][j]
    BY <2>1, NestedValue DEF TypeOK
  <2> QED BY <2>2, <2>3, <2>4
<1>9. ASSUME NEW n \in Nodes, NEW i \in Incidents, BeginEncoding(n, i)
      PROVE  e \in encoding[m][j].seen \/ e = incidents[m][j]
  <2> DEFINE c == [seen |-> {incidents[n][i]}, live |-> TRUE]
  <2>1. encoding' = [encoding EXCEPT ![n][i] = c]
    BY <1>9 DEF BeginEncoding
  <2>2. c.seen = {incidents[n][i]}
    OBVIOUS
  <2> HIDE DEF c
  <2>3. encoding'[m][j] = IF m = n /\ j = i THEN c ELSE encoding[m][j]
    BY <2>1, NestedValue DEF TypeOK
  <2> QED BY <2>2, <2>3
<1>10. ASSUME NEW n \in Nodes, NEW i \in Incidents, EndEncoding(n, i)
       PROVE  e \in encoding[m][j].seen
  <2>1. encoding' = [encoding EXCEPT ![n][i] = NoEncoding]
    BY <1>10 DEF EndEncoding
  <2>2. encoding'[m][j] = IF m = n /\ j = i THEN NoEncoding ELSE encoding[m][j]
    BY <2>1, NestedValue DEF TypeOK
  <2> QED BY <2>2 DEF NoEncoding
<1>11. CASE Next
  BY <1>1, <1>3, <1>4, <1>5, <1>6, <1>7, <1>8, <1>9, <1>10, <1>11, NextSplit
     DEF Tick, local, CheckTombstone, CleanTombstones
<1> QED BY <1>1, <1>11 DEF vars, local

\* Nothing is held, sent or stored of an incident before it is created.
Known ==
    /\ \A n \in Nodes, i \in Incidents :
         Held(n, i) \/ encoding[n][i].seen # {} => created[i] # 0
    /\ \A r \in records : created[r.id] # 0
    /\ \A n \in Nodes : \A a \in adding[n] : created[a.id] # 0

LEMMA KnownStep ==
    ASSUME TypeOK, Known, [Next]_vars
    PROVE  Known'
<1> USE FederationAssumption
<1>0. TypeOK'
  BY TypeStep
<1>1. \A j \in Incidents : created[j] # 0 => created'[j] # 0
  <2>1. CASE UNCHANGED created
    BY <2>1
  <2>2. ASSUME NEW n \in Nodes, NEW i \in Incidents, BroadcastIncident(n, i)
        PROVE  \A j \in Incidents : created[j] # 0 => created'[j] # 0
    BY <2>2, NowNat DEF BroadcastIncident, TypeOK
  <2>3. CASE Next
    BY <2>1, <2>2, <2>3, NextSplit
       DEF Tick, ReceiveUpdate, CheckTombstone, StoreIncident, CleanTombstones,
           CleanIncidents, Restart, BroadcastIncidentUpdate, BeginEncoding, EndEncoding,
           ghosts
  <2> QED BY <2>1, <2>3 DEF vars, ghosts
<1>2. ASSUME NEW m \in Nodes, NEW j \in Incidents, Held(m, j)'
      PROVE  created'[j] # 0
  <2>1. incidents'[m][j] # NoEvent
    BY <1>2 DEF Held, NoEvent
  <2>2. Held(m, j) => created'[j] # 0
    BY <1>1 DEF Known
  <2>3. ASSUME incidents'[m][j] = incidents[m][j] PROVE created'[j] # 0
    BY <1>2, <2>2, <2>3 DEF Held
  <2>4. ASSUME NEW a \in adding[m], a.id = j PROVE created'[j] # 0
    BY <1>1, <2>4 DEF Known
  <2> QED BY <2>1, <2>2, <2>3, <2>4, IncidentEffect
<1>3. \A r \in records' : created'[r.id] # 0
  <2>1. CASE records' \subseteq records
    BY <1>1, <2>1 DEF Known, TypeOK
  <2>2. ASSUME NEW n \in Nodes, NEW i \in Incidents, EndEncoding(n, i)
        PROVE  \A r \in records' : created'[r.id] # 0
    <3>1. PICK e : records' = records \cup To(n, i, e)
      BY <2>2 DEF EndEncoding
    <3>2. created'[i] # 0
      BY <1>1, <2>2 DEF EndEncoding, Known
    <3>3. \A r \in To(n, i, e) : r.id = i
      BY DEF To
    <3> QED BY <1>1, <3>1, <3>2, <3>3 DEF Known, TypeOK
  <2>3. CASE Next
    BY <2>1, <2>2, <2>3, NextSplit
       DEF Tick, ReceiveUpdate, CheckTombstone, StoreIncident, CleanTombstones,
           CleanIncidents, Restart, BroadcastIncident, BroadcastIncidentUpdate, BeginEncoding
  <2> QED BY <2>1, <2>3 DEF vars
<1>4. ASSUME NEW m \in Nodes, NEW a \in adding'[m]
      PROVE  created'[a.id] # 0
  <2>0. a.id \in Incidents
    BY <1>0 DEF TypeOK, Records
  <2>1. a \in adding[m] \/ \E r \in records : a = [id |-> r.id, ev |-> r.ev]
    BY AddingEffect
  <2> QED BY <1>1, <2>0, <2>1 DEF Known
<1>5. ASSUME NEW m \in Nodes, NEW j \in Incidents, encoding'[m][j].seen # {}
      PROVE  created'[j] # 0
  <2>1. PICK e \in encoding'[m][j].seen : TRUE
    BY <1>5
  <2>2. e \in Event
    BY <1>0 DEF TypeOK, Encoding
  <2>3. \/ encoding[m][j].seen # {}
        \/ Held(m, j)
        \/ Held(m, j)'
    BY <2>1, <2>2, SeenEffect DEF Held, Event, Status
  <2> QED BY <1>1, <1>2, <2>3 DEF Known
<1> QED BY <1>2, <1>3, <1>4, <1>5 DEF Known

\* A copy that changes and stays becomes newer.
LEMMA NewestStep ==
    ASSUME TypeOK, Known, [Next]_vars, NEW m \in Nodes, NEW j \in Incidents,
           Held(m, j), Held(m, j)', incidents'[m][j] # incidents[m][j]
    PROVE  incidents'[m][j].upd > incidents[m][j].upd
<1>1. created[j] # 0
  BY DEF Known
<1>2. incidents'[m][j] # NoEvent
  BY DEF Held, NoEvent
<1>3. ASSUME NEW u \in [id : Incidents, st : Status, ts : Nat],
             u.ts > incidents[m][j].upd,
             incidents'[m][j] = Applied(incidents[m][j], u)
      PROVE  incidents'[m][j].upd > incidents[m][j].upd
  <2>1. incidents[m][j] \in Event
    BY DEF TypeOK, Held, NoEvent
  <2> QED BY <1>3, <2>1 DEF Applied, Event
<1>4. ASSUME NEW a \in adding[m], Newer(m, j, a.ev), incidents'[m][j] = a.ev
      PROVE  incidents'[m][j].upd > incidents[m][j].upd
  BY <1>4 DEF Newer
<1> QED BY <1>1, <1>2, <1>3, <1>4, IncidentEffect

\* Nodes and orders of delivery do not matter: a copy that is replaced, by an
\* update or by a merge, is replaced by a newer one.
THEOREM LastWriterWins == Spec => NewestWins
<1>1. Init => TypeOK /\ Known
  BY TypeInit DEF Init, Known, Held, NoEvent, NoEncoding
<1>2. TypeOK /\ Known /\ [Next]_vars => (TypeOK /\ Known)'
  BY TypeStep, KnownStep
<1>3. TypeOK /\ Known /\ [Next]_vars =>
        [\A n \in Nodes, i \in Incidents :
            Held(n, i) /\ Held(n, i)' /\ incidents'[n][i] # incidents[n][i]
               => incidents'[n][i].upd > incidents[n][i].upd]_vars
  BY NewestStep
<1> QED BY <1>1, <1>2, <1>3, PTL DEF Spec, NewestWins

-----------------------------------------------------------------------------
(* Tombstones, with datagrams younger than Expiry. *)

\* A misdated copy is one the node has stored, and is marked as such.
MisdatedMarked ==
    \A n \in Nodes, i \in Incidents : Misdated(incidents[n][i]) => i \in misdated[n]

\* An incident stays marked until the node restarts, without tombstones.
LEMMA MisdatedGrows ==
    ASSUME TypeOK, [Next]_vars, NEW m \in Nodes, NEW j \in Incidents,
           tombstones'[m][j] # 0, j \notin misdated'[m]
    PROVE  j \notin misdated[m]
<1>1. CASE UNCHANGED misdated
  BY <1>1
<1>2. ASSUME NEW n \in Nodes, NEW a \in adding[n], StoreIncident(n, a)
      PROVE  j \notin misdated[m]
  <2>1. \/ misdated' = misdated
        \/ misdated' = [misdated EXCEPT ![n] = @ \cup {a.id}]
    BY <1>2, MarkedMore
  <2> QED BY <2>1 DEF TypeOK
<1>3. ASSUME NEW n \in Nodes, Restart(n) PROVE j \notin misdated[m]
  <2>1. m # n
    BY <1>3 DEF Restart, TypeOK
  <2> QED BY <1>3, <2>1 DEF Restart, TypeOK
<1>4. CASE Next
  BY <1>1, <1>2, <1>3, <1>4, NextSplit
     DEF Tick, ReceiveUpdate, CheckTombstone, CleanTombstones, CleanIncidents,
         BroadcastIncident, BroadcastIncidentUpdate, BeginEncoding, EndEncoding, ghosts
<1> QED BY <1>1, <1>4 DEF vars, ghosts

\* What UpdateIncident writes is not misdated.
LEMMA AppliedDated ==
    ASSUME NEW e \in Event, NEW u \in [id : Incidents, st : Status, ts : Nat]
    PROVE  ~Misdated(Applied(e, u))
BY DEF Misdated, Applied, Event

LEMMA MisdatedStep ==
    ASSUME TypeOK, MisdatedMarked, [Next]_vars, NEW m \in Nodes, NEW j \in Incidents,
           Misdated(incidents'[m][j])
    PROVE  j \in misdated'[m]
<1>0. ~Misdated(NoEvent)
  BY DEF Misdated, NoEvent
<1>1. CASE incidents'[m][j] = incidents[m][j] /\ UNCHANGED misdated
  BY <1>1 DEF MisdatedMarked
<1>2. ASSUME NEW n \in Nodes, NEW u \in [id : Incidents, st : Status, ts : Nat],
             UpdateIncident(n, u), UNCHANGED misdated
      PROVE  j \in misdated'[m]
  <2>1. CASE Held(m, j) /\ incidents'[m][j] = Applied(incidents[m][j], u)
    <3>1. incidents[m][j] \in Event
      BY <2>1 DEF TypeOK, Held, NoEvent
    <3> QED BY <2>1, <3>1, AppliedDated
  <2> QED BY <1>1, <1>2, <2>1, UpdateEffect
<1>3. ASSUME NEW n \in Nodes, ReceiveUpdate(n) PROVE j \in misdated'[m]
  <2>1. PICK u \in updates : UpdateIncident(n, u)
    BY <1>3 DEF ReceiveUpdate
  <2>2. u \in [id : Incidents, st : Status, ts : Nat]
    BY DEF TypeOK
  <2> QED BY <1>2, <1>3, <2>1, <2>2 DEF ReceiveUpdate, ghosts
<1>4. ASSUME NEW n \in Nodes, NEW i \in Incidents, NEW st \in Status \ {"triggered"},
             BroadcastIncidentUpdate(n, i, st)
      PROVE  j \in misdated'[m]
  <2> DEFINE u == [id |-> i, st |-> st, ts |-> Now(n)]
  <2>1. u \in [id : Incidents, st : Status, ts : Nat]
    BY NowNat
  <2>2. UpdateIncident(n, u) /\ UNCHANGED misdated
    BY <1>4 DEF BroadcastIncidentUpdate, ghosts
  <2> HIDE DEF u
  <2> QED BY <1>2, <2>1, <2>2
<1>5. ASSUME NEW n \in Nodes, NEW a \in adding[n], StoreIncident(n, a)
      PROVE  j \in misdated'[m]
  <2>1. a.id \in Incidents
    BY DEF TypeOK, Records
  <2>2. CASE ~Newer(n, a.id, a.ev)
    BY <1>1, <1>5, <2>2 DEF StoreIncident
  <2>3. CASE Newer(n, a.id, a.ev)
    <3>1. /\ incidents' = [incidents EXCEPT ![n][a.id] = a.ev]
          /\ misdated' = IF Misdated(a.ev) THEN [misdated EXCEPT ![n] = @ \cup {a.id}]
                         ELSE misdated
      BY <1>5, <2>3 DEF StoreIncident
    <3>2. incidents'[m][j] = IF m = n /\ j = a.id THEN a.ev ELSE incidents[m][j]
      BY <2>1, <3>1, NestedValue DEF TypeOK
    <3>3. misdated[m] \subseteq misdated'[m]
      BY <3>1 DEF TypeOK
    <3>4. CASE m = n /\ j = a.id
      BY <3>1, <3>2, <3>4 DEF TypeOK
    <3>5. CASE ~(m = n /\ j = a.id)
      BY <3>2, <3>3, <3>5 DEF MisdatedMarked
    <3> QED BY <3>4, <3>5
  <2> QED BY <2>2, <2>3
<1>6. ASSUME NEW n \in Nodes, CleanIncidents(n) PROVE j \in misdated'[m]
  <2>1. incidents'[m][j] = incidents[m][j] \/ incidents'[m][j] = NoEvent
    BY <1>6 DEF CleanIncidents, TypeOK
  <2> QED BY <1>0, <1>1, <1>6, <2>1 DEF CleanIncidents, ghosts
<1>7. ASSUME NEW n \in Nodes, Restart(n) PROVE j \in misdated'[m]
  <2>1. CASE m = n
    <3>1. incidents'[m][j] = NoEvent
      BY <1>7, <2>1 DEF Restart, TypeOK
    <3> QED BY <1>0, <3>1
  <2>2. CASE m # n
    <3>1. incidents'[m] = incidents[m] /\ misdated'[m] = misdated[m]
      BY <1>7, <2>2 DEF Restart, TypeOK
    <3> QED BY <3>1 DEF MisdatedMarked
  <2> QED BY <2>1, <2>2
<1>8. ASSUME NEW n \in Nodes, NEW i \in Incidents, BroadcastIncident(n, i)
      PROVE  j \in misdated'[m]
  <2> DEFINE e == [st |-> "triggered", upd |-> Now(n), res |-> 0]
  <2>1. incidents' = [incidents EXCEPT ![n][i] = e] /\ UNCHANGED misdated
    BY <1>8 DEF BroadcastIncident
  <2>2. ~Misdated(e)
    BY DEF Misdated
  <2> HIDE DEF e
  <2>3. incidents'[m][j] = IF m = n /\ j = i THEN e ELSE incidents[m][j]
    BY <2>1, NestedValue DEF TypeOK
  <2> QED BY <1>1, <2>1, <2>2, <2>3
<1>9. ASSUME UNCHANGED <<incidents, misdated>> PROVE j \in misdated'[m]
  BY <1>1, <1>9
<1>10. ASSUME Next PROVE j \in misdated'[m]
  BY <1>3, <1>4, <1>5, <1>6, <1>7, <1>8, <1>9, <1>10, NextSplit
     DEF Tick, local, ghosts, CheckTombstone, CleanTombstones, BeginEncoding, EndEncoding
<1> QED BY <1>9, <1>10 DEF vars, local, ghosts

\* A running cleanup spares the tombstones it must spare: none that is left
\* is older than its cutoff.
CleanupSound ==
    \A n \in Nodes : cutoff[n] # 0 =>
        /\ cutoff[n] + Expiry <= Now(n)
        /\ \A i \in Incidents : tombstones[n][i] # 0 => tombstones[n][i] >= cutoff[n]

\* One step of a status change: what it leaves behind is its own timestamp.
LEMMA UpdateTombstone ==
    ASSUME TypeOK, TombstoneHasRecord, NEW n \in Nodes,
           NEW u \in [id : Incidents, st : Status, ts : Nat], UpdateIncident(n, u),
           NEW m \in Nodes, NEW j \in Incidents, tombstones'[m][j] # 0
    PROVE  /\ j \notin misdated[m] =>
                Held(m, j)' /\ incidents'[m][j].upd >= tombstones'[m][j]
           /\ \/ tombstones'[m][j] = tombstones[m][j]
              \/ m = n /\ tombstones'[m][j] = u.ts
<1>1. CASE /\ incidents'[m][j] = incidents[m][j]
           /\ tombstones'[m][j] = tombstones[m][j]
  BY <1>1 DEF TombstoneHasRecord, Held
<1>2. CASE /\ m = n /\ Held(m, j) /\ u.ts > incidents[m][j].upd
           /\ incidents'[m][j] = Applied(incidents[m][j], u)
           /\ tombstones'[m][j] = IF u.st = "resolved" THEN u.ts
                                  ELSE tombstones[m][j]
  <2>1. incidents[m][j] \in Event
    BY <1>2 DEF TypeOK, Held, NoEvent
  <2>2. incidents'[m][j].st = u.st /\ incidents'[m][j].upd = u.ts
    BY <1>2, <2>1 DEF Applied, Event
  <2>3. u.st \in Status /\ u.ts \in Nat
    OBVIOUS
  <2>4. u.st # "none"
    BY <2>3 DEF Status
  <2>5. tombstones[m][j] # 0 /\ j \notin misdated[m] =>
            incidents[m][j].upd >= tombstones[m][j]
    BY DEF TombstoneHasRecord
  <2>6. incidents[m][j].upd \in Nat /\ tombstones[m][j] \in Nat
    BY <2>1 DEF TypeOK, Event
  <2>7. Held(m, j)'
    BY <2>2, <2>4 DEF Held
  <2> QED BY <1>2, <2>2, <2>3, <2>5, <2>6, <2>7
<1> QED BY <1>1, <1>2, UpdateEffect

LEMMA TombstoneStep ==
    ASSUME TypeOK, Known, MisdatedMarked, CleanupSound, TombstoneHasRecord,
           [Next]_vars, NEW m \in Nodes, NEW j \in Incidents,
           tombstones'[m][j] # 0, j \notin misdated'[m]
    PROVE  Held(m, j)' /\ incidents'[m][j].upd >= tombstones'[m][j]
<1> DEFINE Goal == Held(m, j)' /\ incidents'[m][j].upd >= tombstones'[m][j]
<1>0. j \notin misdated[m]
  BY MisdatedGrows
<1>1. CASE /\ incidents'[m][j] = incidents[m][j]
           /\ tombstones'[m][j] \in {0, tombstones[m][j]}
  BY <1>0, <1>1 DEF TombstoneHasRecord, Held
<1>2. ASSUME NEW n \in Nodes, ReceiveUpdate(n) PROVE Goal
  <2>1. PICK u \in updates : UpdateIncident(n, u)
    BY <1>2 DEF ReceiveUpdate
  <2>2. u \in [id : Incidents, st : Status, ts : Nat]
    BY DEF TypeOK
  <2> QED BY <1>0, <2>1, <2>2, UpdateTombstone
<1>3. ASSUME NEW n \in Nodes, NEW i \in Incidents, NEW st \in Status \ {"triggered"},
             BroadcastIncidentUpdate(n, i, st)
      PROVE  Goal
  <2> DEFINE u == [id |-> i, st |-> st, ts |-> Now(n)]
  <2>1. u \in [id : Incidents, st : Status, ts : Nat]
    BY NowNat
  <2>2. UpdateIncident(n, u)
    BY <1>3 DEF BroadcastIncidentUpdate
  <2> HIDE DEF u
  <2> QED BY <1>0, <2>1, <2>2, UpdateTombstone
<1>4. ASSUME NEW n \in Nodes, NEW a \in adding[n], StoreIncident(n, a) PROVE Goal
  <2>1. UNCHANGED tombstones
    BY <1>4 DEF StoreIncident
  <2>2. a.id \in Incidents /\ a.ev \in Event
    BY DEF TypeOK, Records
  <2>3. Held(m, j) /\ incidents[m][j].upd >= tombstones[m][j]
    BY <1>0, <2>1 DEF TombstoneHasRecord
  <2>4. CASE UNCHANGED incidents
    BY <1>1, <2>1, <2>4
  <2>5. CASE /\ incidents' = [incidents EXCEPT ![n][a.id] = a.ev]
             /\ Newer(n, a.id, a.ev)
    <3>1. incidents'[m][j] = IF m = n /\ j = a.id THEN a.ev ELSE incidents[m][j]
      BY <2>2, <2>5, NestedValue DEF TypeOK
    <3>2. CASE m = n /\ j = a.id
      <4>1. a.ev.upd > incidents[m][j].upd
        BY <2>3, <2>5, <3>2 DEF Newer
      <4>2. a.ev.upd \in Nat /\ incidents[m][j].upd \in Nat /\ tombstones[m][j] \in Nat
        BY <2>2 DEF TypeOK, Event, NoEvent
      <4>3. a.ev.st # "none"
        BY <2>2 DEF Event, Status
      <4> QED BY <2>1, <2>3, <3>1, <3>2, <4>1, <4>2, <4>3 DEF Held
    <3>3. CASE ~(m = n /\ j = a.id)
      BY <1>1, <2>1, <3>1, <3>3
    <3> QED BY <3>2, <3>3
  <2> QED BY <1>4, <2>4, <2>5 DEF StoreIncident
<1>5. ASSUME NEW n \in Nodes, CleanTombstones(n) PROVE Goal
  <2>1. UNCHANGED incidents
    BY <1>5 DEF CleanTombstones
  <2>2. tombstones'[m][j] \in {0, tombstones[m][j]}
    BY <1>5 DEF CleanTombstones, TypeOK
  <2> QED BY <1>1, <2>1, <2>2
<1>6. ASSUME NEW n \in Nodes, CleanIncidents(n) PROVE Goal
  <2>1. UNCHANGED tombstones /\ cutoff[n] # 0
    BY <1>6 DEF CleanIncidents
  <2>2. incidents[m][j].upd >= tombstones[m][j]
    BY <1>0, <2>1 DEF TombstoneHasRecord
  <2>3. m = n => tombstones[m][j] >= cutoff[n]
    BY <2>1 DEF CleanupSound
  <2>4. /\ incidents[m][j].upd \in Nat /\ incidents[m][j].res \in Nat
        /\ tombstones[m][j] \in Nat /\ cutoff[n] \in Nat
    BY DEF TypeOK, Event, NoEvent
  <2>5. m = n => ~Expired(incidents[m][j], cutoff[n])
    BY <1>0, <2>2, <2>3, <2>4 DEF Expired, MisdatedMarked, Misdated
  <2>6. incidents'[m][j] = incidents[m][j]
    BY <1>6, <2>5 DEF CleanIncidents, TypeOK
  <2> QED BY <1>1, <2>1, <2>6
<1>7. ASSUME NEW n \in Nodes, Restart(n) PROVE Goal
  <2>1. m # n
    BY <1>7 DEF Restart, TypeOK
  <2>2. incidents'[m] = incidents[m] /\ tombstones'[m] = tombstones[m]
    BY <1>7, <2>1 DEF Restart, TypeOK
  <2> QED BY <1>1, <2>2
<1>8. ASSUME NEW n \in Nodes, NEW i \in Incidents, BroadcastIncident(n, i) PROVE Goal
  <2> DEFINE e == [st |-> "triggered", upd |-> Now(n), res |-> 0]
  <2>1. incidents' = [incidents EXCEPT ![n][i] = e] /\ created[i] = 0 /\ UNCHANGED tombstones
    BY <1>8 DEF BroadcastIncident
  <2> HIDE DEF e
  <2>2. incidents'[m][j] = IF m = n /\ j = i THEN e ELSE incidents[m][j]
    BY <2>1, NestedValue DEF TypeOK
  <2>3. created[j] # 0
    BY <1>0, <2>1 DEF TombstoneHasRecord, Known
  <2> QED BY <1>1, <2>1, <2>2, <2>3
<1>9. ASSUME UNCHANGED <<incidents, tombstones>> PROVE Goal
  BY <1>1, <1>9
<1> HIDE DEF Goal
<1>10. ASSUME Next PROVE Goal
  BY <1>2, <1>3, <1>4, <1>5, <1>6, <1>7, <1>8, <1>9, <1>10, NextSplit
     DEF Tick, local, CheckTombstone, BeginEncoding, EndEncoding
<1>11. ASSUME UNCHANGED vars PROVE Goal
  BY <1>9, <1>11 DEF vars, local
<1> QED BY <1>10, <1>11 DEF Goal

LEMMA CleanupStep ==
    ASSUME Delay <= Expiry, TypeOK, CleanupSound, TombstoneHasRecord, [Next]_vars,
           NEW m \in Nodes, cutoff'[m] # 0
    PROVE  /\ cutoff'[m] + Expiry <= Now(m)'
           /\ \A i \in Incidents : tombstones'[m][i] # 0 => tombstones'[m][i] >= cutoff'[m]
<1> USE FederationAssumption
<1> DEFINE Goal == /\ cutoff'[m] + Expiry <= Now(m)'
                   /\ \A i \in Incidents :
                        tombstones'[m][i] # 0 => tombstones'[m][i] >= cutoff'[m]
<1>0. /\ cutoff[m] \in Nat /\ Now(m) \in Nat /\ Expiry \in Nat /\ Delay \in Nat
      /\ tombstones \in [Nodes -> [Incidents -> Nat]]
  BY NowNat DEF TypeOK
<1>1. UNCHANGED clock => Now(m)' = Now(m)
  BY DEF Now
<1>2. CASE UNCHANGED <<clock, tombstones, cutoff>>
  BY <1>1, <1>2 DEF CleanupSound
<1>3. CASE Tick
  <2>1. Now(m)' >= Now(m)
    BY <1>3 DEF Tick, Now, TypeOK
  <2>2. Now(m)' \in Nat
    BY <1>3 DEF Tick, Now, TypeOK
  <2> QED BY <1>0, <1>3, <2>1, <2>2 DEF Tick, local, CleanupSound
<1>4. ASSUME NEW n \in Nodes, NEW u \in [id : Incidents, st : Status, ts : Nat],
             UpdateIncident(n, u), u.ts + Delay >= Now(n), UNCHANGED <<clock, cutoff>>
      PROVE  Goal
  <2>1. cutoff[m] + Expiry <= Now(m)
    BY <1>4 DEF CleanupSound
  <2>2. ASSUME NEW i \in Incidents, tombstones'[m][i] # 0
        PROVE  tombstones'[m][i] >= cutoff[m]
    <3>1. \/ tombstones'[m][i] = tombstones[m][i]
          \/ m = n /\ tombstones'[m][i] = u.ts
      BY <1>4, <2>2, UpdateTombstone
    <3>2. CASE tombstones'[m][i] = tombstones[m][i]
      BY <1>4, <2>2, <3>2 DEF CleanupSound
    <3>3. CASE m = n /\ tombstones'[m][i] = u.ts
      <4>1. u.ts \in Nat
        OBVIOUS
      <4> QED BY <1>0, <1>4, <2>1, <3>3, <4>1
    <3> QED BY <3>1, <3>2, <3>3
  <2> QED BY <1>1, <1>4, <2>1, <2>2
<1>5. ASSUME NEW n \in Nodes, ReceiveUpdate(n) PROVE Goal
  <2>1. PICK u \in updates : u.ts + Delay >= Now(n) /\ UpdateIncident(n, u)
    BY <1>5 DEF ReceiveUpdate
  <2>2. u \in [id : Incidents, st : Status, ts : Nat]
    BY DEF TypeOK
  <2>3. UNCHANGED <<clock, cutoff>>
    BY <1>5 DEF ReceiveUpdate
  <2> HIDE DEF Goal
  <2> QED BY <1>4, <2>1, <2>2, <2>3
<1>6. ASSUME NEW n \in Nodes, NEW i \in Incidents, NEW st \in Status \ {"triggered"},
             BroadcastIncidentUpdate(n, i, st)
      PROVE  Goal
  <2> DEFINE u == [id |-> i, st |-> st, ts |-> Now(n)]
  <2>1. u \in [id : Incidents, st : Status, ts : Nat] /\ u.ts + Delay >= Now(n)
    BY <1>0, NowNat
  <2>2. UpdateIncident(n, u) /\ UNCHANGED <<clock, cutoff>>
    BY <1>6 DEF BroadcastIncidentUpdate
  <2> HIDE DEF u, Goal
  <2> QED BY <1>4, <2>1, <2>2
<1>7. ASSUME NEW n \in Nodes, CleanTombstones(n) PROVE Goal
  <2>1. CASE m = n
    <3>1. cutoff'[m] = Now(m) - Expiry /\ Now(m)' = Now(m)
      BY <1>1, <1>7, <2>1 DEF CleanTombstones, TypeOK
    <3>2. \A i \in Incidents : tombstones'[m][i] =
            IF tombstones[m][i] < Now(m) - Expiry THEN 0 ELSE tombstones[m][i]
      BY <1>7, <2>1 DEF CleanTombstones, TypeOK
    <3>3. \A i \in Incidents : tombstones[m][i] \in Nat
      BY <1>0
    <3> QED BY <1>0, <3>1, <3>2, <3>3
  <2>2. CASE m # n
    <3>1. cutoff'[m] = cutoff[m] /\ tombstones'[m] = tombstones[m] /\ Now(m)' = Now(m)
      BY <1>1, <1>7, <2>2 DEF CleanTombstones, TypeOK
    <3> QED BY <3>1 DEF CleanupSound
  <2> QED BY <2>1, <2>2
<1>8. ASSUME NEW n \in Nodes, CleanIncidents(n) \/ Restart(n) PROVE Goal
  <2>1. m # n
    BY <1>8 DEF CleanIncidents, Restart, TypeOK
  <2>2. cutoff'[m] = cutoff[m] /\ tombstones'[m] = tombstones[m] /\ Now(m)' = Now(m)
    BY <1>1, <1>8, <2>1 DEF CleanIncidents, Restart, TypeOK
  <2> QED BY <2>2 DEF CleanupSound
<1> HIDE DEF Goal
<1>9. CASE Next
  BY <1>2, <1>3, <1>5, <1>6, <1>7, <1>8, <1>9, NextSplit
     DEF Goal, CheckTombstone, StoreIncident, BroadcastIncident, BeginEncoding, EndEncoding
<1>10. CASE UNCHANGED vars
  BY <1>2, <1>10 DEF Goal, vars, local
<1> QED BY <1>9, <1>10 DEF Goal

\* The inductive invariant behind TombstoneHasRecord.
IInv == TypeOK /\ Known /\ MisdatedMarked /\ CleanupSound /\ TombstoneHasRecord

\* Neither the gap between AddIncident's two locks nor the one between the
\* two halves of cleanupTombstones lets an incident older than its
\* resolution back in while the tombstone lasts, and the record itself stays
\* as long, whatever an encoder reads while UpdateIncident writes: all but
\* the incidents of which the node has stored a misdated copy.
THEOREM TombstonesSound ==
    ASSUME Delay <= Expiry
    PROVE  Spec => []TombstoneHasRecord
<1>1. Init => IInv
  BY TypeInit DEF Init, IInv, Known, MisdatedMarked, Misdated, CleanupSound,
     TombstoneHasRecord, Held, NoEvent, NoEncoding
<1>2. IInv /\ [Next]_vars => IInv'
  BY TypeStep, KnownStep, MisdatedStep, TombstoneStep, CleanupStep
     DEF IInv, MisdatedMarked, CleanupSound, TombstoneHasRecord
<1>3. IInv => TombstoneHasRecord
  BY DEF IInv
<1> QED BY <1>1, <1>2, <1>3, PTL DEF Spec

-----------------------------------------------------------------------------
(* Whole reads. *)

\* A resolved incident was last written by its resolution.
Whole(e) == e.st = "resolved" => e.res = e.upd

AllWhole ==
    /\ \A n \in Nodes, i \in Incidents :
         /\ Whole(incidents[n][i])
         /\ \A e \in encoding[n][i].seen : Whole(e)
    /\ \A r \in records : Whole(r.ev)
    /\ \A n \in Nodes : \A a \in adding[n] : Whole(a.ev)

LEMMA AppliedWhole ==
    ASSUME NEW e \in Event, NEW u \in [id : Incidents, st : Status, ts : Nat]
    PROVE  Whole(Applied(e, u))
BY DEF Whole, Applied, Event

LEMMA WholeStep ==
    ASSUME ~TornReads, TypeOK, Known, AllWhole, [Next]_vars
    PROVE  AllWhole'
<1> USE FederationAssumption
<1>1. ASSUME NEW m \in Nodes, NEW j \in Incidents PROVE Whole(incidents'[m][j])
  <2>1. CASE \E n \in Nodes, i \in Incidents : BroadcastIncident(n, i)
    <3>1. PICK n \in Nodes, i \in Incidents : BroadcastIncident(n, i)
      BY <2>1
    <3> DEFINE e == [st |-> "triggered", upd |-> Now(n), res |-> 0]
    <3>2. Whole(e)
      BY DEF Whole
    <3>3. incidents' = [incidents EXCEPT ![n][i] = e]
      BY <3>1 DEF BroadcastIncident
    <3> HIDE DEF e
    <3>4. incidents'[m][j] = IF m = n /\ j = i THEN e ELSE incidents[m][j]
      BY <3>3, NestedValue DEF TypeOK
    <3> QED BY <3>2, <3>4 DEF AllWhole
  <2>2. CASE ~(created[j] = 0 /\ created'[j] # 0)
    <3>1. Whole(NoEvent)
      BY DEF Whole, NoEvent
    <3>2. ASSUME NEW u \in [id : Incidents, st : Status, ts : Nat], Held(m, j),
                 incidents'[m][j] = Applied(incidents[m][j], u)
          PROVE  Whole(incidents'[m][j])
      <4>1. incidents[m][j] \in Event
        BY <3>2 DEF TypeOK, Held, NoEvent
      <4> QED BY <3>2, <4>1, AppliedWhole
    <3>3. ASSUME NEW a \in adding[m], incidents'[m][j] = a.ev
          PROVE  Whole(incidents'[m][j])
      BY <3>3 DEF AllWhole
    <3>4. ASSUME incidents'[m][j] = incidents[m][j] PROVE Whole(incidents'[m][j])
      BY <3>4 DEF AllWhole
    <3> QED BY <2>2, <3>1, <3>2, <3>3, <3>4, IncidentEffect
  <2>3. (created[j] = 0 /\ created'[j] # 0) =>
            \E n \in Nodes, i \in Incidents : BroadcastIncident(n, i)
    <3>1. CASE UNCHANGED created
      BY <3>1
    <3>2. CASE Next
      BY <3>1, <3>2, NextSplit
         DEF Tick, ReceiveUpdate, CheckTombstone, StoreIncident, CleanTombstones,
             CleanIncidents, Restart, BroadcastIncidentUpdate, BeginEncoding, EndEncoding,
             ghosts
    <3> QED BY <3>1, <3>2 DEF vars, ghosts
  <2> QED BY <2>1, <2>2, <2>3
<1>2. \A r \in records' : Whole(r.ev)
  <2>1. CASE records' \subseteq records
    BY <2>1 DEF AllWhole
  <2>2. ASSUME NEW n \in Nodes, NEW i \in Incidents, EndEncoding(n, i)
        PROVE  \A r \in records' : Whole(r.ev)
    <3>1. PICK e \in Encoded(encoding[n][i].seen) : records' = records \cup To(n, i, e)
      BY <2>2 DEF EndEncoding
    <3>2. Whole(e)
      BY <3>1 DEF Encoded, AllWhole
    <3>3. \A r \in To(n, i, e) : r.ev = e
      BY DEF To
    <3> QED BY <3>1, <3>2, <3>3 DEF AllWhole
  <2>3. CASE Next
    BY <2>1, <2>2, <2>3, NextSplit
       DEF Tick, ReceiveUpdate, CheckTombstone, StoreIncident, CleanTombstones,
           CleanIncidents, Restart, BroadcastIncident, BroadcastIncidentUpdate, BeginEncoding
  <2> QED BY <2>1, <2>3 DEF vars
<1>3. ASSUME NEW m \in Nodes, NEW a \in adding'[m] PROVE Whole(a.ev)
  <2>1. a \in adding[m] \/ \E r \in records : a = [id |-> r.id, ev |-> r.ev]
    BY AddingEffect
  <2> QED BY <2>1 DEF AllWhole
<1>4. ASSUME NEW m \in Nodes, NEW j \in Incidents, NEW e \in encoding'[m][j].seen
      PROVE  Whole(e)
  <2>1. \/ e \in encoding[m][j].seen
        \/ e = incidents[m][j]
        \/ e = incidents'[m][j]
    BY SeenEffect
  <2> QED BY <1>1, <2>1 DEF AllWhole
<1> QED BY <1>1, <1>2, <1>3, <1>4 DEF AllWhole

\* Nothing is marked as misdated.
NoneMisdated == \A n \in Nodes : misdated[n] = {}

LEMMA NoneMisdatedStep ==
    ASSUME TypeOK, AllWhole, NoneMisdated, [Next]_vars
    PROVE  NoneMisdated'
<1>1. CASE UNCHANGED misdated
  BY <1>1 DEF NoneMisdated
<1>2. ASSUME NEW n \in Nodes, NEW a \in adding[n], StoreIncident(n, a)
      PROVE  NoneMisdated'
  <2>1. Whole(a.ev) /\ a.ev \in Event
    BY DEF AllWhole, TypeOK, Records
  <2>2. ~Misdated(a.ev)
    BY <2>1 DEF Whole, Misdated, Event
  <2> QED BY <1>1, <1>2, <2>2 DEF StoreIncident
<1>3. ASSUME NEW n \in Nodes, Restart(n) PROVE NoneMisdated'
  BY <1>3 DEF Restart, NoneMisdated, TypeOK
<1>4. CASE Next
  BY <1>1, <1>2, <1>3, <1>4, NextSplit
     DEF Tick, ReceiveUpdate, CheckTombstone, CleanTombstones, CleanIncidents,
         BroadcastIncident, BroadcastIncidentUpdate, BeginEncoding, EndEncoding, ghosts
<1> QED BY <1>1, <1>4 DEF vars, ghosts

\* Only a read that races with UpdateIncident makes a misdated copy: were
\* incidents copied under the lock before json.Marshal, the exception of
\* TombstoneHasRecord would never be used.
THEOREM WholeReadsMisdateNothing ==
    ASSUME ~TornReads
    PROVE  Spec => []NoneMisdated
<1>1. Init => TypeOK /\ Known /\ AllWhole /\ NoneMisdated
  BY TypeInit DEF Init, Known, AllWhole, Whole, NoneMisdated, Held, NoEvent, NoEncoding
<1>2. TypeOK /\ Known /\ AllWhole /\ NoneMisdated /\ [Next]_vars
        => (TypeOK /\ Known /\ AllWhole /\ NoneMisdated)'
  BY TypeStep, KnownStep, WholeStep, NoneMisdatedStep
<1> QED BY <1>1, <1>2, PTL DEF Spec
=============================================================================
