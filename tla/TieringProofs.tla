--------------------------- MODULE TieringProofs ---------------------------
(***************************************************************************)
(* Proofs about Tiering, for any rows, retentions and bounds, and any      *)
(* number of TierData, Compact and RestoreFromCold beside each other.      *)
(***************************************************************************)
EXTENDS Tiering, FiniteSetTheorems, TLAPS

-----------------------------------------------------------------------------
(* The inductive invariants.                                               *)

\* A WarmFile or ColdArchive that somebody may still act on: in a list, in the
\* saved state, in a pass's hands or in a state about to be written.
Holding(p, f) ==
    \/ pass[p].pc \in {"delete", "track", "remove"} /\ f = pass[p].file
    \/ pass[p].pc \in {"archive", "remove", "clean"} /\ f \in pass[p].todo
    \/ pass[p].pc = "write" /\ f \in pass[p].state.warm \cup pass[p].state.cold

Writes(q, f) ==
    helper[q].pc = "write" /\ f \in helper[q].state.warm \cup helper[q].state.cold

Circulates(f) ==
    \/ f \in warmFiles \cup coldArchives \cup saved.warm \cup saved.cold
    \/ \E p \in Passes : Holding(p, f)
    \/ \E q \in Helpers : Writes(q, f)

Exists(f) ==
    \/ f.name \in DOMAIN warm
    \/ Key(f) \in DOMAIN cold
    \/ Expired(f.end)

\* No warm file need keep the row any more.
Archived(r) ==
    \/ \E k \in DOMAIN cold : r \in cold[k]
    \/ r \in skipped \cup purged \cup cleaned \cup torn

\* When no two exports share a second a name stands for one file, rec[name],
\* and for the rows written to it, rows[name].
Backed(rows, n) == \A r \in rows[n] : Archived(r)

Listed(rec) ==
    \A f \in File : Circulates(f) => f.name \in 1 .. files /\ f = rec[f.name] /\ Exists(f)

WarmOK(rows) == \A n \in DOMAIN warm : n \in 1 .. files /\ warm[n] \subseteq rows[n]

ColdOK(rec, rows) ==
    \A k \in DOMAIN cold :
       /\ k.name \in 1 .. files /\ k = Key(rec[k.name])
       /\ cold[k] \subseteq rows[k.name] /\ Backed(rows, k.name)

\* A file that is not whole, or gone, has been archived.
Whole(rows) ==
    \A n \in 1 .. files : (n \in DOMAIN warm /\ warm[n] = rows[n]) \/ Backed(rows, n)

Removing(rows) ==
    \A p \in Passes, f \in File :
       pass[p].pc = "remove" /\ f = pass[p].file =>
          Backed(rows, f.name) /\ (Key(f) \in DOMAIN cold \/ Expired(f.end))

Cleaning ==
    \A p \in Passes, f \in File :
       pass[p].pc = "clean" /\ f \in pass[p].todo => Expired(f.end)

Restores(rec, rows, k) ==
    /\ k.name \in 1 .. files /\ k = Key(rec[k.name]) /\ Backed(rows, k.name)
    /\ k \in DOMAIN cold \/ Expired(rec[k.name].end)

Copying(rec, rows) ==
    \A q \in Helpers, k \in Keys :
       helper[q].pc = "copy" /\ k = helper[q].key =>
          Restores(rec, rows, k) /\ helper[q].rows \subseteq rows[k.name]

\* The rows were inserted, and a row whose timestamp is read is not younger
\* than the range of its file says.
Ranges(rec, rows) ==
    \A n \in 1 .. files : \A r \in rows[n] :
       ts[r] # -1 /\ (r \in Parsed => ts[r] <= rec[n].end)

CleanedOld ==
    \A r \in cleaned : ts[r] # -1 /\ (r \in Parsed => Expired(ts[r]))

\* What a pass is about to delete is in the file it has written.
Covered(rows) ==
    \A p \in Passes, c \in Int, f \in File :
       pass[p].pc = "delete" /\ c = pass[p].cutoff /\ f = pass[p].file =>
          Old(c) \ pass[p].missed \subseteq rows[f.name]

Timely ==
    /\ \A r \in hot : ts[r] # -1
    /\ \A p \in Passes :
          pass[p].pc \in {"export", "delete"} => pass[p].cutoff <= now - HotRetention

\* No row passes for older than HotRetention when it is inserted.
Orderly == \A r \in Rows : Lateness + Shift[r] <= HotRetention

Kept(rec, rows) ==
    /\ Listed(rec) /\ WarmOK(rows) /\ ColdOK(rec, rows) /\ Whole(rows)
    /\ Removing(rows) /\ Cleaning /\ Copying(rec, rows)
    /\ Ranges(rec, rows) /\ CleanedOld
    /\ Orderly => Covered(rows) /\ RowKept

IInv == \E rec \in [Nat -> File], rows \in [Nat -> SUBSET Rows] : Kept(rec, rows)

-----------------------------------------------------------------------------
(* The operators.                                                          *)

LEMMA MapsTyped ==
    ASSUME NEW f, NEW k, NEW v, NEW D, NEW V,
           DOMAIN f \subseteq D, \A j \in DOMAIN f : f[j] \subseteq V
    PROVE  /\ k \in D /\ v \subseteq V =>
                 /\ DOMAIN Put(f, k, v) \subseteq D
                 /\ \A j \in DOMAIN Put(f, k, v) : Put(f, k, v)[j] \subseteq V
           /\ DOMAIN Without(f, k) \subseteq D
           /\ \A j \in DOMAIN Without(f, k) : Without(f, k)[j] \subseteq V
BY DEF Put, Without

\* A set of times has a first and a last one.
LEMMA TimesHaveEnds ==
    ASSUME NEW S, S \subseteq Times, S # {}
    PROVE  /\ \E t \in S : \A u \in S : t <= u
           /\ \E t \in S : \A u \in S : u <= t
<1> DEFINE W == -1 .. MaxTime
           R == StrictSubsetOrdering(W)
           Below == {-1 .. t : t \in S}
           Above == {t .. MaxTime : t \in S}
<1>0. MaxTime \in Nat /\ S \subseteq W
  BY RetentionAssumption DEF Times
<1>1. \A T : T \subseteq W => T \in FiniteSubsetsOf(W)
  <2>1. IsFiniteSet(W)
    BY <1>0, FS_Interval
  <2> HIDE DEF W
  <2> QED
    BY <2>1, FS_Subset DEF FiniteSubsetsOf
<1>2. IsWellFoundedOn(R, FiniteSubsetsOf(W))
  BY FS_StrictSubsetOrderingWellFounded
<1>3. \A T, U : T \subseteq W /\ U \subseteq W /\ T \subseteq U /\ T # U => <<T, U>> \in R
  BY DEF StrictSubsetOrdering
<1>4. \A T \in Below \cup Above : T \subseteq W
  BY <1>0
<1>5. Below \subseteq FiniteSubsetsOf(W) /\ Above \subseteq FiniteSubsetsOf(W)
  BY <1>1, <1>4
<1>6. Below # {} /\ Above # {}
  OBVIOUS
<1> HIDE DEF R
<1>7. \E t \in S : \A u \in S : t <= u
  <2>1. PICK T \in Below : \A U \in Below : <<U, T>> \notin R
    <3> HIDE DEF Below, W
    <3> QED
      BY <1>2, <1>5, <1>6, WFMin
  <2>2. PICK t \in S : T = -1 .. t
    OBVIOUS
  <2>3. ASSUME NEW u \in S, u < t PROVE FALSE
    <3>1. (-1 .. u) \subseteq T /\ t \in T /\ t \notin -1 .. u /\ (-1 .. u) \in Below
      BY <1>0, <2>2, <2>3
    <3> QED
      BY <1>3, <1>4, <2>1, <3>1
  <2> QED
    BY <1>0, <2>3
<1>8. \E t \in S : \A u \in S : u <= t
  <2>1. PICK T \in Above : \A U \in Above : <<U, T>> \notin R
    <3> HIDE DEF Above, W
    <3> QED
      BY <1>2, <1>5, <1>6, WFMin
  <2>2. PICK t \in S : T = t .. MaxTime
    OBVIOUS
  <2>3. ASSUME NEW u \in S, t < u PROVE FALSE
    <3>1. (u .. MaxTime) \subseteq T /\ t \in T /\ t \notin u .. MaxTime
          /\ (u .. MaxTime) \in Above
      BY <1>0, <2>2, <2>3
    <3> QED
      BY <1>3, <1>4, <2>1, <3>1
  <2> QED
    BY <1>0, <2>3
<1> QED
  BY <1>7, <1>8

\* The range exportToWarm records.
LEMMA ExportedIs ==
    ASSUME TypeOK, NEW name \in Nat, NEW rows \in SUBSET Rows
    PROVE  /\ Exported(name, rows) \in File
           /\ Exported(name, rows).name = name
           /\ \A r \in rows \cap Parsed : ts[r] <= Exported(name, rows).end
<1> DEFINE times == IF rows \cap Parsed = {} THEN {-1} ELSE {ts[r] : r \in rows \cap Parsed}
<1>1. times \subseteq Times /\ times # {}
  BY RetentionAssumption DEF TypeOK, Times
<1>2. \A r \in rows \cap Parsed : ts[r] \in times
  OBVIOUS
<1>3. Exported(name, rows) = [name |-> name, start |-> Least(times), end |-> Greatest(times)]
  BY DEF Exported
<1> HIDE DEF times
<1>4. Least(times) \in times /\ Greatest(times) \in times /\ \A u \in times : u <= Greatest(times)
  BY <1>1, TimesHaveEnds DEF Least, Greatest
<1> QED
  BY <1>1, <1>2, <1>3, <1>4 DEF File

-----------------------------------------------------------------------------
(* The records of a pass and of a helper.                                  *)

LEMMA RecordsAre ==
    /\ Idle \in Pass /\ Done \in Pass /\ [pc |-> "warm"] \in Pass
    /\ Idle.pc = "idle" /\ Done.pc = "done"
    /\ \A q \in Pass : q.pc = "export" => q.cutoff \in Int
    /\ \A q \in Pass : q.pc \in {"delete", "track"} =>
          /\ q.cutoff \in Int /\ q.file \in File /\ q.missed \subseteq Rows
          /\ q = [pc |-> q.pc, cutoff |-> q.cutoff, file |-> q.file, missed |-> q.missed]
    /\ \A q \in Pass : q.pc \in {"archive", "clean"} =>
          q.todo \subseteq File /\ q = [pc |-> q.pc, todo |-> q.todo]
    /\ \A q \in Pass : q.pc = "remove" => q.todo \subseteq File /\ q.file \in File
    /\ \A q \in Pass : q.pc = "write" => q.state \in State
BY DEF Idle, Done, Pass

LEMMA HelpersAre ==
    /\ Idle \in Helper /\ [pc |-> "save"] \in Helper
    /\ \A q \in Helper : q.pc = "copy" => q.key \in Keys /\ q.rows \subseteq Rows
    /\ \A q \in Helper : q.pc = "list" => q.key \in Keys
    /\ \A q \in Helper : q.pc = "write" => q.state \in State
    /\ \A k \in Keys, r \in SUBSET Rows : [pc |-> "copy", key |-> k, rows |-> r] \in Helper
    /\ \A k \in Keys : [pc |-> "list", key |-> k] \in Helper
    /\ \A s \in State : [pc |-> "write", state |-> s] \in Helper
BY DEF Idle, Helper

LEMMA NewRecords ==
    /\ \A c \in Int : [pc |-> "export", cutoff |-> c] \in Pass
    /\ \A pc \in {"delete", "track"}, c \in Int, f \in File, m \in SUBSET Rows :
          [pc |-> pc, cutoff |-> c, file |-> f, missed |-> m] \in Pass
    /\ \A pc \in {"archive", "clean"}, todo \in SUBSET File :
          [pc |-> pc, todo |-> todo] \in Pass
    /\ \A todo \in SUBSET File, f \in File :
          [pc |-> "remove", todo |-> todo, file |-> f] \in Pass
    /\ \A s \in State : [pc |-> "write", state |-> s] \in Pass
BY DEF Pass

\* The two steps that change one field.
LEMMA GotoIs ==
    ASSUME TypeOK, NEW p \in Passes, At(p, "delete"), Goto(p, "track")
    PROVE  pass' = [pass EXCEPT ![p] = [pc |-> "track", cutoff |-> pass[p].cutoff,
                                        file |-> pass[p].file, missed |-> pass[p].missed]]
<1> DEFINE q == pass[p]
<1>1. q \in Pass /\ q.pc = "delete"
  BY DEF TypeOK, At
<1>2. q = [pc |-> q.pc, cutoff |-> q.cutoff, file |-> q.file, missed |-> q.missed]
  BY <1>1, RecordsAre
<1>3. [q EXCEPT !.pc = "track"]
        = [pc |-> "track", cutoff |-> q.cutoff, file |-> q.file, missed |-> q.missed]
  BY <1>2
<1> QED
  BY <1>3 DEF Goto, TypeOK

LEMMA TodoIs ==
    ASSUME TypeOK, NEW p \in Passes, At(p, "clean"), NEW f,
           pass' = [pass EXCEPT ![p].todo = @ \ {f}]
    PROVE  pass' = [pass EXCEPT ![p] = [pc |-> "clean", todo |-> pass[p].todo \ {f}]]
<1> DEFINE q == pass[p]
<1>1. q \in Pass /\ q.pc = "clean"
  BY DEF TypeOK, At
<1>2. q = [pc |-> q.pc, todo |-> q.todo]
  BY <1>1, RecordsAre
<1>3. [q EXCEPT !.todo = @ \ {f}] = [pc |-> "clean", todo |-> q.todo \ {f}]
  BY <1>1, <1>2
<1> QED
  BY <1>3 DEF TypeOK

\* What a step of pass p leaves there.
LEMMA PassBecomes ==
    ASSUME TypeOK, NEW p \in Passes, NEW q \in Pass, pass' = [pass EXCEPT ![p] = q]
    PROVE  /\ pass' \in [Passes -> Pass] /\ pass'[p] = q
           /\ \A r \in Passes : r # p => pass'[r] = pass[r]
BY DEF TypeOK

-----------------------------------------------------------------------------
(* TypeOK.                                                                 *)

LEMMA InitTypeOK == Init => TypeOK
<1> SUFFICES ASSUME Init PROVE TypeOK
  OBVIOUS
<1>1. -1 \in Times /\ 0 \in 0 .. MaxTime /\ 0 \in 0 .. MaxTroubles
  BY RetentionAssumption DEF Times
<1>2. Current \in State /\ saved \in State
  BY DEF Init, Current, State, Fresh
<1>3. pass \in [Passes -> Pass] /\ helper \in [Helpers -> Helper]
  BY RecordsAre, HelpersAre DEF Init
<1> QED
  BY <1>1, <1>2, <1>3 DEF Init, TypeOK

LEMMA StateIs ==
    /\ Current \in State <=> warmFiles \subseteq File /\ coldArchives \subseteq File
    /\ \A s \in State : s.warm \subseteq File /\ s.cold \subseteq File
    /\ Fresh \in State
BY DEF Current, State, Fresh

LEMMA StateIsNext ==
    /\ Current' \in State <=> warmFiles' \subseteq File /\ coldArchives' \subseteq File
    /\ Current' = [warm |-> warmFiles', cold |-> coldArchives']
BY DEF Current, State

LEMMA TodoTyped ==
    ASSUME TypeOK, NEW p \in Passes, pass[p].pc \in {"archive", "clean", "remove"}
    PROVE  pass[p].todo \subseteq File
<1>1. pass[p] \in Pass
  BY DEF TypeOK
<1> QED
  BY <1>1, RecordsAre

LEMMA ReturnIs ==
    ASSUME TypeOK, NEW p \in Passes, Return(p)
    PROVE  /\ pass' \in [Passes -> Pass] /\ pass'[p] \in {Idle, Done}
           /\ \A r \in Passes : r # p => pass'[r] = pass[r]
<1>1. pass' = [pass EXCEPT ![p] = After(p)] /\ After(p) \in {Idle, Done}
  BY DEF Return, After
<1> QED
  BY <1>1, RecordsAre, PassBecomes

\* A step of a pass, its record and the lists.
LEMMA StepTypeOK ==
    ASSUME TypeOK, NEW p \in Passes, NEW q \in Pass, pass' = [pass EXCEPT ![p] = q],
           warmFiles' \subseteq File, coldArchives' \subseteq File, hot' \subseteq Rows,
           UNCHANGED <<now, ts, helper>>, saved' \in State, files' \in Nat,
           skipped' \cup purged' \cup cleaned' \cup torn' \subseteq Rows,
           troubles' \in 0 .. MaxTroubles,
           DOMAIN warm' \subseteq Nat, \A n \in DOMAIN warm' : warm'[n] \subseteq Rows,
           DOMAIN cold' \subseteq Keys, \A k \in DOMAIN cold' : cold'[k] \subseteq Rows
    PROVE  TypeOK'
<1>1. Current' \in State
  BY StateIsNext
<1>2. pass' \in [Passes -> Pass]
  BY PassBecomes
<1> QED
  BY <1>1, <1>2 DEF TypeOK

\* A step of a helper, its record, the lists and the warm files.
LEMMA HelperTypeOK ==
    ASSUME TypeOK, NEW q \in Helpers, NEW h \in Helper,
           helper' = [helper EXCEPT ![q] = h],
           warmFiles' \subseteq File, coldArchives' \subseteq File, saved' \in State,
           UNCHANGED <<now, ts, hot, cold, pass, skipped, purged, cleaned, torn, files>>,
           troubles' \in 0 .. MaxTroubles,
           DOMAIN warm' \subseteq Nat, \A n \in DOMAIN warm' : warm'[n] \subseteq Rows
    PROVE  TypeOK'
<1>1. Current' \in State
  BY StateIsNext
<1>2. helper' \in [Helpers -> Helper]
  BY DEF TypeOK
<1> QED
  BY <1>1, <1>2 DEF TypeOK

LEMMA KeyIs == \A f \in File : Key(f) \in Keys /\ Key(f).name = f.name /\ f.name \in Nat
BY DEF File, Key, Keys

LEMMA StepsTypeOK ==
    ASSUME TypeOK, NEW p \in Passes, TierData(p) \/ Step(p)
    PROVE  TypeOK'
<1>0. /\ pass[p] \in Pass /\ warmFiles \subseteq File /\ coldArchives \subseteq File
      /\ troubles \in 0 .. MaxTroubles /\ files \in Nat /\ hot \subseteq Rows
      /\ now \in Int /\ HotRetention \in Int
      /\ DOMAIN warm \subseteq Nat /\ \A n \in DOMAIN warm : warm[n] \subseteq Rows
      /\ DOMAIN cold \subseteq Keys /\ \A k \in DOMAIN cold : cold[k] \subseteq Rows
      /\ skipped \cup purged \cup cleaned \cup torn \subseteq Rows /\ saved \in State
  BY StateIs, RetentionAssumption DEF TypeOK
<1>1. CASE TierData(p)
  <2>1. now - HotRetention \in Int
    BY <1>0
  <2>2. PICK q \in Pass : pass' = [pass EXCEPT ![p] = q]
    BY <1>1, <2>1, RecordsAre, NewRecords DEF TierData
  <2> QED
    BY <1>0, <1>1, <2>2, StepTypeOK DEF TierData, data, lists, gone
<1>2. CASE ExportToWarm(p)
  <2>1. PICK rows, name, read, written :
          /\ rows = Old(pass[p].cutoff) /\ name \in Names
          /\ read \subseteq rows /\ written \subseteq read
          /\ warm' = Put(warm, name, written)
          /\ pass' = [pass EXCEPT ![p] =
                        [pc |-> "delete", cutoff |-> pass[p].cutoff,
                         file |-> Exported(name, read), missed |-> rows \ written]]
          /\ files' = name
    BY <1>2 DEF ExportToWarm
  <2>2. troubles' \in 0 .. MaxTroubles
    BY <1>0, <1>2, RetentionAssumption DEF ExportToWarm, Trouble
  <2>3. name \in Nat /\ rows \subseteq Rows /\ read \subseteq Rows /\ written \subseteq Rows
    BY <1>0, <2>1 DEF Names, Old
  <2>4. pass[p].cutoff \in Int
    BY <1>0, <1>2, RecordsAre DEF ExportToWarm, At
  <2>5. [pc |-> "delete", cutoff |-> pass[p].cutoff,
         file |-> Exported(name, read), missed |-> rows \ written] \in Pass
    <3>1. Exported(name, read) \in File /\ rows \ written \in SUBSET Rows
      BY <2>3, ExportedIs
    <3> QED
      BY <2>4, <3>1, NewRecords
  <2>6. DOMAIN warm' \subseteq Nat /\ \A n \in DOMAIN warm' : warm'[n] \subseteq Rows
    BY <1>0, <2>1, <2>3, MapsTyped
  <2>7. UNCHANGED <<now, ts, hot, cold, warmFiles, coldArchives, saved, helper,
                    skipped, purged, cleaned, torn>>
    BY <1>2 DEF ExportToWarm, lists, gone
  <2> QED
    BY <1>0, <2>1, <2>2, <2>3, <2>5, <2>6, <2>7, StepTypeOK
<1>3. CASE ExportFails(p) \/ DeleteFails(p)
  <2>1. PICK q \in Pass : pass' = [pass EXCEPT ![p] = q]
    BY <1>3, RecordsAre DEF ExportFails, DeleteFails, Return, After
  <2>2. troubles' \in 0 .. MaxTroubles
    BY <1>0, <1>3, RetentionAssumption DEF ExportFails, DeleteFails, Trouble
  <2> QED
    BY <1>0, <1>3, <2>1, <2>2, StepTypeOK DEF ExportFails, DeleteFails, data, lists, gone
<1>4. CASE DeleteFromHot(p)
  <2>1. At(p, "delete") /\ Goto(p, "track")
    BY <1>4 DEF DeleteFromHot
  <2>2. pass[p].cutoff \in Int /\ pass[p].file \in File /\ pass[p].missed \subseteq Rows
    BY <1>0, <2>1, RecordsAre DEF At
  <2>3. PICK q \in Pass : pass' = [pass EXCEPT ![p] = q]
    BY <2>1, <2>2, GotoIs, NewRecords
  <2> QED
    BY <1>0, <1>4, <2>2, <2>3, StepTypeOK DEF DeleteFromHot, lists
<1>5. CASE TrackWarm(p)
  <2>1. pass[p].file \in File
    BY <1>0, <1>5, RecordsAre DEF TrackWarm, At
  <2> QED
    BY <1>0, <1>5, <2>1, RecordsAre, StepTypeOK DEF TrackWarm, data, gone
<1>6. CASE TierWarmToCold(p)
  <2>1. PICK q \in Pass : pass' = [pass EXCEPT ![p] = q]
    BY <1>0, <1>6, NewRecords DEF TierWarmToCold, Before
  <2>2. warmFiles' \subseteq File
    BY <1>0, <1>6 DEF TierWarmToCold
  <2> QED
    BY <1>0, <1>6, <2>1, <2>2, StepTypeOK DEF TierWarmToCold, data, gone
<1>7. CASE RemoveWarm(p)
  <2>1. pass[p].todo \subseteq File /\ pass[p].file \in File
    BY <1>0, <1>7, RecordsAre DEF RemoveWarm, At
  <2>2. PICK q \in Pass : pass' = [pass EXCEPT ![p] = q]
    BY <1>7, <2>1, NewRecords DEF RemoveWarm
  <2>3. DOMAIN warm' \subseteq Nat /\ \A n \in DOMAIN warm' : warm'[n] \subseteq Rows
    BY <1>0, <1>7, MapsTyped DEF RemoveWarm
  <2> QED
    BY <1>0, <1>7, <2>1, <2>2, <2>3, StepTypeOK DEF RemoveWarm, gone
<1>8. CASE CleanExpiredCold(p)
  <2>1. PICK q \in Pass : pass' = [pass EXCEPT ![p] = q]
    BY <1>0, <1>8, NewRecords DEF CleanExpiredCold, Before
  <2>2. coldArchives' \subseteq File
    BY <1>0, <1>8 DEF CleanExpiredCold
  <2> QED
    BY <1>0, <1>8, <2>1, <2>2, StepTypeOK DEF CleanExpiredCold, data, gone
<1>9. CASE MarshalState(p)
  <2>1. Writing \in Pass
    BY <1>0, StateIs, NewRecords DEF Writing
  <2> QED
    BY <1>0, <1>9, <2>1, StepTypeOK DEF MarshalState, data, lists, gone
<1>10. CASE SaveState(p)
  <2>1. PICK q \in Pass : pass' = [pass EXCEPT ![p] = q]
    BY <1>10, RecordsAre DEF SaveState, Return, After
  <2>2. saved' \in State
    BY <1>0, <1>10, RecordsAre DEF SaveState, At
  <2> QED
    BY <1>0, <1>10, <2>1, <2>2, StepTypeOK DEF SaveState, data, lists, gone
<1>11. ASSUME NEW f \in Todo(p), ArchiveToCold(p, f) PROVE TypeOK'
  <2>1. pass[p].todo \subseteq File /\ f \in File
    BY <1>11, TodoTyped DEF ArchiveToCold, At
  <2>2. PICK q \in Pass : pass' = [pass EXCEPT ![p] = q]
    BY <1>11, <2>1, NewRecords DEF ArchiveToCold
  <2>3. DOMAIN cold' \subseteq Keys /\ \A k \in DOMAIN cold' : cold'[k] \subseteq Rows
    <3>1. Key(f) \in Keys /\ warm[f.name] \subseteq Rows
      BY <1>0, <1>11, <2>1, KeyIs DEF ArchiveToCold
    <3> QED
      BY <1>0, <1>11, <3>1, MapsTyped DEF ArchiveToCold
  <2>4. torn' \subseteq Rows
    <3>1. In(cold, Key(f)) \subseteq Rows
      BY <1>0 DEF In
    <3> QED
      BY <1>0, <1>11, <3>1 DEF ArchiveToCold
  <2> QED
    BY <1>0, <1>11, <2>2, <2>3, <2>4, StepTypeOK DEF ArchiveToCold, lists
<1>12. ASSUME NEW f \in Todo(p), ArchiveFails(p, f) \/ ArchiveMissing(p, f) PROVE TypeOK'
  <2>1. Readd(p, f) /\ troubles' \in 0 .. MaxTroubles
    BY <1>0, <1>12, RetentionAssumption DEF ArchiveFails, ArchiveMissing, Trouble
  <2>2. f \in File
    BY <2>1, TodoTyped DEF Readd, At
  <2>3. PICK q \in Pass : pass' = [pass EXCEPT ![p] = q]
    BY <2>1, RecordsAre DEF Readd, Return, After
  <2> QED
    BY <1>0, <2>1, <2>2, <2>3, StepTypeOK DEF Readd, data, gone
<1>13. ASSUME NEW f \in Todo(p), DeleteCold(p, f) PROVE TypeOK'
  <2>1. pass[p].todo \subseteq File
    BY <1>13, TodoTyped DEF DeleteCold, At
  <2>2. PICK q \in Pass : pass' = [pass EXCEPT ![p] = q]
    BY <1>13, <2>1, TodoIs, NewRecords DEF DeleteCold
  <2>3. DOMAIN cold' \subseteq Keys /\ \A k \in DOMAIN cold' : cold'[k] \subseteq Rows
    BY <1>0, <1>13, MapsTyped DEF DeleteCold
  <2>4. cleaned' \subseteq Rows
    <3>1. In(cold, Key(f)) \subseteq Rows
      BY <1>0 DEF In
    <3> QED
      BY <1>0, <1>13, <3>1 DEF DeleteCold
  <2> QED
    BY <1>0, <1>13, <2>2, <2>3, <2>4, StepTypeOK DEF DeleteCold, lists
<1>14. ASSUME NEW f \in Todo(p), DeleteColdFails(p, f) PROVE TypeOK'
  <2>1. pass[p].todo \subseteq File /\ f \in File
    BY <1>14, TodoTyped DEF DeleteColdFails, At
  <2>2. PICK q \in Pass : pass' = [pass EXCEPT ![p] = q]
    BY <1>14, <2>1, TodoIs, NewRecords DEF DeleteColdFails
  <2>3. troubles' \in 0 .. MaxTroubles
    BY <1>0, <1>14, RetentionAssumption DEF DeleteColdFails, Trouble
  <2> QED
    BY <1>0, <1>14, <2>1, <2>2, <2>3, StepTypeOK DEF DeleteColdFails, data, gone
<1> QED
  BY <1>1, <1>2, <1>3, <1>4, <1>5, <1>6, <1>7, <1>8, <1>9, <1>10, <1>11, <1>12, <1>13,
     <1>14
  DEF Step

LEMMA HelpersTypeOK ==
    ASSUME TypeOK, NEW q \in Helpers,
           Compact(q) \/ HelperStep(q) \/ \E k \in DOMAIN cold : DownloadFromCold(q, k)
    PROVE  TypeOK'
<1>0. /\ helper[q] \in Helper /\ warmFiles \subseteq File /\ coldArchives \subseteq File
      /\ saved \in State /\ troubles \in 0 .. MaxTroubles
      /\ DOMAIN warm \subseteq Nat /\ \A n \in DOMAIN warm : warm[n] \subseteq Rows
  BY StateIs DEF TypeOK
<1>1. CASE Compact(q)
  <2>1. Writing \in Helper
    BY <1>0, StateIs, HelpersAre DEF Writing
  <2> QED
    BY <1>0, <1>1, <2>1, HelperTypeOK DEF Compact, data, lists, gone
<1>2. CASE Compacted(q)
  <2>1. saved' \in State
    BY <1>0, <1>2, HelpersAre DEF Compacted
  <2> QED
    BY <1>0, <1>2, <2>1, HelpersAre, HelperTypeOK DEF Compacted, data, lists, gone
<1>3. ASSUME NEW k \in DOMAIN cold, DownloadFromCold(q, k) PROVE TypeOK'
  <2>1. k.name \in Nat /\ k \in Keys /\ cold[k] \subseteq Rows
    BY DEF TypeOK, Keys
  <2>2. DOMAIN warm' \subseteq Nat /\ \A n \in DOMAIN warm' : warm'[n] \subseteq Rows
    BY <1>0, <1>3, <2>1, MapsTyped DEF DownloadFromCold
  <2>3. [pc |-> "copy", key |-> k, rows |-> cold[k]] \in Helper
    BY <2>1, HelpersAre
  <2>4. troubles' \in 0 .. MaxTroubles
    BY <1>0, <1>3, RetentionAssumption DEF DownloadFromCold, Trouble
  <2> QED
    BY <1>0, <1>3, <2>2, <2>3, <2>4, HelperTypeOK DEF DownloadFromCold, lists, gone
<1>4. CASE Downloaded(q)
  <2>1. PICK k, rows : /\ k = helper[q].key /\ k \in Keys /\ rows \subseteq Rows
                       /\ warm' = IF k.name \in DOMAIN warm THEN Put(warm, k.name, rows) ELSE warm
    <3>1. helper[q].rows \subseteq Rows /\ helper[q].key \in Keys
      BY <1>0, <1>4, HelpersAre DEF Downloaded
    <3> QED
      BY <1>4, <3>1 DEF Downloaded
  <2>2. DOMAIN warm' \subseteq Nat /\ \A n \in DOMAIN warm' : warm'[n] \subseteq Rows
    <3>1. CASE k.name \in DOMAIN warm
      <4>1. k.name \in Nat /\ warm' = Put(warm, k.name, rows)
        BY <1>0, <2>1, <3>1
      <4> QED
        BY <1>0, <2>1, <4>1, MapsTyped
    <3>2. CASE k.name \notin DOMAIN warm
      BY <1>0, <2>1, <3>2
    <3> QED
      BY <3>1, <3>2
  <2>3. [pc |-> "list", key |-> k] \in Helper
    BY <2>1, HelpersAre
  <2> QED
    BY <1>0, <1>4, <2>1, <2>2, <2>3, HelperTypeOK DEF Downloaded, lists, gone
<1>5. CASE DownloadFails(q)
  <2>1. DOMAIN warm' \subseteq Nat /\ \A n \in DOMAIN warm' : warm'[n] \subseteq Rows
    BY <1>0, <1>5, MapsTyped DEF DownloadFails
  <2> QED
    BY <1>0, <1>5, <2>1, HelpersAre, HelperTypeOK DEF DownloadFails, lists, gone
<1>6. CASE ListRestored(q)
  <2>1. warmFiles' \subseteq File /\ coldArchives' \subseteq File
    BY <1>0, <1>6 DEF ListRestored
  <2> QED
    BY <1>0, <1>6, <2>1, HelpersAre, HelperTypeOK DEF ListRestored, data, gone
<1> QED
  BY <1>1, <1>2, <1>3, <1>4, <1>5, <1>6 DEF HelperStep

LEMMA NextTypeOK == TypeOK /\ [Next]_vars => TypeOK'
<1> SUFFICES ASSUME TypeOK, [Next]_vars PROVE TypeOK'
  OBVIOUS
<1>1. CASE Cleanup
  <2>1. Current' = Current
    BY <1>1 DEF Cleanup, Current, lists
  <2>2. hot' \subseteq Rows /\ purged' \subseteq Rows
    BY <1>1 DEF Cleanup, TypeOK
  <2> QED
    BY <1>1, <2>1, <2>2 DEF Cleanup, TypeOK
<1>2. CASE Crash
  <2>1. PICK file \in State :
          saved' = file /\ warmFiles' = file.warm /\ coldArchives' = file.cold
    BY <1>2, StateIs DEF Crash, TypeOK
  <2>2. saved' \in State /\ Current' \in State
    BY <2>1, StateIs, StateIsNext
  <2>3. pass' \in [Passes -> Pass] /\ helper' \in [Helpers -> Helper]
    BY <1>2, RecordsAre, HelpersAre DEF Crash, After
  <2>4. troubles' \in 0 .. MaxTroubles
    BY <1>2, RetentionAssumption DEF Crash, Trouble, TypeOK
  <2> QED
    BY <1>2, <2>2, <2>3, <2>4 DEF Crash, TypeOK, data, gone
<1>3. CASE Tick
  <2>1. now' \in 0 .. MaxTime
    BY <1>3, RetentionAssumption DEF Tick, TypeOK
  <2>2. Current' = Current
    BY <1>3 DEF Tick, Current, lists
  <2> QED
    BY <1>3, <2>1, <2>2 DEF Tick, TypeOK, data, gone
<1>4. ASSUME NEW r \in Rows, Insert(r) PROVE TypeOK'
  <2>1. ts' \in [Rows -> Times]
    <3>1. PICK t \in 0 .. now : ts' = [ts EXCEPT ![r] = t]
      BY <1>4 DEF Insert
    <3>2. t \in Times
      BY RetentionAssumption DEF TypeOK, Times
    <3> QED
      BY <3>1, <3>2 DEF TypeOK
  <2>2. Current' = Current
    BY <1>4 DEF Insert, Current, lists
  <2> QED
    BY <1>4, <2>1, <2>2 DEF Insert, TypeOK, gone
<1>5. CASE UNCHANGED vars
  <2>1. Current' = Current
    BY <1>5 DEF vars, Current, lists
  <2> QED
    BY <1>5, <2>1 DEF vars, TypeOK, data, gone
<1> QED
  BY <1>1, <1>2, <1>3, <1>4, <1>5, StepsTypeOK, HelpersTypeOK DEF Next

\* The tiers, the lists, the states to be written and the records of every
\* TierData, Compact and RestoreFromCold stay well typed; in
\* particular the range of a warm file is one of real times.
THEOREM TypeCorrect == Spec => []TypeOK
BY InitTypeOK, NextTypeOK, PTL DEF Spec

-----------------------------------------------------------------------------
(* Timely.                                                                 *)

LEMMA StepIs ==
    ASSUME TypeOK, NEW p \in Passes, TierData(p) \/ Step(p)
    PROVE  /\ \A r \in Passes : r # p => pass'[r] = pass[r]
           /\ hot' \subseteq hot /\ UNCHANGED <<now, ts>>
           /\ pass'[p].pc \in {"export", "delete"} =>
                 \/ pass'[p].cutoff = now - HotRetention
                 \/ pass[p].pc = "export" /\ pass'[p].cutoff = pass[p].cutoff
<1>1. CASE TierData(p)
  BY <1>1 DEF TierData, TypeOK, data
<1>2. CASE ExportToWarm(p)
  BY <1>2 DEF ExportToWarm, At, TypeOK
<1>3. ASSUME Return(p) PROVE /\ \A r \in Passes : r # p => pass'[r] = pass[r]
                             /\ pass'[p].pc \notin {"export", "delete"}
  BY <1>3, ReturnIs, RecordsAre
<1>0. CASE MarshalState(p)
  BY <1>0 DEF MarshalState, Writing, TypeOK, data
<1>4. CASE ExportFails(p) \/ DeleteFails(p) \/ SaveState(p)
  BY <1>3, <1>4 DEF ExportFails, DeleteFails, SaveState, data
<1>5. CASE DeleteFromHot(p)
  <2>1. /\ \A r \in Passes : r # p => pass'[r] = pass[r]
        /\ pass'[p].pc = "track"
    BY <1>5, GotoIs DEF DeleteFromHot, TypeOK
  <2> QED
    BY <1>5, <2>1 DEF DeleteFromHot
<1>6. CASE TrackWarm(p) \/ TierWarmToCold(p) \/ RemoveWarm(p) \/ CleanExpiredCold(p)
  BY <1>6 DEF TrackWarm, TierWarmToCold, RemoveWarm, CleanExpiredCold, TypeOK, data
<1>7. ASSUME NEW f \in Todo(p), ArchiveToCold(p, f)
      PROVE  /\ \A r \in Passes : r # p => pass'[r] = pass[r]
             /\ pass'[p].pc \notin {"export", "delete"}
  BY <1>7 DEF ArchiveToCold, TypeOK
<1>8. ASSUME NEW f \in Todo(p), DeleteCold(p, f) \/ DeleteColdFails(p, f)
      PROVE  /\ \A r \in Passes : r # p => pass'[r] = pass[r]
             /\ pass'[p].pc \notin {"export", "delete"}
  BY <1>8, TodoIs DEF DeleteCold, DeleteColdFails, TypeOK
<1>9. CASE \E f \in Todo(p) :
              \/ ArchiveToCold(p, f) \/ ArchiveFails(p, f) \/ ArchiveMissing(p, f)
              \/ DeleteCold(p, f) \/ DeleteColdFails(p, f)
  BY <1>3, <1>7, <1>8, <1>9
  DEF ArchiveToCold, ArchiveFails, ArchiveMissing, Readd, DeleteCold, DeleteColdFails, data
<1> QED
  BY <1>0, <1>1, <1>2, <1>4, <1>5, <1>6, <1>9 DEF Step

LEMMA InitTimely == Init => Timely
BY RecordsAre DEF Init, Timely

LEMMA NextTimely == TypeOK /\ Timely /\ [Next]_vars => Timely'
<1> SUFFICES ASSUME TypeOK, Timely, [Next]_vars PROVE Timely'
  OBVIOUS
<1>0. /\ now \in Int /\ HotRetention \in Int
      /\ \A p \in Passes : pass[p].pc \in {"export", "delete"} => pass[p].cutoff \in Int
  BY RetentionAssumption, RecordsAre DEF TypeOK
<1>1. ASSUME NEW p \in Passes, TierData(p) \/ Step(p) PROVE Timely'
  <2>1. \A r \in hot' : ts'[r] # -1
    BY <1>1, StepIs DEF Timely
  <2>2. ASSUME NEW q \in Passes, pass'[q].pc \in {"export", "delete"}
        PROVE  pass'[q].cutoff <= now' - HotRetention
    <3>1. CASE q = p
      BY <1>0, <1>1, <2>2, <3>1, StepIs DEF Timely
    <3>2. CASE q # p
      BY <1>0, <1>1, <2>2, <3>2, StepIs DEF Timely
    <3> QED
      BY <3>1, <3>2
  <2> QED
    BY <2>1, <2>2 DEF Timely
<1>2. CASE \/ UNCHANGED vars
           \/ \E q \in Helpers : \/ Compact(q) \/ HelperStep(q)
                                 \/ \E k \in DOMAIN cold : DownloadFromCold(q, k)
  <2>1. UNCHANGED <<now, ts, hot, pass>>
    BY <1>2
    DEF Compact, HelperStep, Compacted, Downloaded, DownloadFails, ListRestored, vars,
        DownloadFromCold, data
  <2> QED
    BY <2>1 DEF Timely
<1>6. CASE Cleanup
  BY <1>6 DEF Cleanup, Timely
<1>3. CASE Crash
  BY <1>3, RecordsAre DEF Crash, After, Timely, data
<1>4. CASE Tick
  <2>1. now' = now + 1 /\ UNCHANGED <<ts, hot, pass>>
    BY <1>4 DEF Tick, data
  <2> QED
    BY <1>0, <2>1 DEF Timely
<1>5. ASSUME NEW r \in Rows, Insert(r) PROVE Timely'
  <2>1. PICK t \in 0 .. now : ts' = [ts EXCEPT ![r] = t]
    BY <1>5 DEF Insert
  <2>2. hot' = hot \cup {r} /\ UNCHANGED <<now, pass>> /\ t # -1
    BY <1>5, <2>1 DEF Insert
  <2>3. \A q \in hot' : ts'[q] # -1
    BY <2>1, <2>2 DEF Timely, TypeOK
  <2> QED
    BY <2>2, <2>3 DEF Timely
<1> QED
  BY <1>1, <1>2, <1>3, <1>4, <1>5, <1>6 DEF Next

-----------------------------------------------------------------------------
(* IInv: what a step has to show.                                          *)

LEMMA ListsCirculate ==
    /\ \A f \in warmFiles \cup coldArchives \cup saved.warm \cup saved.cold : Circulates(f)
    /\ \A p \in Passes : \A f : Holding(p, f) => Circulates(f)
    /\ \A q \in Helpers : \A f : Writes(q, f) => Circulates(f)
BY DEF Circulates

\* The records of a step come from the lists or from what was held.
LEMMA CirculatesStep ==
    ASSUME \A f : f \in warmFiles' \cup coldArchives' \cup saved'.warm \cup saved'.cold
                    => Circulates(f),
           \A p \in Passes : pass'[p] = pass[p] \/ \A f : Holding(p, f)' => Circulates(f),
           \A q \in Helpers : helper'[q] = helper[q] \/ \A f : Writes(q, f)' => Circulates(f)
    PROVE  \A f : Circulates(f)' => Circulates(f)
<1> SUFFICES ASSUME NEW f, Circulates(f)' PROVE Circulates(f)
  OBVIOUS
<1>1. CASE f \in warmFiles' \cup coldArchives' \cup saved'.warm \cup saved'.cold
  BY <1>1
<1>2. ASSUME NEW p \in Passes, Holding(p, f)' PROVE Circulates(f)
  <2>1. CASE pass'[p] = pass[p]
    BY <1>2, <2>1 DEF Holding, Circulates
  <2> QED
    BY <1>2, <2>1
<1>3. ASSUME NEW q \in Helpers, Writes(q, f)' PROVE Circulates(f)
  <2>1. CASE helper'[q] = helper[q]
    BY <1>3, <2>1 DEF Writes, Circulates
  <2> QED
    BY <1>3, <2>1
<1> QED
  BY <1>1, <1>2, <1>3 DEF Circulates

\* What a step does to the files, the objects and those who work on them.
WarmMoves(rec, rows) ==
    /\ \A n \in DOMAIN warm' : n \in 1 .. files /\ warm'[n] \subseteq rows[n]
    /\ \A n \in DOMAIN warm :
          \/ n \in DOMAIN warm' /\ warm'[n] = warm[n]
          \/ /\ Backed(rows, n)
             /\ \/ n \in DOMAIN warm' \/ Key(rec[n]) \in DOMAIN cold
                \/ Expired(rec[n].end)

ColdMoves(rec, rows) ==
    /\ \A k \in DOMAIN cold : k \in DOMAIN cold' \/ Expired(rec[k.name].end)
    /\ \A k \in DOMAIN cold' :
          \/ k \in DOMAIN cold /\ cold'[k] = cold[k]
          \/ /\ k.name \in 1 .. files /\ k = Key(rec[k.name])
             /\ cold'[k] \subseteq rows[k.name] /\ Backed(rows, k.name)'

PassMoves(rows, p) ==
    \/ pass'[p] = pass[p]
    \/ /\ pass'[p].pc \notin {"delete", "remove"}
       /\ pass'[p].pc = "clean" => \A f \in pass'[p].todo : Expired(f.end)
    \/ \E f \in File : /\ pass'[p].pc = "remove" /\ pass'[p].file = f
                       /\ Backed(rows, f.name)' /\ Key(f) \in DOMAIN cold'

HelperMoves(rec, rows, q) ==
    \/ helper'[q] = helper[q]
    \/ helper'[q].pc # "copy"
    \/ \E k \in Keys : /\ helper'[q].key = k /\ Restores(rec, rows, k)
                       /\ helper'[q].rows \subseteq rows[k.name]

CleanedMoves ==
    \A r \in cleaned' :
       \/ r \in cleaned
       \/ r \in Rows /\ ts[r] # -1 /\ (r \in Parsed => Expired(ts[r]))

LEMMA NothingMoves ==
    ASSUME NEW rec, NEW rows, Kept(rec, rows)
    PROVE  /\ UNCHANGED warm => WarmMoves(rec, rows)
           /\ UNCHANGED cold => ColdMoves(rec, rows)
           /\ UNCHANGED cleaned => CleanedMoves
           /\ \A p : pass'[p] = pass[p] => PassMoves(rows, p)
           /\ \A q : helper'[q] = helper[q] => HelperMoves(rec, rows, q)
<1>1. UNCHANGED warm => WarmMoves(rec, rows)
  BY DEF Kept, WarmOK, WarmMoves
<1>2. UNCHANGED cold => ColdMoves(rec, rows)
  BY DEF ColdMoves
<1>3. UNCHANGED cleaned => CleanedMoves
  BY DEF CleanedMoves
<1>4. /\ \A p : pass'[p] = pass[p] => PassMoves(rows, p)
      /\ \A q : helper'[q] = helper[q] => HelperMoves(rec, rows, q)
  BY DEF PassMoves, HelperMoves
<1> QED
  BY <1>1, <1>2, <1>3, <1>4

\* Every step but an export and an insert: the row that leaves a tier is in
\* another or lost in one of the ways RowKept names.
LEMMA MoveStep ==
    ASSUME TypeOK, NEW rec \in [Nat -> File], NEW rows \in [Nat -> SUBSET Rows],
           Kept(rec, rows), UNCHANGED <<ts, files>>, hot' \subseteq hot,
           \A t \in Int : Expired(t) => Expired(t)',
           \A f : Circulates(f)' => Circulates(f),
           \A r : Archived(r) => Archived(r)',
           WarmMoves(rec, rows), ColdMoves(rec, rows),
           \A p \in Passes : PassMoves(rows, p),
           \A q \in Helpers : HelperMoves(rec, rows, q),
           CleanedMoves,
           Orderly => \A r \in hot \ hot' : Elsewhere(r)' \/ Archived(r)'
    PROVE  Kept(rec, rows)'
<1>0. /\ Listed(rec) /\ WarmOK(rows) /\ ColdOK(rec, rows) /\ Whole(rows)
      /\ Removing(rows) /\ Cleaning /\ Copying(rec, rows)
      /\ Ranges(rec, rows) /\ CleanedOld
      /\ Orderly => Covered(rows) /\ RowKept
  BY DEF Kept
<1>1. \A n : Backed(rows, n) => Backed(rows, n)'
  BY DEF Backed
<1>2. /\ \A f \in File : f.end \in Int /\ f.name \in Nat /\ Key(f).name = f.name
      /\ \A n \in 1 .. files : n \in Nat /\ rec[n] \in File
      /\ \A r \in Rows : ts[r] \in Int
  BY RetentionAssumption DEF TypeOK, Times, File, Key
<1>3. \A k \in DOMAIN cold : k.name \in 1 .. files /\ k = Key(rec[k.name])
  BY <1>0 DEF ColdOK
<1>4. \A f \in File : Key(f) \in DOMAIN cold /\ f = rec[f.name] =>
         Key(f) \in DOMAIN cold' \/ Expired(f.end)'
  BY <1>2 DEF ColdMoves
<1>5. Listed(rec)'
  <2>1. ASSUME NEW f \in File, Circulates(f) PROVE Exists(f)'
    <3>1. f.name \in 1 .. files /\ f = rec[f.name] /\ Exists(f)
      BY <1>0, <2>1 DEF Listed
    <3>2. CASE f.name \in DOMAIN warm
      BY <1>2, <1>4, <3>1, <3>2 DEF Exists, WarmMoves
    <3>3. CASE f.name \notin DOMAIN warm
      BY <1>2, <1>4, <3>1, <3>3 DEF Exists, WarmMoves
    <3> QED
      BY <3>2, <3>3
  <2> QED
    BY <1>0, <2>1 DEF Listed
<1>6. WarmOK(rows)'
  BY DEF WarmOK, WarmMoves
<1>7. ColdOK(rec, rows)'
  BY <1>0, <1>1 DEF ColdOK, ColdMoves
<1>8. Whole(rows)'
  BY <1>0, <1>1 DEF Whole, WarmMoves
<1>9. Removing(rows)'
  <2> SUFFICES ASSUME NEW p \in Passes, NEW f \in File,
                      pass'[p].pc = "remove", f = pass'[p].file
               PROVE  Backed(rows, f.name)' /\ (Key(f) \in DOMAIN cold' \/ Expired(f.end)')
    BY DEF Removing
  <2>1. CASE pass'[p] = pass[p]
    <3>1. Backed(rows, f.name) /\ (Key(f) \in DOMAIN cold \/ Expired(f.end))
      BY <1>0, <2>1 DEF Removing
    <3>2. Circulates(f)
      BY <2>1, ListsCirculate DEF Holding
    <3>3. f = rec[f.name]
      BY <1>0, <3>2 DEF Listed
    <3> QED
      BY <1>1, <1>2, <1>4, <3>1, <3>3
  <2>2. CASE pass'[p] # pass[p]
    BY <2>2 DEF PassMoves
  <2> QED
    BY <2>1, <2>2
<1>10. Cleaning'
  <2> SUFFICES ASSUME NEW p \in Passes, NEW f \in File,
                      pass'[p].pc = "clean", f \in pass'[p].todo
               PROVE  Expired(f.end)'
    BY DEF Cleaning
  <2>1. Expired(f.end)
    BY <1>0 DEF Cleaning, PassMoves
  <2> QED
    BY <1>2, <2>1
<1>11. Copying(rec, rows)'
  <2> SUFFICES ASSUME NEW q \in Helpers, NEW k \in Keys,
                      helper'[q].pc = "copy", k = helper'[q].key
               PROVE  Restores(rec, rows, k)' /\ helper'[q].rows \subseteq rows[k.name]
    BY DEF Copying
  <2>1. Restores(rec, rows, k) /\ helper'[q].rows \subseteq rows[k.name]
    BY <1>0 DEF Copying, HelperMoves
  <2> QED
    BY <1>1, <1>2, <2>1 DEF Restores, ColdMoves
<1>12. Ranges(rec, rows)'
  BY <1>0 DEF Ranges
<1>13. CleanedOld'
  <2>1. cleaned \subseteq Rows
    BY DEF TypeOK
  <2> QED
    BY <1>0, <1>2, <2>1 DEF CleanedOld, CleanedMoves
<1>14. ASSUME Orderly PROVE Covered(rows)'
  <2>1. \A c : Old(c)' \subseteq Old(c)
    BY DEF Old
  <2> SUFFICES ASSUME NEW p \in Passes, NEW c \in Int, NEW f \in File,
                      pass'[p].pc = "delete", c = pass'[p].cutoff, f = pass'[p].file
               PROVE  Old(c)' \ pass'[p].missed \subseteq rows[f.name]
    BY DEF Covered
  <2>2. Old(c) \ pass'[p].missed \subseteq rows[f.name]
    BY <1>0, <1>14 DEF Covered, PassMoves
  <2> QED
    BY <2>1, <2>2
<1>15. ASSUME Orderly PROVE RowKept'
  <2> SUFFICES ASSUME NEW r \in Rows, ts[r] # -1
               PROVE  r \in hot' \/ Elsewhere(r)' \/ Archived(r)'
    BY <1>13 DEF RowKept, Somewhere, Elsewhere, Archived, CleanedOld
  <2>1. r \in hot \/ Elsewhere(r) \/ Archived(r)
    BY <1>0, <1>15 DEF RowKept, Somewhere, Archived
  <2>2. CASE r \in hot
    BY <1>15, <2>2
  <2>3. ASSUME NEW n \in DOMAIN warm, r \in warm[n] PROVE Elsewhere(r)' \/ Archived(r)'
    <3>1. r \in rows[n]
      BY <1>0, <2>3 DEF WarmOK
    <3> QED
      BY <1>1, <2>3, <3>1 DEF Elsewhere, Backed, WarmMoves
  <2>4. ASSUME NEW k \in DOMAIN cold, r \in cold[k] PROVE Archived(r)
    BY <2>4 DEF Archived
  <2> QED
    BY <2>1, <2>2, <2>3, <2>4 DEF Elsewhere
<1> QED
  BY <1>5, <1>6, <1>7, <1>8, <1>9, <1>10, <1>11, <1>12, <1>13, <1>14, <1>15 DEF Kept, Orderly

-----------------------------------------------------------------------------
(* IInv: the steps that move no file and no row.                           *)

quiet == <<now, ts, hot, warm, cold, skipped, purged, cleaned, torn, files>>

LEMMA QuietStep ==
    ASSUME TypeOK, NEW rec \in [Nat -> File], NEW rows \in [Nat -> SUBSET Rows],
           Kept(rec, rows), UNCHANGED quiet,
           \A f : Circulates(f)' => Circulates(f),
           \A p \in Passes :
              \/ pass'[p] = pass[p]
              \/ /\ pass'[p].pc \notin {"delete", "remove"}
                 /\ pass'[p].pc = "clean" => \A f \in pass'[p].todo : Expired(f.end),
           \A q \in Helpers : helper'[q] = helper[q] \/ helper'[q].pc # "copy"
    PROVE  Kept(rec, rows)'
<1>0. UNCHANGED <<now, ts, hot, warm, cold, skipped, purged, cleaned, torn, files>>
  BY DEF quiet
<1>1. \A t : Expired(t) => Expired(t)'
  BY <1>0 DEF Expired
<1>2. \A r : Archived(r) => Archived(r)'
  BY <1>0 DEF Archived
<1>3. WarmMoves(rec, rows) /\ ColdMoves(rec, rows) /\ CleanedMoves
  BY <1>0, NothingMoves
<1>4. \A p \in Passes : PassMoves(rows, p)
  BY DEF PassMoves
<1>5. \A q \in Helpers : HelperMoves(rec, rows, q)
  BY DEF HelperMoves
<1> QED
  BY <1>0, <1>1, <1>2, <1>3, <1>4, <1>5, MoveStep

LEMMA QuietSteps ==
    ASSUME TypeOK, NEW rec \in [Nat -> File], NEW rows \in [Nat -> SUBSET Rows],
           Kept(rec, rows), NEW p \in Passes,
           \/ TierData(p) \/ ExportFails(p) \/ DeleteFails(p) \/ TrackWarm(p)
           \/ TierWarmToCold(p) \/ CleanExpiredCold(p) \/ MarshalState(p) \/ SaveState(p)
           \/ \E f \in Todo(p) :
                 ArchiveFails(p, f) \/ ArchiveMissing(p, f) \/ DeleteColdFails(p, f)
    PROVE  Kept(rec, rows)'
<1>0. \A r \in Passes : r # p => pass'[r] = pass[r]
  BY StepIs DEF Step
<1>a. UNCHANGED quiet /\ UNCHANGED helper
  BY DEF TierData, ExportFails, DeleteFails, TrackWarm, TierWarmToCold, CleanExpiredCold,
         MarshalState, SaveState, ArchiveFails, ArchiveMissing, Readd, DeleteColdFails,
         quiet, data, gone
<1>1. CASE TierData(p)
  <2>1. /\ UNCHANGED <<warmFiles, coldArchives, saved>>
        /\ pass'[p].pc \in {"warm", "export"}
    BY <1>1 DEF TierData, lists, TypeOK
  <2>2. \A f : Circulates(f)' => Circulates(f)
    BY <1>0, <1>a, <2>1, ListsCirculate, CirculatesStep DEF Holding
  <2> QED
    BY <1>0, <1>a, <2>1, <2>2, QuietStep
<1>2. CASE ExportFails(p) \/ DeleteFails(p)
  <2>1. /\ UNCHANGED <<warmFiles, coldArchives, saved>>
        /\ pass'[p].pc \in {"idle", "done"}
    BY <1>2, ReturnIs, RecordsAre DEF ExportFails, DeleteFails, lists
  <2>2. \A f : Circulates(f)' => Circulates(f)
    BY <1>0, <1>a, <2>1, ListsCirculate, CirculatesStep DEF Holding
  <2> QED
    BY <1>0, <1>a, <2>1, <2>2, QuietStep
<1>3. CASE TrackWarm(p)
  <2>1. /\ UNCHANGED <<coldArchives, saved>>
        /\ pass'[p].pc = "warm" /\ warmFiles' = warmFiles \cup {pass[p].file}
    BY <1>3 DEF TrackWarm, TypeOK
  <2>2. Circulates(pass[p].file)
    BY <1>3, ListsCirculate DEF TrackWarm, At, Holding
  <2>3. \A f : Circulates(f)' => Circulates(f)
    BY <1>0, <1>a, <2>1, <2>2, ListsCirculate, CirculatesStep DEF Holding
  <2> QED
    BY <1>0, <1>a, <2>1, <2>3, QuietStep
<1>4. CASE TierWarmToCold(p)
  <2>1. /\ UNCHANGED <<coldArchives, saved>>
        /\ pass'[p].pc = "archive" /\ pass'[p].todo \subseteq warmFiles
        /\ warmFiles' \subseteq warmFiles
    BY <1>4 DEF TierWarmToCold, Before, TypeOK
  <2>2. \A f : Circulates(f)' => Circulates(f)
    BY <1>0, <1>a, <2>1, ListsCirculate, CirculatesStep DEF Holding
  <2> QED
    BY <1>0, <1>a, <2>1, <2>2, QuietStep
<1>5. CASE CleanExpiredCold(p)
  <2>1. /\ UNCHANGED <<warmFiles, saved>>
        /\ pass'[p].pc = "clean" /\ pass'[p].todo \subseteq coldArchives
        /\ \A f \in pass'[p].todo : Expired(f.end)
        /\ coldArchives' \subseteq coldArchives
    BY <1>5 DEF CleanExpiredCold, Before, Expired, TypeOK
  <2>2. \A f : Circulates(f)' => Circulates(f)
    BY <1>0, <1>a, <2>1, ListsCirculate, CirculatesStep DEF Holding
  <2> QED
    BY <1>0, <1>a, <2>1, <2>2, QuietStep
<1>6. CASE MarshalState(p)
  <2>1. /\ UNCHANGED <<warmFiles, coldArchives, saved>> /\ pass'[p].pc = "write"
        /\ pass'[p].state.warm = warmFiles /\ pass'[p].state.cold = coldArchives
    BY <1>6 DEF MarshalState, Writing, Current, lists, TypeOK
  <2>2. \A f : Circulates(f)' => Circulates(f)
    BY <1>0, <1>a, <2>1, ListsCirculate, CirculatesStep DEF Holding
  <2> QED
    BY <1>0, <1>a, <2>1, <2>2, QuietStep
<1>7. CASE SaveState(p)
  <2>1. /\ UNCHANGED <<warmFiles, coldArchives>>
        /\ pass'[p].pc \in {"idle", "done"}
        /\ pass[p].pc = "write" /\ saved' = pass[p].state
    BY <1>7, ReturnIs, RecordsAre DEF SaveState, At, lists
  <2>2. \A f \in saved'.warm \cup saved'.cold : Circulates(f)
    BY <2>1, ListsCirculate DEF Holding
  <2>3. \A f : Circulates(f)' => Circulates(f)
    BY <1>0, <1>a, <2>1, <2>2, ListsCirculate, CirculatesStep DEF Holding
  <2> QED
    BY <1>0, <1>a, <2>1, <2>3, QuietStep
<1>8. ASSUME NEW f \in Todo(p), ArchiveFails(p, f) \/ ArchiveMissing(p, f)
      PROVE  Kept(rec, rows)'
  <2>1. /\ UNCHANGED <<coldArchives, saved>>
        /\ pass'[p].pc \in {"idle", "done"} /\ warmFiles' = warmFiles \cup {f}
        /\ pass[p].pc = "archive" /\ f \in pass[p].todo
    BY <1>8, ReturnIs, RecordsAre DEF ArchiveFails, ArchiveMissing, Readd, At
  <2>2. Circulates(f)
    BY <2>1, ListsCirculate DEF Holding
  <2>3. \A g : Circulates(g)' => Circulates(g)
    BY <1>0, <1>a, <2>1, <2>2, ListsCirculate, CirculatesStep DEF Holding
  <2> QED
    BY <1>0, <1>a, <2>1, <2>3, QuietStep
<1>9. ASSUME NEW f \in Todo(p), DeleteColdFails(p, f) PROVE Kept(rec, rows)'
  <2>1. /\ UNCHANGED <<warmFiles, saved>>
        /\ pass'[p].pc = "clean" /\ pass'[p].todo \subseteq pass[p].todo
        /\ coldArchives' = coldArchives \cup {f}
        /\ pass[p].pc = "clean" /\ f \in pass[p].todo
    BY <1>9, TodoIs DEF DeleteColdFails, At, TypeOK
  <2>2. pass[p].todo \subseteq File
    BY <2>1, TodoTyped
  <2>3. \A g \in pass[p].todo : Circulates(g) /\ Expired(g.end)
    BY <2>1, <2>2, ListsCirculate DEF Holding, Kept, Cleaning
  <2>4. \A g : Circulates(g)' => Circulates(g)
    BY <1>0, <1>a, <2>1, <2>3, ListsCirculate, CirculatesStep DEF Holding
  <2> QED
    BY <1>0, <1>a, <2>1, <2>3, <2>4, QuietStep
<1> QED
  BY <1>1, <1>2, <1>3, <1>4, <1>5, <1>6, <1>7, <1>8, <1>9

\* Compact, the end of RestoreFromCold, a crash and a stuttering step.
LEMMA ListsKept ==
    ASSUME TypeOK, NEW rec \in [Nat -> File], NEW rows \in [Nat -> SUBSET Rows],
           Kept(rec, rows),
           \/ Crash \/ UNCHANGED vars
           \/ \E q \in Helpers : Compact(q) \/ Compacted(q) \/ ListRestored(q)
    PROVE  Kept(rec, rows)'
<1>a. UNCHANGED quiet
  BY DEF Compact, Compacted, ListRestored, Crash, vars, quiet, data, gone
<1>1. ASSUME NEW q \in Helpers, Compact(q) PROVE Kept(rec, rows)'
  <2>1. /\ UNCHANGED <<warmFiles, coldArchives, saved, pass>> /\ helper'[q].pc = "write"
        /\ helper'[q].state.warm = warmFiles /\ helper'[q].state.cold = coldArchives
        /\ \A h \in Helpers : h # q => helper'[h] = helper[h]
    BY <1>1 DEF Compact, Writing, Current, lists, TypeOK
  <2>2. \A f : Circulates(f)' => Circulates(f)
    BY <2>1, ListsCirculate, CirculatesStep DEF Writes
  <2> QED
    BY <1>a, <2>1, <2>2, QuietStep
<1>2. ASSUME NEW q \in Helpers, Compacted(q) PROVE Kept(rec, rows)'
  <2>1. /\ UNCHANGED <<warmFiles, coldArchives, pass>> /\ helper'[q].pc = "idle"
        /\ helper[q].pc = "write" /\ saved' = helper[q].state
        /\ \A h \in Helpers : h # q => helper'[h] = helper[h]
    BY <1>2, RecordsAre DEF Compacted, lists, TypeOK
  <2>2. \A f \in saved'.warm \cup saved'.cold : Circulates(f)
    BY <2>1, ListsCirculate DEF Writes
  <2>3. \A f : Circulates(f)' => Circulates(f)
    BY <2>1, <2>2, ListsCirculate, CirculatesStep DEF Writes
  <2> QED
    BY <1>a, <2>1, <2>3, QuietStep
<1>3. ASSUME NEW q \in Helpers, ListRestored(q) PROVE Kept(rec, rows)'
  <2>1. /\ UNCHANGED <<saved, pass>> /\ helper'[q].pc = "save"
        /\ warmFiles' \cup coldArchives' \subseteq warmFiles \cup coldArchives
        /\ \A h \in Helpers : h # q => helper'[h] = helper[h]
    BY <1>3 DEF ListRestored, TypeOK
  <2>2. \A f : Circulates(f)' => Circulates(f)
    BY <2>1, ListsCirculate, CirculatesStep DEF Writes
  <2> QED
    BY <1>a, <2>1, <2>2, QuietStep
<1>4. CASE Crash
  <2>1. /\ \A p \in Passes : pass'[p].pc \in {"idle", "done"}
        /\ \A q \in Helpers : helper'[q].pc = "idle"
    BY <1>4, RecordsAre DEF Crash, After
  <2>2. warmFiles' \cup coldArchives' \cup saved'.warm \cup saved'.cold
          \subseteq saved.warm \cup saved.cold
    <3>1. PICK file \in {saved, Fresh} :
            saved' = file /\ warmFiles' = file.warm /\ coldArchives' = file.cold
      BY <1>4 DEF Crash
    <3>2. Fresh.warm = {} /\ Fresh.cold = {}
      BY DEF Fresh
    <3> QED
      BY <3>1, <3>2
  <2>3. \A f : Circulates(f)' => Circulates(f)
    BY <2>1, <2>2, ListsCirculate, CirculatesStep DEF Holding, Writes
  <2> QED
    BY <1>a, <2>1, <2>3, QuietStep
<1>5. CASE UNCHANGED vars
  <2>1. UNCHANGED <<warmFiles, coldArchives, saved, pass, helper>>
    BY <1>5 DEF vars, lists
  <2>2. \A f : Circulates(f)' => Circulates(f)
    BY <2>1, ListsCirculate, CirculatesStep
  <2> QED
    BY <1>a, <2>1, <2>2, QuietStep
<1> QED
  BY <1>1, <1>2, <1>3, <1>4, <1>5

\* Time passes.
LEMMA TickKept ==
    ASSUME TypeOK, NEW rec \in [Nat -> File], NEW rows \in [Nat -> SUBSET Rows],
           Kept(rec, rows), Tick
    PROVE  Kept(rec, rows)'
<1>1. /\ now' = now + 1
      /\ UNCHANGED <<ts, hot, warm, cold, warmFiles, coldArchives, saved, pass, helper, files>>
      /\ UNCHANGED <<skipped, purged, cleaned, torn>>
  BY DEF Tick, data, lists, gone
<1>2. \A t \in Int : Expired(t) => Expired(t)'
  BY <1>1, RetentionAssumption DEF TypeOK, Expired
<1>3. \A f : Circulates(f)' => Circulates(f)
  BY <1>1, ListsCirculate, CirculatesStep
<1>4. \A r : Archived(r) => Archived(r)'
  BY <1>1 DEF Archived
<1>5. WarmMoves(rec, rows) /\ ColdMoves(rec, rows) /\ CleanedMoves
  BY <1>1, NothingMoves
<1>6. /\ \A p \in Passes : PassMoves(rows, p)
      /\ \A q \in Helpers : HelperMoves(rec, rows, q)
  BY <1>1, NothingMoves
<1> QED
  BY <1>1, <1>2, <1>3, <1>4, <1>5, <1>6, MoveStep

-----------------------------------------------------------------------------
(* IInv: the steps that move rows.                                         *)

\* TierData deletes what it has exported.
LEMMA DeleteFromHotKept ==
    ASSUME TypeOK, NEW rec \in [Nat -> File], NEW rows \in [Nat -> SUBSET Rows],
           Kept(rec, rows), NEW p \in Passes, DeleteFromHot(p)
    PROVE  Kept(rec, rows)'
<1>0. PICK cutoff \in Int, file \in File, missed \in SUBSET Rows :
        /\ pass[p].pc = "delete"
        /\ pass[p].cutoff = cutoff /\ pass[p].file = file /\ pass[p].missed = missed
        /\ pass'[p].pc = "track" /\ pass'[p].file = file
        /\ \A r \in Passes : r # p => pass'[r] = pass[r]
  <2>1. pass[p] \in Pass /\ pass[p].pc = "delete"
    BY DEF DeleteFromHot, At, TypeOK
  <2>2. pass' = [pass EXCEPT ![p] = [pc |-> "track", cutoff |-> pass[p].cutoff,
                                     file |-> pass[p].file, missed |-> pass[p].missed]]
    BY GotoIs DEF DeleteFromHot
  <2>3. /\ pass[p].cutoff \in Int /\ pass[p].file \in File
        /\ pass[p].missed \in SUBSET Rows
    BY <2>1, RecordsAre
  <2> QED
    BY <2>1, <2>2, <2>3 DEF TypeOK
<1>1. /\ UNCHANGED <<now, ts, warm, cold, files, warmFiles, coldArchives, saved, helper>>
      /\ UNCHANGED <<purged, cleaned, torn>>
      /\ hot' = hot \ Old(cutoff) /\ skipped' = skipped \cup missed
  BY <1>0 DEF DeleteFromHot, lists
<1>2. \A f : Circulates(f)' => Circulates(f)
  BY <1>0, <1>1, ListsCirculate, CirculatesStep DEF Holding
<1>3. \A r : Archived(r) => Archived(r)'
  BY <1>1 DEF Archived
<1>4. ASSUME Orderly, NEW r \in hot \ hot' PROVE Elsewhere(r)' \/ Archived(r)'
  <2>1. CASE r \in missed
    BY <1>1, <2>1 DEF Archived
  <2>2. CASE r \notin missed
    <3>1. Covered(rows)
      BY <1>4 DEF Kept
    <3>2. r \in rows[file.name]
      BY <1>0, <1>1, <1>4, <2>2, <3>1 DEF Covered
    <3>3. Circulates(file)
      BY <1>0, ListsCirculate DEF Holding
    <3>4. file.name \in 1 .. files
      BY <3>3 DEF Kept, Listed
    <3>5. CASE file.name \in DOMAIN warm /\ warm[file.name] = rows[file.name]
      BY <1>1, <3>2, <3>5 DEF Elsewhere
    <3>6. CASE Backed(rows, file.name)
      BY <1>3, <3>2, <3>6 DEF Backed
    <3> QED
      BY <3>4, <3>5, <3>6 DEF Kept, Whole
  <2> QED
    BY <2>1, <2>2
<1>5. \A q \in Passes : PassMoves(rows, q)
  BY <1>0 DEF PassMoves
<1>6. \A t \in Int : Expired(t) => Expired(t)'
  BY <1>1 DEF Expired
<1>7. hot' \subseteq hot
  BY <1>1
<1> QED
  BY <1>1, <1>2, <1>3, <1>4, <1>5, <1>6, <1>7, NothingMoves, MoveStep

\* Store.cleanup.
LEMMA CleanupKept ==
    ASSUME TypeOK, NEW rec \in [Nat -> File], NEW rows \in [Nat -> SUBSET Rows],
           Kept(rec, rows), Cleanup
    PROVE  Kept(rec, rows)'
<1>1. /\ UNCHANGED <<now, ts, warm, cold, files, warmFiles, coldArchives, saved, pass, helper>>
      /\ UNCHANGED <<skipped, cleaned, torn>> /\ hot' \subseteq hot
      /\ purged' = purged \cup {r \in hot \ hot' : ~Elsewhere(r)}
  BY DEF Cleanup, lists
<1>2. \A f : Circulates(f)' => Circulates(f)
  BY <1>1, ListsCirculate, CirculatesStep
<1>3. \A r : Archived(r) => Archived(r)'
  BY <1>1 DEF Archived
<1>4. \A r \in hot \ hot' : Elsewhere(r)' \/ Archived(r)'
  BY <1>1 DEF Elsewhere, Archived
<1>5. \A t \in Int : Expired(t) => Expired(t)'
  BY <1>1 DEF Expired
<1> QED
  BY <1>1, <1>2, <1>3, <1>4, <1>5, NothingMoves, MoveStep

\* What a step needs of the file it works on.
LEMMA OneRecord ==
    ASSUME TypeOK, NEW rec \in [Nat -> File], NEW rows \in [Nat -> SUBSET Rows],
           Kept(rec, rows), NEW f \in File, Circulates(f)
    PROVE  /\ f.name \in 1 .. files /\ f = rec[f.name]
           /\ Expired(f.end) =>
                 \A r \in rows[f.name] :
                    r \in Rows /\ ts[r] # -1 /\ (r \in Parsed => Expired(ts[r]))
<1>1. f.name \in 1 .. files /\ f = rec[f.name]
  BY DEF Kept, Listed
<1>2. ASSUME Expired(f.end), NEW r \in rows[f.name]
      PROVE  r \in Rows /\ ts[r] # -1 /\ (r \in Parsed => Expired(ts[r]))
  <2>1. r \in Rows
    BY <1>1, <1>2, KeyIs
  <2>2. ts[r] # -1 /\ (r \in Parsed => ts[r] <= f.end)
    BY <1>1, <1>2 DEF Kept, Ranges
  <2>3. ts[r] \in Int /\ f.end \in Int /\ now \in Int /\ ColdRetention \in Int
    BY <2>1, RetentionAssumption DEF TypeOK, Times, File
  <2> QED
    BY <1>2, <2>1, <2>2, <2>3 DEF Expired
<1> QED
  BY <1>1, <1>2

\* A file is archived, over the object it may have had.
LEMMA ArchiveToColdKept ==
    ASSUME TypeOK, NEW rec \in [Nat -> File], NEW rows \in [Nat -> SUBSET Rows],
           Kept(rec, rows), NEW p \in Passes, NEW f, ArchiveToCold(p, f)
    PROVE  Kept(rec, rows)'
<1>1. /\ pass[p].pc = "archive" /\ f \in pass[p].todo /\ f.name \in DOMAIN warm
      /\ cold' = Put(cold, Key(f), warm[f.name])
      /\ torn' = torn \cup (In(cold, Key(f)) \ warm[f.name])
      /\ UNCHANGED <<now, ts, hot, files, warm, warmFiles, coldArchives, saved, helper>>
      /\ UNCHANGED <<skipped, purged, cleaned>>
  BY DEF ArchiveToCold, At, lists
<1>2. f \in File
  BY <1>1, TodoTyped
<1>3. /\ pass'[p].pc = "remove" /\ pass'[p].file = f /\ pass'[p].todo \subseteq pass[p].todo
      /\ \A r \in Passes : r # p => pass'[r] = pass[r]
  BY DEF ArchiveToCold, TypeOK
<1>4. Circulates(f) /\ \A g \in pass[p].todo : Circulates(g)
  BY <1>1, ListsCirculate DEF Holding
<1>5. \A g : Circulates(g)' => Circulates(g)
  BY <1>1, <1>3, <1>4, ListsCirculate, CirculatesStep DEF Holding
<1>6. /\ DOMAIN cold' = DOMAIN cold \cup {Key(f)} /\ cold'[Key(f)] = warm[f.name]
      /\ \A k \in DOMAIN cold : k # Key(f) => cold'[k] = cold[k]
  BY <1>1 DEF Put
<1>7. f.name \in 1 .. files /\ f = rec[f.name]
  BY <1>2, <1>4, OneRecord
<1>8. ASSUME NEW r, Archived(r) PROVE Archived(r)'
  <2>1. ASSUME NEW k \in DOMAIN cold, r \in cold[k] PROVE Archived(r)'
    <3>1. CASE k = Key(f)
      <4>1. r \in In(cold, Key(f))
        BY <2>1, <3>1 DEF In
      <4> QED
        BY <1>1, <1>6, <4>1 DEF Archived
    <3>2. CASE k # Key(f)
      BY <1>6, <2>1, <3>2 DEF Archived
    <3> QED
      BY <3>1, <3>2
  <2> QED
    BY <1>1, <1>8, <2>1 DEF Archived
<1>9. Backed(rows, f.name)'
  <2>1. CASE warm[f.name] = rows[f.name]
    BY <1>6, <2>1 DEF Backed, Archived
  <2>2. CASE Backed(rows, f.name)
    BY <1>8, <2>2 DEF Backed
  <2> QED
    BY <1>7, <2>1, <2>2 DEF Kept, Whole
<1>10. ColdMoves(rec, rows)
  <2>1. warm[f.name] \subseteq rows[f.name] /\ Key(f).name = f.name
    BY <1>1, <1>2, KeyIs DEF Kept, WarmOK
  <2> QED
    BY <1>6, <1>7, <1>9, <2>1 DEF ColdMoves
<1>11. \A q \in Passes : PassMoves(rows, q)
  <2>1. Key(f) \in DOMAIN cold'
    BY <1>6
  <2> QED
    BY <1>2, <1>3, <1>9, <2>1 DEF PassMoves
<1>12. \A t \in Int : Expired(t) => Expired(t)'
  BY <1>1 DEF Expired
<1> QED
  BY <1>1, <1>5, <1>8, <1>10, <1>11, <1>12, NothingMoves, MoveStep

\* The warm file of an archive is removed.
LEMMA RemoveWarmKept ==
    ASSUME TypeOK, NEW rec \in [Nat -> File], NEW rows \in [Nat -> SUBSET Rows],
           Kept(rec, rows), NEW p \in Passes, RemoveWarm(p)
    PROVE  Kept(rec, rows)'
<1>1. PICK f \in File : pass[p].file = f /\ pass[p].pc = "remove"
  <2>1. pass[p] \in Pass /\ pass[p].pc = "remove"
    BY DEF RemoveWarm, At, TypeOK
  <2> QED
    BY <2>1, RecordsAre
<1>2. /\ warm' = Without(warm, f.name) /\ coldArchives' = coldArchives \cup {f}
      /\ UNCHANGED <<now, ts, hot, files, cold, warmFiles, saved, helper>>
      /\ UNCHANGED <<skipped, purged, cleaned, torn>>
  BY <1>1 DEF RemoveWarm, gone
<1>3. /\ pass'[p].pc = "archive" /\ pass'[p].todo = pass[p].todo
      /\ \A r \in Passes : r # p => pass'[r] = pass[r]
  BY DEF RemoveWarm, TypeOK
<1>4. Circulates(f) /\ \A g \in pass[p].todo : Circulates(g)
  BY <1>1, ListsCirculate DEF Holding
<1>5. \A g : Circulates(g)' => Circulates(g)
  BY <1>2, <1>3, <1>4, ListsCirculate, CirculatesStep DEF Holding
<1>6. Backed(rows, f.name) /\ (Key(f) \in DOMAIN cold \/ Expired(f.end)) /\ f = rec[f.name]
  BY <1>1, <1>4, OneRecord DEF Kept, Removing
<1>7. /\ DOMAIN warm' = DOMAIN warm \ {f.name}
      /\ \A n \in DOMAIN warm' : warm'[n] = warm[n]
  BY <1>2 DEF Without
<1>8. WarmMoves(rec, rows)
  BY <1>6, <1>7 DEF WarmMoves, Kept, WarmOK
<1>9. \A r : Archived(r) => Archived(r)'
  BY <1>2 DEF Archived
<1>10. \A q \in Passes : PassMoves(rows, q)
  BY <1>3 DEF PassMoves
<1>11. \A t \in Int : Expired(t) => Expired(t)'
  BY <1>2 DEF Expired
<1> QED
  BY <1>2, <1>5, <1>8, <1>9, <1>10, <1>11, NothingMoves, MoveStep

\* An expired object is deleted.
LEMMA DeleteColdKept ==
    ASSUME TypeOK, NEW rec \in [Nat -> File], NEW rows \in [Nat -> SUBSET Rows],
           Kept(rec, rows), NEW p \in Passes, NEW f, DeleteCold(p, f)
    PROVE  Kept(rec, rows)'
<1>1. /\ pass[p].pc = "clean" /\ f \in pass[p].todo /\ cold' = Without(cold, Key(f))
      /\ cleaned' = cleaned \cup In(cold, Key(f))
      /\ UNCHANGED <<now, ts, hot, files, warm, warmFiles, coldArchives, saved, helper>>
      /\ UNCHANGED <<skipped, purged, torn>>
  BY DEF DeleteCold, At, lists
<1>2. f \in File
  BY <1>1, TodoTyped
<1>3. /\ pass'[p].pc = "clean" /\ pass'[p].todo \subseteq pass[p].todo
      /\ \A r \in Passes : r # p => pass'[r] = pass[r]
  <2>1. pass' = [pass EXCEPT ![p] = [pc |-> "clean", todo |-> pass[p].todo \ {f}]]
    BY TodoIs DEF DeleteCold
  <2> QED
    BY <2>1 DEF TypeOK
<1>4. \A g \in pass[p].todo : Circulates(g) /\ Expired(g.end)
  <2>1. pass[p].todo \subseteq File
    BY <1>1, TodoTyped
  <2> QED
    BY <1>1, <2>1, ListsCirculate DEF Holding, Kept, Cleaning
<1>5. \A g : Circulates(g)' => Circulates(g)
  BY <1>1, <1>3, <1>4, ListsCirculate, CirculatesStep DEF Holding
<1>6. /\ DOMAIN cold' = DOMAIN cold \ {Key(f)}
      /\ \A k \in DOMAIN cold' : cold'[k] = cold[k]
  BY <1>1 DEF Without
<1>7. f = rec[f.name] /\ Key(f).name = f.name /\ Expired(f.end)
  BY <1>1, <1>2, <1>4, OneRecord, KeyIs
<1>8. ASSUME NEW r, Archived(r) PROVE Archived(r)'
  <2>1. ASSUME NEW k \in DOMAIN cold, r \in cold[k] PROVE Archived(r)'
    <3>1. CASE k = Key(f)
      BY <1>1, <2>1, <3>1 DEF Archived, In
    <3>2. CASE k # Key(f)
      BY <1>6, <2>1, <3>2 DEF Archived
    <3> QED
      BY <3>1, <3>2
  <2> QED
    BY <1>1, <1>8, <2>1 DEF Archived
<1>9. ColdMoves(rec, rows)
  BY <1>6, <1>7 DEF ColdMoves
<1>10. CleanedMoves
  <2>1. In(cold, Key(f)) \subseteq rows[f.name]
    BY <1>7 DEF In, Kept, ColdOK
  <2>2. \A r \in rows[f.name] :
           r \in Rows /\ ts[r] # -1 /\ (r \in Parsed => Expired(ts[r]))
    BY <1>1, <1>2, <1>4, <1>7, OneRecord
  <2> QED
    BY <1>1, <2>1, <2>2 DEF CleanedMoves
<1>11. \A q \in Passes : PassMoves(rows, q)
  BY <1>3, <1>4 DEF PassMoves
<1>12. \A t \in Int : Expired(t) => Expired(t)'
  BY <1>1 DEF Expired
<1> QED
  BY <1>1, <1>5, <1>8, <1>9, <1>10, <1>11, <1>12, NothingMoves, MoveStep

\* A restore empties the file, fills it or removes it.
LEMMA DownloadFromColdKept ==
    ASSUME TypeOK, NEW rec \in [Nat -> File], NEW rows \in [Nat -> SUBSET Rows],
           Kept(rec, rows), NEW q \in Helpers, NEW k \in DOMAIN cold,
           DownloadFromCold(q, k)
    PROVE  Kept(rec, rows)'
<1>1. /\ warm' = Put(warm, k.name, {})
      /\ UNCHANGED <<now, ts, hot, files, cold, warmFiles, coldArchives, saved, pass>>
      /\ UNCHANGED <<skipped, purged, cleaned, torn>>
  BY DEF DownloadFromCold, lists, gone
<1>2. /\ helper'[q].pc = "copy" /\ helper'[q].key = k /\ helper'[q].rows = cold[k]
      /\ \A h \in Helpers : h # q => helper'[h] = helper[h]
  BY DEF DownloadFromCold, TypeOK
<1>3. /\ k.name \in 1 .. files /\ k = Key(rec[k.name]) /\ Backed(rows, k.name)
      /\ cold[k] \subseteq rows[k.name] /\ k \in Keys
  BY DEF Kept, ColdOK, TypeOK
<1>4. \A f : Circulates(f)' => Circulates(f)
  BY <1>1, <1>2, ListsCirculate, CirculatesStep DEF Writes
<1>5. WarmMoves(rec, rows)
  BY <1>1, <1>3 DEF WarmMoves, Put, Kept, WarmOK
<1>6. \A h \in Helpers : HelperMoves(rec, rows, h)
  BY <1>2, <1>3 DEF HelperMoves, Restores
<1>7. \A r : Archived(r) => Archived(r)'
  BY <1>1 DEF Archived
<1>8. \A t \in Int : Expired(t) => Expired(t)'
  BY <1>1 DEF Expired
<1> QED
  BY <1>1, <1>4, <1>5, <1>6, <1>7, <1>8, NothingMoves, MoveStep

LEMMA DownloadEndsKept ==
    ASSUME TypeOK, NEW rec \in [Nat -> File], NEW rows \in [Nat -> SUBSET Rows],
           Kept(rec, rows), NEW q \in Helpers, Downloaded(q) \/ DownloadFails(q)
    PROVE  Kept(rec, rows)'
<1>1. /\ UNCHANGED <<now, ts, hot, files, cold, warmFiles, coldArchives, saved, pass>>
      /\ UNCHANGED <<skipped, purged, cleaned, torn>>
      /\ helper[q].pc = "copy" /\ helper'[q].pc \in {"idle", "list"}
      /\ \A h \in Helpers : h # q => helper'[h] = helper[h]
  BY RecordsAre DEF Downloaded, DownloadFails, lists, gone, TypeOK
<1>2. PICK k \in Keys : helper[q].key = k
  <2>1. helper[q] \in Helper
    BY DEF TypeOK
  <2> QED
    BY <1>1, <2>1, HelpersAre
<1>3. Restores(rec, rows, k) /\ helper[q].rows \subseteq rows[k.name]
  BY <1>1, <1>2 DEF Kept, Copying
<1>4. \A f : Circulates(f)' => Circulates(f)
  BY <1>1, ListsCirculate, CirculatesStep DEF Writes
<1>5. WarmMoves(rec, rows)
  <2>1. CASE Downloaded(q)
    <3>1. PICK back : /\ back \subseteq rows[k.name]
                      /\ warm' = IF k.name \in DOMAIN warm THEN Put(warm, k.name, back)
                                                          ELSE warm
      BY <1>2, <1>3, <2>1 DEF Downloaded
    <3>2. DOMAIN warm' = DOMAIN warm
      BY <3>1 DEF Put
    <3>3. \A n \in DOMAIN warm : \/ n # k.name /\ warm'[n] = warm[n]
                                 \/ n = k.name /\ warm'[n] = back
      BY <3>1 DEF Put
    <3> QED
      BY <1>3, <3>1, <3>2, <3>3 DEF WarmMoves, Restores, Kept, WarmOK
  <2>2. CASE DownloadFails(q)
    <3>1. /\ DOMAIN warm' = DOMAIN warm \ {k.name}
          /\ \A n \in DOMAIN warm' : warm'[n] = warm[n]
      BY <1>2, <2>2 DEF DownloadFails, Without
    <3> QED
      BY <1>3, <3>1 DEF WarmMoves, Restores, Kept, WarmOK
  <2> QED
    BY <2>1, <2>2
<1>6. \A h \in Helpers : HelperMoves(rec, rows, h)
  BY <1>1 DEF HelperMoves
<1>7. \A r : Archived(r) => Archived(r)'
  BY <1>1 DEF Archived
<1>8. \A t \in Int : Expired(t) => Expired(t)'
  BY <1>1 DEF Expired
<1> QED
  BY <1>1, <1>4, <1>5, <1>6, <1>7, <1>8, NothingMoves, MoveStep

\* A new row is too young for every TierData that has begun.
LEMMA InsertKept ==
    ASSUME TypeOK, Timely, NEW rec \in [Nat -> File], NEW rows \in [Nat -> SUBSET Rows],
           Kept(rec, rows), NEW r \in Rows, Insert(r)
    PROVE  Kept(rec, rows)'
<1>0. /\ Listed(rec) /\ WarmOK(rows) /\ ColdOK(rec, rows) /\ Whole(rows)
      /\ Removing(rows) /\ Cleaning /\ Copying(rec, rows)
      /\ Ranges(rec, rows) /\ CleanedOld
      /\ Orderly => Covered(rows) /\ RowKept
  BY DEF Kept
<1>1. PICK t \in 0 .. now : now - t <= Lateness /\ ts' = [ts EXCEPT ![r] = t]
  BY DEF Insert
<1>2. /\ hot' = hot \cup {r} /\ ts[r] = -1
      /\ UNCHANGED <<now, warm, cold, warmFiles, coldArchives, saved, pass, helper, files>>
      /\ UNCHANGED <<skipped, purged, cleaned, torn>>
  BY DEF Insert, lists, gone
<1>3. \A q \in Rows : ts[q] # -1 => ts'[q] = ts[q] /\ q # r
  BY <1>1, <1>2 DEF TypeOK
<1>4. /\ \A f : Expired(f)' = Expired(f)
      /\ \A q : Archived(q)' <=> Archived(q)
      /\ \A q : Elsewhere(q)' <=> Elsewhere(q)
  BY <1>2 DEF Expired, Archived, Elsewhere
<1>5. \A n : Backed(rows, n)' <=> Backed(rows, n)
  BY <1>4 DEF Backed
<1>6. Listed(rec)' /\ WarmOK(rows)'
  <2>1. \A f : Circulates(f)' => Circulates(f)
    BY <1>2, ListsCirculate, CirculatesStep
  <2>2. \A f : Exists(f)' <=> Exists(f)
    BY <1>2, <1>4 DEF Exists
  <2> QED
    BY <1>0, <1>2, <2>1, <2>2 DEF Listed, WarmOK
<1>7. ColdOK(rec, rows)' /\ Whole(rows)'
  BY <1>0, <1>2, <1>5 DEF ColdOK, Whole
<1>8. Removing(rows)' /\ Cleaning'
  BY <1>0, <1>2, <1>4, <1>5 DEF Removing, Cleaning
<1>9. Copying(rec, rows)'
  <2>1. \A k : Restores(rec, rows, k)' <=> Restores(rec, rows, k)
    BY <1>2, <1>4, <1>5 DEF Restores
  <2> QED
    BY <1>0, <1>2, <2>1 DEF Copying
<1>10. Ranges(rec, rows)'
  <2>1. ASSUME NEW n \in 1 .. files, NEW q \in rows[n]
        PROVE  ts'[q] # -1 /\ (q \in Parsed => ts'[q] <= rec[n].end)
    <3>1. n \in Nat /\ q \in Rows
      BY <2>1
    <3> QED
      BY <1>0, <1>3, <2>1, <3>1 DEF Ranges
  <2> QED
    BY <1>2, <2>1 DEF Ranges
<1>11. CleanedOld'
  <2>1. cleaned \subseteq Rows
    BY DEF TypeOK
  <2> QED
    BY <1>0, <1>2, <1>3, <1>4, <2>1 DEF CleanedOld, Expired
<1>12. ASSUME Orderly PROVE Covered(rows)'
  <2> SUFFICES ASSUME NEW p \in Passes, NEW c \in Int, NEW f \in File,
                      pass[p].pc = "delete", c = pass[p].cutoff, f = pass[p].file
               PROVE  Old(c)' \ pass[p].missed \subseteq rows[f.name]
    BY <1>2 DEF Covered
  <2>1. /\ now \in Int /\ HotRetention \in Int /\ Lateness \in Int /\ Shift[r] \in Int
        /\ Lateness + Shift[r] <= HotRetention
    BY <1>12, RetentionAssumption DEF TypeOK, Orderly
  <2>2. c <= now - HotRetention
    BY DEF Timely
  <2>3. ~(t < c + Shift[r])
    BY <1>1, <2>1, <2>2
  <2>4. ts'[r] = t /\ \A q \in hot : q # r => ts'[q] = ts[q]
    BY <1>1 DEF TypeOK
  <2>5. Old(c)' \subseteq Old(c)
    BY <1>2, <2>3, <2>4 DEF Old
  <2> QED
    BY <1>0, <1>12, <2>5 DEF Covered
<1>13. ASSUME Orderly PROVE RowKept'
  <2> SUFFICES ASSUME NEW q \in Rows, ts'[q] # -1
               PROVE  q \in hot' \/ Elsewhere(q)' \/ Archived(q)'
    BY <1>11 DEF RowKept, Somewhere, Elsewhere, Archived, CleanedOld
  <2>1. CASE q = r
    BY <1>2, <2>1
  <2>2. CASE q # r
    <3>1. ts'[q] = ts[q]
      BY <1>1, <2>2 DEF TypeOK
    <3>2. q \in hot \/ Elsewhere(q) \/ Archived(q)
      BY <1>0, <1>13, <3>1 DEF RowKept, Somewhere, Archived
    <3> QED
      BY <1>2, <1>4, <3>2
  <2> QED
    BY <2>1, <2>2
<1> QED
  BY <1>6, <1>7, <1>8, <1>9, <1>10, <1>11, <1>12, <1>13 DEF Kept, Orderly

\* A new name, for the file that exportToWarm has written.
LEMMA ExportToWarmKept ==
    ASSUME TypeOK, Timely, ~SameSecond,
           NEW rec \in [Nat -> File], NEW rows \in [Nat -> SUBSET Rows],
           Kept(rec, rows), NEW p \in Passes, ExportToWarm(p)
    PROVE  IInv'
<1>0. /\ Listed(rec) /\ WarmOK(rows) /\ ColdOK(rec, rows) /\ Whole(rows)
      /\ Removing(rows) /\ Cleaning /\ Copying(rec, rows)
      /\ Ranges(rec, rows) /\ CleanedOld
      /\ Orderly => Covered(rows) /\ RowKept
  BY DEF Kept
<1>1. PICK name, cutoff, old, read, written, file :
        /\ name = files + 1 /\ cutoff = pass[p].cutoff /\ old = Old(cutoff)
        /\ read \subseteq old /\ written \subseteq read /\ file = Exported(name, read)
        /\ warm' = Put(warm, name, written) /\ files' = name
        /\ pass' = [pass EXCEPT ![p] = [pc |-> "delete", cutoff |-> pass[p].cutoff,
                                        file |-> file, missed |-> old \ written]]
  BY DEF ExportToWarm, Names
<1>2. /\ UNCHANGED <<now, ts, hot, cold, warmFiles, coldArchives, saved, helper>>
      /\ UNCHANGED <<skipped, purged, cleaned, torn>>
  BY DEF ExportToWarm, lists, gone
<1>3. /\ name \in Nat /\ files \in Nat /\ name \notin 1 .. files
      /\ 1 .. files' = (1 .. files) \cup {name}
  BY <1>1 DEF TypeOK
<1>4. old \subseteq hot /\ old \subseteq Rows /\ read \subseteq Rows /\ written \subseteq Rows
  BY <1>1 DEF Old, TypeOK
<1>5. /\ file \in File /\ file.name = name
      /\ \A r \in read \cap Parsed : ts[r] <= file.end
  BY <1>1, <1>3, <1>4, ExportedIs
<1>6. /\ pass'[p].pc = "delete" /\ pass'[p].cutoff = cutoff
      /\ pass'[p].file = file /\ pass'[p].missed = old \ written
      /\ \A r \in Passes : r # p => pass'[r] = pass[r]
  BY <1>1 DEF TypeOK
<1>7. /\ DOMAIN warm' = DOMAIN warm \cup {name} /\ warm'[name] = written
      /\ \A n \in DOMAIN warm : n # name => warm'[n] = warm[n]
  BY <1>1 DEF Put
<1>8. PICK rec2 \in [Nat -> File], rows2 \in [Nat -> SUBSET Rows] :
        /\ rec2[name] = file /\ rows2[name] = written
        /\ \A n \in 1 .. files : rec2[n] = rec[n] /\ rows2[n] = rows[n]
  <2> DEFINE rc == [rec EXCEPT ![name] = file]
             rw == [rows EXCEPT ![name] = written]
  <2>1. rc \in [Nat -> File] /\ rw \in [Nat -> SUBSET Rows]
    BY <1>4, <1>5
  <2>2. /\ rc[name] = file /\ rw[name] = written
        /\ \A n \in Nat : n # name => rc[n] = rec[n] /\ rw[n] = rows[n]
    BY <1>3
  <2>3. \A n \in 1 .. files : n \in Nat /\ n # name
    BY <1>3
  <2> HIDE DEF rc, rw
  <2> QED
    BY <2>1, <2>2, <2>3
<1>9. \A f : Circulates(f)' => Circulates(f) \/ f = file
  <2> SUFFICES ASSUME NEW f, Circulates(f)' PROVE Circulates(f) \/ f = file
    OBVIOUS
  <2>1. CASE f \in warmFiles' \cup coldArchives' \cup saved'.warm \cup saved'.cold
    BY <1>2, <2>1, ListsCirculate
  <2>2. ASSUME NEW q \in Passes, Holding(q, f)' PROVE Circulates(f) \/ f = file
    <3>1. CASE q = p
      BY <1>6, <2>2, <3>1 DEF Holding
    <3>2. CASE q # p
      BY <1>6, <2>2, <3>2, ListsCirculate DEF Holding
    <3> QED
      BY <3>1, <3>2
  <2>3. ASSUME NEW q \in Helpers, Writes(q, f)' PROVE Circulates(f)
    BY <1>2, <2>3, ListsCirculate DEF Writes
  <2> QED
    BY <2>1, <2>2, <2>3 DEF Circulates
<1>10. \A n \in DOMAIN warm : n \in DOMAIN warm' /\ warm'[n] = warm[n]
  BY <1>0, <1>3, <1>7 DEF WarmOK
<1>11. /\ \A t : Expired(t)' <=> Expired(t)
       /\ \A r : Archived(r)' <=> Archived(r)
       /\ \A r : Elsewhere(r) => Elsewhere(r)'
       /\ \A c : Old(c)' = Old(c)
  BY <1>2, <1>10 DEF Expired, Archived, Elsewhere, Old
<1>12. \A n \in 1 .. files : Backed(rows, n) => Backed(rows2, n)'
  BY <1>8, <1>11 DEF Backed
<1>13. Listed(rec2)'
  <2> SUFFICES ASSUME NEW f \in File, Circulates(f)'
               PROVE  f.name \in 1 .. files' /\ f = rec2[f.name] /\ Exists(f)'
    BY DEF Listed
  <2>1. CASE f = file
    BY <1>3, <1>5, <1>7, <1>8, <2>1 DEF Exists
  <2>2. CASE Circulates(f)
    <3>1. f.name \in 1 .. files /\ f = rec[f.name] /\ Exists(f)
      BY <1>0, <2>2 DEF Listed
    <3> QED
      BY <1>2, <1>3, <1>8, <1>10, <1>11, <3>1 DEF Exists
  <2> QED
    BY <1>9, <2>1, <2>2
<1>14. WarmOK(rows2)'
  BY <1>0, <1>3, <1>7, <1>8 DEF WarmOK
<1>15. ColdOK(rec2, rows2)'
  BY <1>0, <1>2, <1>3, <1>8, <1>12 DEF ColdOK
<1>16. Whole(rows2)'
  BY <1>0, <1>3, <1>7, <1>8, <1>10, <1>12 DEF Whole
<1>17. Removing(rows2)' /\ Cleaning'
  <2>1. ASSUME NEW q \in Passes, NEW f \in File, pass'[q].pc = "remove", f = pass'[q].file
        PROVE  Backed(rows2, f.name)' /\ (Key(f) \in DOMAIN cold' \/ Expired(f.end)')
    <3>1. pass'[q] = pass[q]
      BY <1>6, <2>1
    <3>2. Circulates(f)
      BY <2>1, <3>1, ListsCirculate DEF Holding
    <3>3. f.name \in 1 .. files
      BY <1>0, <3>2 DEF Listed
    <3> QED
      BY <1>0, <1>2, <1>11, <1>12, <2>1, <3>1, <3>3 DEF Removing
  <2>2. ASSUME NEW q \in Passes, NEW f \in File, pass'[q].pc = "clean", f \in pass'[q].todo
        PROVE  Expired(f.end)'
    BY <1>0, <1>6, <1>11, <2>2 DEF Cleaning
  <2> QED
    BY <2>1, <2>2 DEF Removing, Cleaning
<1>18. Copying(rec2, rows2)'
  <2> SUFFICES ASSUME NEW q \in Helpers, NEW k \in Keys,
                      helper[q].pc = "copy", k = helper[q].key
               PROVE  Restores(rec2, rows2, k)' /\ helper[q].rows \subseteq rows2[k.name]
    BY <1>2 DEF Copying
  <2>1. Restores(rec, rows, k) /\ helper[q].rows \subseteq rows[k.name]
    BY <1>0 DEF Copying
  <2> QED
    BY <1>2, <1>3, <1>8, <1>11, <1>12, <2>1 DEF Restores
<1>19. Ranges(rec2, rows2)'
  <2>1. ASSUME NEW n \in 1 .. files', NEW r \in rows2[n]
        PROVE  ts'[r] # -1 /\ (r \in Parsed => ts'[r] <= rec2[n].end)
    <3>1. CASE n = name
      BY <1>1, <1>2, <1>4, <1>5, <1>8, <2>1, <3>1 DEF Timely
    <3>2. CASE n \in 1 .. files
      BY <1>0, <1>2, <1>8, <2>1, <3>2 DEF Ranges
    <3> QED
      BY <1>3, <3>1, <3>2
  <2> QED
    BY <2>1 DEF Ranges
<1>20. CleanedOld'
  BY <1>0, <1>2, <1>11 DEF CleanedOld, Expired
<1>21. ASSUME Orderly PROVE Covered(rows2)'
  <2> SUFFICES ASSUME NEW q \in Passes, NEW c \in Int, NEW f \in File,
                      pass'[q].pc = "delete", c = pass'[q].cutoff, f = pass'[q].file
               PROVE  Old(c) \ pass'[q].missed \subseteq rows2[f.name]
    BY <1>11 DEF Covered
  <2>1. CASE q = p
    BY <1>1, <1>5, <1>6, <1>8, <2>1
  <2>2. CASE q # p
    <3>1. pass'[q] = pass[q]
      BY <1>6, <2>2
    <3>2. Circulates(f)
      BY <3>1, ListsCirculate DEF Holding
    <3>3. f.name \in 1 .. files
      BY <1>0, <3>2 DEF Listed
    <3> QED
      BY <1>0, <1>8, <1>21, <3>1, <3>3 DEF Covered
  <2> QED
    BY <2>1, <2>2
<1>22. ASSUME Orderly PROVE RowKept'
  <2> SUFFICES ASSUME NEW r \in Rows, ts[r] # -1
               PROVE  r \in hot' \/ Elsewhere(r)' \/ Archived(r)'
    BY <1>2, <1>20 DEF RowKept, Somewhere, Elsewhere, Archived, CleanedOld
  <2>1. r \in hot \/ Elsewhere(r) \/ Archived(r)
    BY <1>0, <1>22 DEF RowKept, Somewhere, Archived
  <2> QED
    BY <1>2, <1>11, <2>1
<1>23. Kept(rec2, rows2)'
  BY <1>13, <1>14, <1>15, <1>16, <1>17, <1>18, <1>19, <1>20, <1>21, <1>22 DEF Kept, Orderly
<1> QED
  BY <1>23 DEF IInv

-----------------------------------------------------------------------------
(* The theorems.                                                           *)

LEMMA InitIInv == Init => IInv
<1> SUFFICES ASSUME Init PROVE IInv
  OBVIOUS
<1>1. PICK f : f \in File
  <2>1. -1 \in Times
    BY RetentionAssumption DEF Times
  <2>2. [name |-> 0, start |-> -1, end |-> -1] \in File
    BY <2>1 DEF File
  <2> QED
    BY <2>2
<1>2. PICK rec \in [Nat -> File], rows \in [Nat -> SUBSET Rows] : TRUE
  <2>1. [n \in Nat |-> f] \in [Nat -> File] /\ [n \in Nat |-> {}] \in [Nat -> SUBSET Rows]
    BY <1>1
  <2> QED
    BY <2>1
<1>3. /\ warmFiles = {} /\ coldArchives = {} /\ saved.warm = {} /\ saved.cold = {}
      /\ DOMAIN warm = {} /\ DOMAIN cold = {} /\ files = 0 /\ cleaned = {}
      /\ \A p \in Passes : pass[p].pc = "idle"
      /\ \A q \in Helpers : helper[q].pc = "idle"
      /\ \A r \in Rows : ts[r] = -1
  BY RecordsAre DEF Init, Fresh
<1>4. \A f1 : ~Circulates(f1)
  BY <1>3 DEF Circulates, Holding, Writes
<1>5. 1 .. files = {}
  BY <1>3
<1>6. /\ Listed(rec) /\ WarmOK(rows) /\ ColdOK(rec, rows) /\ Whole(rows)
      /\ Ranges(rec, rows) /\ CleanedOld
  BY <1>3, <1>4, <1>5 DEF Listed, WarmOK, ColdOK, Whole, Ranges, CleanedOld
<1>7. Removing(rows) /\ Cleaning /\ Copying(rec, rows) /\ Covered(rows)
  BY <1>3 DEF Removing, Cleaning, Copying, Covered
<1>8. RowKept
  BY <1>3 DEF RowKept
<1> QED
  BY <1>6, <1>7, <1>8 DEF Kept, IInv

LEMMA NextIInv ==
    ASSUME ~SameSecond
    PROVE  TypeOK /\ Timely /\ IInv /\ [Next]_vars => IInv'
<1> SUFFICES ASSUME TypeOK, Timely, IInv, [Next]_vars PROVE IInv'
  OBVIOUS
<1>0. PICK rec \in [Nat -> File], rows \in [Nat -> SUBSET Rows] : Kept(rec, rows)
  BY DEF IInv
<1>1. Kept(rec, rows)' => IInv'
  BY DEF IInv
<1>2. ASSUME NEW p \in Passes, TierData(p) \/ Step(p) PROVE IInv'
  <2>1. CASE ExportToWarm(p)
    BY <1>0, <2>1, ExportToWarmKept
  <2>2. CASE DeleteFromHot(p)
    BY <1>0, <1>1, <2>2, DeleteFromHotKept
  <2>3. CASE RemoveWarm(p)
    BY <1>0, <1>1, <2>3, RemoveWarmKept
  <2>4. CASE \E f \in Todo(p) : ArchiveToCold(p, f)
    BY <1>0, <1>1, <2>4, ArchiveToColdKept
  <2>5. CASE \E f \in Todo(p) : DeleteCold(p, f)
    BY <1>0, <1>1, <2>5, DeleteColdKept
  <2>6. CASE \/ TierData(p) \/ ExportFails(p) \/ DeleteFails(p) \/ TrackWarm(p)
             \/ TierWarmToCold(p) \/ CleanExpiredCold(p) \/ MarshalState(p) \/ SaveState(p)
             \/ \E f \in Todo(p) :
                   ArchiveFails(p, f) \/ ArchiveMissing(p, f) \/ DeleteColdFails(p, f)
    BY <1>0, <1>1, <2>6, QuietSteps
  <2> QED
    BY <1>2, <2>1, <2>2, <2>3, <2>4, <2>5, <2>6 DEF Step
<1>3. ASSUME NEW q \in Helpers,
             Compact(q) \/ HelperStep(q) \/ \E k \in DOMAIN cold : DownloadFromCold(q, k)
      PROVE  IInv'
  <2>1. CASE Compact(q) \/ Compacted(q) \/ ListRestored(q)
    BY <1>0, <1>1, <2>1, ListsKept
  <2>2. CASE Downloaded(q) \/ DownloadFails(q)
    BY <1>0, <1>1, <2>2, DownloadEndsKept
  <2>3. CASE \E k \in DOMAIN cold : DownloadFromCold(q, k)
    BY <1>0, <1>1, <2>3, DownloadFromColdKept
  <2> QED
    BY <1>3, <2>1, <2>2, <2>3 DEF HelperStep
<1>4. CASE Crash \/ UNCHANGED vars
  BY <1>0, <1>1, <1>4, ListsKept
<1>5. CASE Tick
  BY <1>0, <1>1, <1>5, TickKept
<1>6. CASE Cleanup
  BY <1>0, <1>1, <1>6, CleanupKept
<1>7. CASE \E r \in Rows : Insert(r)
  BY <1>0, <1>1, <1>7, InsertKept
<1> QED
  BY <1>2, <1>3, <1>4, <1>5, <1>6, <1>7 DEF Next

\* When no two exports begin in the same second, what TieringState or
\* tiering_state.json lists is in the warm directory, in the cold backend or
\* expired, whatever TierData, Compact and RestoreFromCold run beside each
\* other, whichever step fails, in whatever order the states are written and
\* wherever the process crashes.
THEOREM ListedCanBeHad ==
    ASSUME ~SameSecond
    PROVE  Spec => []ListedExists
<1>1. Init => TypeOK /\ Timely /\ IInv
  BY InitTypeOK, InitTimely, InitIInv
<1>2. (TypeOK /\ Timely /\ IInv) /\ [Next]_vars => (TypeOK /\ Timely /\ IInv)'
  BY NextTypeOK, NextTimely, NextIInv
<1>3. TypeOK /\ IInv => ListedExists
  <2> SUFFICES ASSUME TypeOK, IInv PROVE ListedExists
    OBVIOUS
  <2>1. PICK rec \in [Nat -> File] : Listed(rec)
    BY DEF IInv, Kept
  <2>2. warmFiles \cup coldArchives \cup saved.warm \cup saved.cold \subseteq File
    BY StateIs DEF TypeOK
  <2> QED
    BY <2>1, <2>2, ListsCirculate DEF Listed, Exists, ListedExists
<1> QED
  BY <1>1, <1>2, <1>3, PTL DEF Spec

\* When, besides, no row passes for older than HotRetention when it is inserted,
\* a row is destroyed only by cleanExpiredCold, not before ColdRetention if its
\* timestamp can be read, or in the three ways RowKept names: exportToWarm
\* passes over it, Store.cleanup deletes it before an export, or a file that
\* is half restored is archived over its object.
THEOREM RowsAreKept ==
    ASSUME ~SameSecond, \A r \in Rows : Lateness + Shift[r] <= HotRetention
    PROVE  Spec => []RowKept
<1>1. Init => TypeOK /\ Timely /\ IInv
  BY InitTypeOK, InitTimely, InitIInv
<1>2. (TypeOK /\ Timely /\ IInv) /\ [Next]_vars => (TypeOK /\ Timely /\ IInv)'
  BY NextTypeOK, NextTimely, NextIInv
<1>3. IInv => RowKept
  BY DEF IInv, Kept, Orderly
<1> QED
  BY <1>1, <1>2, <1>3, PTL DEF Spec
=============================================================================
