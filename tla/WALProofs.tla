------------------------------ MODULE WALProofs ------------------------------
(***************************************************************************)
(* Proofs about WAL, for every value of its constants.                     *)
(***************************************************************************)
EXTENDS WAL, FiniteSetTheorems, TLAPS

-----------------------------------------------------------------------------
(* What the file operations do to the log. *)

\* How a file operation may change the log l into g when it is given the
\* entries new: nothing leaves the disk, and nothing appears from nowhere.
Extends(l, g, new) ==
    /\ g \in Log /\ l.seg <= g.seg
    /\ l.disk \subseteq g.disk /\ l.synced \subseteq g.synced
    /\ g.disk \cup g.buf \subseteq l.disk \cup l.buf \cup new
    /\ g.synced \subseteq l.synced \cup g.disk
    /\ g.files \subseteq l.files \cup (l.seg + 1 .. g.seg)

LEMMA ExtendsReflexive ==
    ASSUME NEW l \in Log PROVE Extends(l, l, {})
BY DEF Extends, Log

\* Flush moves buffered entries to disk and does nothing else.
LEMMA FlushExtends ==
    ASSUME NEW l \in Log, NEW F, NEW cut \in Int
    PROVE  Extends(l, Flush(l, F, cut), {}) /\ Flush(l, F, cut).seg = l.seg
<1> DEFINE out == {e \in l.buf : l.open /\ e.seq <= cut}
<1>1. \/ Flush(l, F, cut) = l
      \/ Flush(l, F, cut) = [l EXCEPT !.disk = @ \cup l.buf, !.buf = {}]
      \/ Flush(l, F, cut) = [l EXCEPT !.disk = @ \cup out, !.buf = @ \ out,
                                      !.bad = TRUE]
  BY DEF Flush
<1>2. out \subseteq l.buf
  OBVIOUS
<1> HIDE DEF out
<1>3. CASE Flush(l, F, cut) = l
  BY <1>3, ExtendsReflexive
<1>4. CASE Flush(l, F, cut) = [l EXCEPT !.disk = @ \cup l.buf, !.buf = {}]
  <2> DEFINE g == Flush(l, F, cut)
  <2>1. /\ g \in Log /\ g.seg = l.seg /\ g.files = l.files
        /\ g.disk = l.disk \cup l.buf /\ g.buf = {} /\ g.synced = l.synced
    BY <1>4 DEF Log
  <2> HIDE DEF g
  <2>2. Extends(l, g, {}) /\ g.seg = l.seg
    BY <2>1 DEF Extends, Log
  <2> QED
    BY <2>2 DEF g
<1>5. CASE Flush(l, F, cut) = [l EXCEPT !.disk = @ \cup out, !.buf = @ \ out,
                                        !.bad = TRUE]
  <2> DEFINE g == Flush(l, F, cut)
  <2>1. /\ g \in Log /\ g.seg = l.seg /\ g.files = l.files
        /\ g.disk = l.disk \cup out /\ g.buf = l.buf \ out
        /\ g.synced = l.synced
    BY <1>2, <1>5 DEF Log
  <2> HIDE DEF g
  <2>2. Extends(l, g, {}) /\ g.seg = l.seg
    BY <1>2, <2>1 DEF Extends, Log
  <2> QED
    BY <2>2 DEF g
<1> QED
  BY <1>1, <1>3, <1>4, <1>5

\* Fsync moves nothing; it only marks entries of the current segment.
LEMMA FsyncExtends ==
    ASSUME NEW l \in Log, NEW F
    PROVE  Extends(l, Fsync(l, F), {}) /\ Fsync(l, F).seg = l.seg
BY DEF Extends, Fsync, Log

LEMMA ExtendsTransitive ==
    ASSUME NEW l \in Log, NEW g, NEW h, NEW S, NEW T,
           Extends(l, g, S), Extends(g, h, T)
    PROVE  Extends(l, h, S \cup T)
BY DEF Extends, Log

LEMMA SyncLogExtends ==
    ASSUME NEW l \in Log, NEW F, NEW cut \in Int
    PROVE  Extends(l, SyncLog(l, F, cut), {}) /\ SyncLog(l, F, cut).seg = l.seg
<1> DEFINE g == Flush(l, F, cut)
<1>1. Extends(l, g, {}) /\ g \in Log /\ g.seg = l.seg
  BY FlushExtends DEF Extends
<1>2. Extends(g, Fsync(g, F), {}) /\ Fsync(g, F).seg = g.seg
  BY <1>1, FsyncExtends
<1>3. Extends(l, Fsync(g, F), {} \cup {})
  BY <1>1, <1>2, ExtendsTransitive
<1> QED
  BY <1>1, <1>2, <1>3 DEF SyncLog

LEMMA CloseSegmentExtends ==
    ASSUME NEW l \in Log, NEW F, NEW cut \in Int
    PROVE  /\ Extends(l, CloseSegment(l, F, cut), {})
           /\ CloseSegment(l, F, cut).seg = l.seg
<1> DEFINE g == Flush(l, F, cut)
           h == Fsync(g, F)
<1>1. Extends(l, g, {}) /\ g \in Log /\ g.seg = l.seg
  BY FlushExtends DEF Extends
<1>2. Extends(g, h, {}) /\ h.seg = g.seg
  BY <1>1, FsyncExtends
<1>3. Extends(l, h, {} \cup {})
  BY <1>1, <1>2, ExtendsTransitive
<1>4. CloseSegment(l, F, cut) = [h EXCEPT !.open = FALSE]
  BY DEF CloseSegment
<1> HIDE DEF g, h
<1> QED
  BY <1>1, <1>2, <1>3, <1>4 DEF Extends, Log

LEMMA OpenExtends ==
    ASSUME NEW l \in Log, NEW F
    PROVE  Extends(l, openNextSegment(l, F), {})
<1> DEFINE a == [l EXCEPT !.seg = @ + 1]
           b == [l EXCEPT !.seg = @ + 1, !.open = TRUE, !.buf = {},
                          !.bad = FALSE, !.files = @ \cup {l.seg + 1}]
<1>1. openNextSegment(l, F) = a \/ openNextSegment(l, F) = b
  BY DEF openNextSegment
<1>2. Extends(l, a, {})
  BY DEF Extends, Log
<1>n. l.seg + 1 \in Nat /\ l.files \cup {l.seg + 1} \subseteq Nat
  BY DEF Log
<1>3. /\ b \in Log /\ b.seg = l.seg + 1 /\ b.disk = l.disk /\ b.buf = {}
      /\ b.synced = l.synced /\ b.files = l.files \cup {l.seg + 1}
  BY <1>n DEF Log
<1>4. Extends(l, b, {})
  <2> HIDE DEF b
  <2> QED BY <1>3 DEF Extends, Log
<1> QED
  BY <1>1, <1>2, <1>4

LEMMA RotateExtends ==
    ASSUME NEW l \in Log, NEW F, NEW cut \in Int
    PROVE  Extends(l, RotateIfFull(l, F, cut), {})
<1> DEFINE g == CloseSegment(l, F, cut)
<1>1. Extends(l, g, {}) /\ g \in Log
  BY CloseSegmentExtends DEF Extends
<1>2. Extends(g, openNextSegment(g, F), {})
  BY <1>1, OpenExtends
<1>3. Extends(l, openNextSegment(g, F), {} \cup {})
  BY <1>1, <1>2, ExtendsTransitive
<1>4. Extends(l, l, {})
  BY DEF Extends, Log
<1> QED
  BY <1>3, <1>4 DEF RotateIfFull, rotateSegment

\* writeEntry adds at most its entry, to the buffer.
LEMMA WriteEntryExtends ==
    ASSUME NEW l \in Log, NEW e \in Entry, NEW F, NEW cut \in Int
    PROVE  /\ Extends(l, writeEntry(l, e, F, cut), {e})
           /\ writeEntry(l, e, F, cut).seg = l.seg
<1> DEFINE g == IF Cardinality(l.buf) < BufCap THEN l ELSE Flush(l, F, cut)
<1>1. Extends(l, l, {})
  BY DEF Extends, Log
<1>2. Extends(l, g, {}) /\ g.seg = l.seg
  BY <1>1, FlushExtends
<1>3. writeEntry(l, e, F, cut) \in
        {l, g, [g EXCEPT !.buf = @ \cup {e}]}
  BY DEF writeEntry
<1> HIDE DEF g
<1> QED
  BY <1>1, <1>2, <1>3 DEF Extends, Log

-----------------------------------------------------------------------------
(* Type correctness. *)

\* The faults of one step can be counted.
LEMMA FaultsFinite ==
    ASSUME NEW F \in SUBSET Faults PROVE Cardinality(F) \in Nat
<1>1. IsFiniteSet({}) /\ IsFiniteSet({} \cup {"flush"})
  BY FS_EmptySet, FS_AddElement
<1>2. IsFiniteSet(({} \cup {"flush"}) \cup {"fsync"})
  BY <1>1, FS_AddElement
<1>3. IsFiniteSet((({} \cup {"flush"}) \cup {"fsync"}) \cup {"open"})
  BY <1>2, FS_AddElement
<1>4. Faults = (({} \cup {"flush"}) \cup {"fsync"}) \cup {"open"}
  BY DEF Faults
<1>5. IsFiniteSet(F)
  BY <1>3, <1>4, FS_Subset
<1> QED
  BY <1>5, FS_CardinalityType

LEMMA NewEntryType ==
    ASSUME TypeOK, NEW n \in Nat \ {0}, NEW g \in Nat
    PROVE  /\ NewEntry(n, g) \in Entry
           /\ NewEntry(n, g).seq = entrySeq + n
           /\ NewEntry(n, g).seg = log.seg
<1>1. log.seg \in Nat /\ entrySeq + n \in Nat /\ nextVal + n - 1 \in Nat
  BY DEF TypeOK, Log
<1> QED
  BY <1>1 DEF NewEntry, Entry

\* A step of the writers, the sync worker or Stop: the log takes in the new
\* entries, all of them numbered after the old ones, and pending and acked
\* get all of them or none.
Appends(new) ==
    /\ new \subseteq Entry /\ Extends(log, log', new)
    /\ \A e \in new : /\ entrySeq < e.seq /\ e.seq <= entrySeq'
                      /\ nextVal <= e.val /\ e.val < nextVal'
                      /\ e.seg = log.seg
    /\ \A a, b \in new : a.seq = b.seq => a = b
    /\ entrySeq' \in Nat /\ entrySeq <= entrySeq'
    /\ nextVal' \in Nat \ {0} /\ nextVal <= nextVal'
    /\ \/ pending' = pending /\ acked' = acked
       \/ pending' = pending \cup new /\ acked' = acked \cup new
    /\ faults' \in Nat
    /\ LagBounded \/ log'.seg = log.seg
    /\ NoteDurable
    /\ mode # "down" /\ mode' \in {"run", "stopped"}
    /\ UNCHANGED <<ck, crashes, applied, runApplied, cleared>>

LEMMA WriteAppends ==
    ASSUME TypeOK, Write
    PROVE  \E new : Appends(new)
<1> DEFINE e == NewEntry(1, nextVal)
<1>1. /\ e \in Entry /\ e.seq = entrySeq + 1 /\ e.seg = log.seg
      /\ e.val = nextVal
  BY NewEntryType DEF TypeOK, NewEntry
<1>2. PICK F \in SUBSET Faults, cut \in 0 .. entrySeq :
         LET g == writeEntry(log, e, F, cut)
         IN  /\ Fault(F)
             /\ IF g.bad
                THEN log' = g /\ UNCHANGED <<pending, acked>>
                ELSE /\ log' = RotateIfFull(g, F, cut)
                     /\ pending' = pending \cup {e}
                     /\ acked' = acked \cup {e}
  BY DEF Write
<1> DEFINE g == writeEntry(log, e, F, cut)
<1> HIDE DEF e
<1>3. log \in Log /\ cut \in Int
  BY DEF TypeOK
<1>4. Extends(log, g, {e}) /\ g \in Log
  BY <1>1, <1>3, WriteEntryExtends DEF Extends
<1>5. Extends(g, RotateIfFull(g, F, cut), {})
  BY <1>3, <1>4, RotateExtends
<1>6. Extends(log, RotateIfFull(g, F, cut), {e} \cup {})
  BY <1>3, <1>4, <1>5, ExtendsTransitive
<1>7. Extends(log, log', {e})
  BY <1>2, <1>4, <1>6
<1>8. faults' \in Nat
  BY <1>2, FaultsFinite DEF Fault, TypeOK
<1>9. \/ pending' = pending /\ acked' = acked
      \/ pending' = pending \cup {e} /\ acked' = acked \cup {e}
  BY <1>2
<1>10. /\ entrySeq' = entrySeq + 1 /\ nextVal' = nextVal + 1
       /\ mode # "down" /\ mode' = mode /\ LagBounded /\ NoteDurable
       /\ UNCHANGED <<ck, crashes, applied, runApplied, cleared>>
  BY DEF Write
<1>11. \A x \in {e} : /\ entrySeq < x.seq /\ x.seq <= entrySeq'
                      /\ nextVal <= x.val /\ x.val < nextVal'
                      /\ x.seg = log.seg
  BY <1>1, <1>10 DEF TypeOK
<1>12. /\ entrySeq' \in Nat /\ entrySeq <= entrySeq'
       /\ nextVal' \in Nat \ {0} /\ nextVal <= nextVal'
       /\ mode' \in {"run", "stopped"}
  BY <1>10 DEF TypeOK
<1>13. Appends({e})
  BY <1>1, <1>7, <1>8, <1>9, <1>10, <1>11, <1>12 DEF Appends
<1> QED
  BY <1>13

LEMMA WriteBatchAppends ==
    ASSUME TypeOK, WriteBatch
    PROVE  \E new : Appends(new)
<1> DEFINE e1 == NewEntry(1, nextVal)
           e2 == NewEntry(2, nextVal)
<1>1. /\ e1 \in Entry /\ e1.seq = entrySeq + 1 /\ e1.seg = log.seg
      /\ e1.val = nextVal
  BY NewEntryType DEF TypeOK, NewEntry
<1>2. /\ e2 \in Entry /\ e2.seq = entrySeq + 2 /\ e2.seg = log.seg
      /\ e2.val = nextVal + 1
  BY NewEntryType DEF TypeOK, NewEntry
<1>3. PICK F \in SUBSET {"flush"}, cut \in 0 .. entrySeq + 1 :
         LET g1 == writeEntry(log, e1, F, cut)
             g2 == writeEntry(g1, e2, F, cut)
         IN  /\ Fault(F)
             /\ log' = g2
             /\ entrySeq' = IF g1.bad THEN entrySeq + 1 ELSE entrySeq + 2
             /\ IF g2.bad
                THEN UNCHANGED <<pending, acked>>
                ELSE /\ pending' = pending \cup {e1, e2}
                     /\ acked' = acked \cup {e1, e2}
  BY DEF WriteBatch
<1> DEFINE g1 == writeEntry(log, e1, F, cut)
           g2 == writeEntry(g1, e2, F, cut)
<1> HIDE DEF e1, e2
<1>4. log \in Log /\ cut \in Int
  BY DEF TypeOK
<1>5. Extends(log, g1, {e1}) /\ g1 \in Log /\ g1.seg = log.seg
  BY <1>1, <1>4, WriteEntryExtends DEF Extends
<1>6. Extends(g1, g2, {e2}) /\ g2.seg = g1.seg
  BY <1>2, <1>4, <1>5, WriteEntryExtends
<1>7. Extends(log, g2, {e1} \cup {e2})
  BY <1>4, <1>5, <1>6, ExtendsTransitive
<1>8. faults' \in Nat
  BY <1>3, FaultsFinite DEF Fault, TypeOK, Faults
<1>9. g1.bad => g2 = g1
  BY DEF writeEntry
<1>10. /\ nextVal' = nextVal + 2 /\ mode # "down" /\ mode' = mode
       /\ NoteDurable
       /\ UNCHANGED <<ck, crashes, applied, runApplied, cleared>>
  BY DEF WriteBatch
<1>11. /\ log' = g2
       /\ entrySeq' = IF g1.bad THEN entrySeq + 1 ELSE entrySeq + 2
       /\ IF g2.bad THEN pending' = pending /\ acked' = acked
          ELSE /\ pending' = pending \cup {e1, e2}
               /\ acked' = acked \cup {e1, e2}
  BY <1>3
<1> HIDE DEF g1, g2
<1>12. /\ entrySeq' \in Nat /\ entrySeq <= entrySeq'
       /\ nextVal' \in Nat \ {0} /\ nextVal <= nextVal'
       /\ mode' \in {"run", "stopped"} /\ log'.seg = log.seg
  BY <1>5, <1>6, <1>10, <1>11 DEF TypeOK
<1>13. CASE g1.bad
  <2>1. \A x \in {e1} : /\ entrySeq < x.seq /\ x.seq <= entrySeq'
                        /\ nextVal <= x.val /\ x.val < nextVal'
                        /\ x.seg = log.seg
    BY <1>1, <1>10, <1>11, <1>13 DEF TypeOK
  <2>2. pending' = pending /\ acked' = acked /\ Extends(log, log', {e1})
    BY <1>5, <1>9, <1>11, <1>13
  <2>3. Appends({e1})
    BY <1>1, <1>8, <1>10, <1>12, <2>1, <2>2 DEF Appends
  <2> QED
    BY <2>3
<1>14. CASE ~g1.bad
  <2>1. \A x \in {e1, e2} : /\ entrySeq < x.seq /\ x.seq <= entrySeq'
                            /\ nextVal <= x.val /\ x.val < nextVal'
                            /\ x.seg = log.seg
    BY <1>1, <1>2, <1>10, <1>11, <1>14 DEF TypeOK
  <2>2. {e1} \cup {e2} = {e1, e2}
    OBVIOUS
  <2>3. /\ Extends(log, log', {e1, e2})
        /\ \/ pending' = pending /\ acked' = acked
           \/ /\ pending' = pending \cup {e1, e2}
              /\ acked' = acked \cup {e1, e2}
    BY <1>7, <1>11, <2>2
  <2>4. {e1, e2} \subseteq Entry /\ \A a, b \in {e1, e2} : a.seq = b.seq => a = b
    BY <1>1, <1>2 DEF TypeOK
  <2>5. Appends({e1, e2})
    BY <1>8, <1>10, <1>12, <2>1, <2>3, <2>4 DEF Appends
  <2> QED
    BY <2>5
<1> QED
  BY <1>13, <1>14

LEMMA SyncAppends ==
    ASSUME TypeOK, Sync \/ Stop
    PROVE  \E new : Appends(new)
<1>1. CASE Sync
  <2>1. PICK F \in SUBSET {"flush", "fsync"}, cut \in 0 .. entrySeq :
          Fault(F) /\ log' = SyncLog(log, F, cut)
    BY <1>1 DEF Sync
  <2>2. Extends(log, log', {}) /\ log'.seg = log.seg
    BY <2>1, SyncLogExtends DEF TypeOK
  <2>3. faults' \in Nat
    BY <2>1, FaultsFinite DEF Fault, TypeOK, Faults
  <2>4. Appends({})
    BY <1>1, <2>2, <2>3 DEF Sync, Appends, ghosts, TypeOK
  <2> QED
    BY <2>4
<1>2. CASE Stop
  <2>1. PICK F \in SUBSET {"flush", "fsync"}, cut \in 0 .. entrySeq :
          Fault(F) /\ log' = CloseSegment(log, F, cut)
    BY <1>2 DEF Stop
  <2>2. Extends(log, log', {}) /\ log'.seg = log.seg
    BY <2>1, CloseSegmentExtends DEF TypeOK
  <2>3. faults' \in Nat
    BY <2>1, FaultsFinite DEF Fault, TypeOK, Faults
  <2>4. Appends({})
    BY <1>2, <2>2, <2>3 DEF Stop, Appends, ghosts, TypeOK
  <2> QED
    BY <2>4
<1> QED
  BY <1>1, <1>2

LEMMA RecoverLog ==
    ASSUME TypeOK, Recover
    PROVE  \E m \in RecoveredSeg :
             /\ log' \in Log /\ log'.seg = m + 1 /\ log'.buf = {}
             /\ log'.files = log.files \cup {m + 1}
             /\ log'.disk = log.disk /\ log'.synced = log.synced
<1>1. PICK m \in RecoveredSeg :
        log' = openNextSegment([log EXCEPT !.seg = m], {})
  BY DEF Recover
<1>2. m \in Nat /\ log \in Log
  BY DEF RecoveredSeg, TypeOK, Log
<1>3. m + 1 \in Nat /\ log.files \cup {m + 1} \subseteq Nat
  BY <1>2 DEF Log
<1>4. log' = [log EXCEPT !.seg = m + 1, !.open = TRUE, !.buf = {},
                         !.bad = FALSE, !.files = log.files \cup {m + 1}]
  BY <1>1, <1>2 DEF openNextSegment, Log
<1> QED
  BY <1>2, <1>3, <1>4 DEF Log

\* Removing files takes their entries away and touches nothing else.
LEMMA RemoveFilesLog ==
    ASSUME NEW l \in Log, NEW gone
    PROVE  LET g == RemoveFiles(l, gone)
           IN  /\ g \in Log /\ g.seg = l.seg /\ g.buf = l.buf
               /\ g.files = l.files \ gone
               /\ g.disk = {e \in l.disk : e.seg \notin gone}
               /\ g.synced = {e \in l.synced : e.seg \notin gone}
<1> DEFINE d == {e \in l.disk : e.seg \notin gone}
           s == {e \in l.synced : e.seg \notin gone}
           f == l.files \ gone
<1>1. d \subseteq Entry /\ s \subseteq Entry /\ f \subseteq Nat
  BY DEF Log
<1>2. RemoveFiles(l, gone) =
        [l EXCEPT !.files = f, !.disk = d, !.synced = s]
  BY DEF RemoveFiles
<1> HIDE DEF d, s, f
<1>3. LET g == RemoveFiles(l, gone)
      IN  /\ g \in Log /\ g.seg = l.seg /\ g.buf = l.buf
          /\ g.files = f /\ g.disk = d /\ g.synced = s
  BY <1>1, <1>2 DEF Log
<1> QED
  BY <1>3 DEF d, s, f

LEMMA CheckpointTypeOK ==
    ASSUME TypeOK, NEW c \in Ckpts, Checkpoint(c) PROVE TypeOK'
<1> USE DEF TypeOK, ghosts
<1>1. ck[c] \in CkptState /\ ck[c].snap \subseteq Entry
  BY DEF CkptState
<1>2. CASE CkptCopy(c)
  <2>1. [pc |-> "copied", snap |-> pending, seg |-> log.seg] \in CkptState
    BY DEF CkptState, Log
  <2>2. ck' \in [Ckpts -> CkptState]
    BY <1>2, <2>1 DEF CkptCopy
  <2> QED
    BY <1>2, <2>2 DEF CkptCopy
<1>3. CASE CkptApply(c)
  <2>1. [ck[c] EXCEPT !.pc = "applied"] \in CkptState
    BY <1>1 DEF CkptState
  <2>2. ck' \in [Ckpts -> CkptState]
    BY <1>3, <2>1 DEF CkptApply
  <2>3. applied' \subseteq Entry /\ runApplied' \subseteq Entry
    BY <1>1, <1>3 DEF CkptApply
  <2> QED
    BY <1>3, <2>2, <2>3 DEF CkptApply
<1>4. CASE CkptApplyFails(c)
  <2>1. Idle \in CkptState
    BY DEF Idle, CkptState
  <2>2. ck' \in [Ckpts -> CkptState]
    BY <1>4, <2>1 DEF CkptApplyFails
  <2>3. applied' \subseteq Entry
    BY <1>1, <1>4 DEF CkptApplyFails
  <2> QED
    BY <1>4, <2>2, <2>3 DEF CkptApplyFails
<1>5. CASE CkptClear(c)
  <2>1. [ck[c] EXCEPT !.pc = "cleared"] \in CkptState
    BY <1>1 DEF CkptState
  <2>2. ck' \in [Ckpts -> CkptState]
    BY <1>5, <2>1 DEF CkptClear
  <2>3. pending' \subseteq Entry /\ cleared' \subseteq Entry
    BY <1>5 DEF CkptClear, After
  <2> QED
    BY <1>5, <2>2, <2>3 DEF CkptClear
<1>6. CASE CkptClean(c)
  <2>1. Idle \in CkptState
    BY DEF Idle, CkptState
  <2>2. ck' \in [Ckpts -> CkptState]
    BY <1>6, <2>1 DEF CkptClean
  <2>3. log' \in Log
    BY <1>6, RemoveFilesLog DEF CkptClean
  <2> QED
    BY <1>6, <2>2, <2>3 DEF CkptClean
<1> QED
  BY <1>2, <1>3, <1>4, <1>5, <1>6 DEF Checkpoint

LEMMA CrashTypeOK == ASSUME TypeOK, Crash PROVE TypeOK'
<1> USE DEF TypeOK
<1>1. PICK kept \in Survivors :
        log' = [log EXCEPT !.open = FALSE, !.buf = {}, !.bad = FALSE,
                           !.disk = kept, !.synced = kept]
  BY DEF Crash
<1>2. kept \subseteq Entry
  BY DEF Survivors, Log
<1>3. log' \in Log
  BY <1>1, <1>2 DEF Log
<1>4. Idle \in CkptState
  BY DEF Idle, CkptState
<1>5. ck' \in [Ckpts -> CkptState]
  BY <1>4 DEF Crash
<1> QED
  BY <1>3, <1>5 DEF Crash

LEMMA AppendsTypeOK ==
    ASSUME TypeOK, NEW new, Appends(new) PROVE TypeOK'
<1>1. log' \in Log /\ log'.synced \subseteq Entry
  BY DEF Appends, Extends, Log
<1>2. /\ pending' \subseteq Entry /\ acked' \subseteq Entry
      /\ durable' \subseteq Entry
  BY <1>1 DEF Appends, NoteDurable, TypeOK
<1> QED
  BY <1>1, <1>2 DEF Appends, TypeOK

\* Every step keeps the types.
LEMMA NextTypeOK == TypeOK /\ [Next]_vars => TypeOK'
<1> SUFFICES ASSUME TypeOK, [Next]_vars PROVE TypeOK'
  OBVIOUS
<1>1. CASE Write \/ WriteBatch \/ Sync \/ Stop
  BY <1>1, WriteAppends, WriteBatchAppends, SyncAppends, AppendsTypeOK
<1>2. CASE Crash
  BY <1>2, CrashTypeOK
<1>3. CASE Recover
  <2>1. log' \in Log
    BY <1>3, RecoverLog
  <2>2. entrySeq' \in Nat /\ pending' \subseteq Entry
    BY <1>3 DEF Recover, RecoveredSeq, RecoveredEntries, TypeOK, Log, Entry
  <2> QED
    BY <1>3, <2>1, <2>2 DEF Recover, TypeOK, ghosts
<1>4. CASE \E c \in Ckpts : Checkpoint(c)
  BY <1>4, CheckpointTypeOK
<1>5. CASE UNCHANGED vars
  BY <1>5 DEF TypeOK, vars
<1> QED
  BY <1>1, <1>2, <1>3, <1>4, <1>5 DEF Next

LEMMA InitTypeOK == Init => TypeOK
BY DEF Init, TypeOK, Log, CkptState, Idle

\* The WAL's variables keep their types in every behaviour.
THEOREM TypeCorrect == Spec => []TypeOK
<1>1. Init => TypeOK
  BY InitTypeOK
<1>2. TypeOK /\ [Next]_vars => TypeOK'
  BY NextTypeOK
<1> QED
  BY <1>1, <1>2, PTL DEF Spec

-----------------------------------------------------------------------------
(***************************************************************************)
(* Safety.  NothingDroppedUnapplied and DurableUntilApplied are not        *)
(* inductive: whether a checkpoint may drop an entry depends on what its   *)
(* copy holds, and whether it may delete a segment on where the entries    *)
(* outside the copy were written.  IInv adds that.                         *)
(***************************************************************************)

\* Names and sequence numbers in use are below the counters.
Numbered ==
    /\ \A e \in acked : e.val < nextVal
    /\ mode # "down" =>
         \A e \in log.disk \cup log.buf \cup pending : e.seq <= entrySeq

\* Without a process there is neither a buffer nor a running checkpoint.
DownIsEmpty ==
    mode = "down" => log.buf = {} /\ \A c \in Ckpts : ck[c].pc = "idle"

LogShape == log.files \subseteq 0 .. log.seg /\ log.synced \subseteq log.disk

\* A running checkpoint c: a pending entry outside the copy comes after all
\* of it, and an acknowledged entry of the log outside the copy is applied or
\* in a segment that was current when the copy was taken, or newer.
CopyCovers(c) ==
    /\ \A s \in ck[c].snap : s.seq <= entrySeq
    /\ \A p \in pending : p \in ck[c].snap \/ \A s \in ck[c].snap : p.seq > s.seq
    /\ \A e \in acked \cap (log.disk \cup log.buf) :
         e \in applied \cup ck[c].snap \/ e.seg >= ck[c].seg
    /\ ck[c].seg <= log.seg /\ log.seg - ck[c].seg <= RotationLag
    /\ ck[c].pc \in {"applied", "cleared"} => ck[c].snap \subseteq applied

IInv ==
    /\ TypeOK
    /\ Numbered
    /\ DownIsEmpty
    /\ LogShape
    /\ \A c \in Ckpts : ck[c].pc # "idle" => CopyCovers(c)
    /\ NothingDroppedUnapplied
    /\ LogIsPending
    /\ durable \subseteq acked
    /\ RotationLag < MaxSegments => DurableUntilApplied

\* A segment that cleanOldSegments deletes is at least MaxSegments behind.
LEMMA OldSegmentsAreOld ==
    ASSUME TypeOK, LogShape, NEW s \in OldSegments(log)
    PROVE  s \in Nat /\ log.seg - s >= MaxSegments
<1> USE WALAssumption
<1> DEFINE newer == {t \in log.files : t > s}
<1>1. log.seg \in Nat /\ s \in Nat /\ log.files \subseteq Nat /\ s <= log.seg
  BY DEF TypeOK, Log, OldSegments, LogShape
<1>2. newer \subseteq (s + 1) .. log.seg
  BY <1>1 DEF LogShape
<1>3. /\ IsFiniteSet((s + 1) .. log.seg)
      /\ Cardinality((s + 1) .. log.seg) = log.seg - s
  <2> DEFINE a == s + 1
             b == log.seg
  <2>1. a \in Int /\ b \in Int /\ a <= b + 1 /\ b - a + 1 = log.seg - s
    BY <1>1
  <2> HIDE DEF a, b
  <2>2. /\ IsFiniteSet(a .. b)
        /\ Cardinality(a .. b) = IF a > b THEN 0 ELSE b - a + 1
    BY <2>1, FS_Interval
  <2>3. Cardinality(a .. b) = b - a + 1
    BY <2>1, <2>2
  <2> QED
    BY <2>1, <2>2, <2>3 DEF a, b
<1>4. Cardinality(newer) <= log.seg - s /\ IsFiniteSet(newer)
  BY <1>2, <1>3, FS_Subset
<1>5. Cardinality(newer) >= MaxSegments
  BY DEF OldSegments
<1>6. Cardinality(newer) \in Nat
  BY <1>4, FS_CardinalityType
<1> HIDE DEF newer
<1> QED
  BY <1>1, <1>4, <1>5, <1>6

\* Writers, the sync worker and Stop.
LEMMA AppendsIInv ==
    ASSUME IInv, NEW new, Appends(new) PROVE IInv'
<1> USE WALAssumption
<1>1. TypeOK'
  BY AppendsTypeOK DEF IInv
<1>2. /\ mode # "down" /\ mode' # "down" /\ log \in Log /\ log' \in Log
      /\ entrySeq \in Nat /\ entrySeq' \in Nat /\ entrySeq <= entrySeq'
      /\ nextVal \in Nat /\ nextVal' \in Nat /\ nextVal <= nextVal'
      /\ ck' = ck /\ applied' = applied /\ cleared' = cleared
  BY DEF Appends, IInv, TypeOK, Extends
<1>3. /\ new \subseteq Entry
      /\ \A e \in new : /\ entrySeq < e.seq /\ e.seq <= entrySeq'
                        /\ nextVal <= e.val /\ e.val < nextVal'
                        /\ e.seg = log.seg
  BY DEF Appends
<1>4. /\ log.disk \subseteq log'.disk /\ log.synced \subseteq log'.synced
      /\ log'.disk \cup log'.buf \subseteq log.disk \cup log.buf \cup new
      /\ log'.synced \subseteq log.synced \cup log'.disk
      /\ log'.files \subseteq log.files \cup (log.seg + 1 .. log'.seg)
      /\ log.seg \in Nat /\ log'.seg \in Nat /\ log.seg <= log'.seg
  BY <1>2 DEF Appends, Extends, Log
<1>5. \/ pending' = pending /\ acked' = acked
      \/ pending' = pending \cup new /\ acked' = acked \cup new
  BY DEF Appends
<1>6. /\ \A e \in log.disk \cup log.buf \cup pending : e \in Entry /\ e.seq \in Nat
      /\ \A e \in acked : e \in Entry /\ e.val \in Nat
      /\ \A e \in new : e.seq \in Nat /\ e.val \in Nat
  BY <1>3 DEF IInv, TypeOK, Log, Entry
<1>7. /\ \A e \in acked : e.val < nextVal
      /\ \A e \in log.disk \cup log.buf \cup pending : e.seq <= entrySeq
  BY <1>2 DEF IInv, Numbered
<1>8. Numbered'
  <2>1. \A e \in acked' : e.val < nextVal'
    BY <1>2, <1>3, <1>5, <1>6, <1>7
  <2>2. \A e \in log'.disk \cup log'.buf \cup pending' : e.seq <= entrySeq'
    BY <1>2, <1>3, <1>4, <1>5, <1>6, <1>7
  <2> QED
    BY <2>1, <2>2 DEF Numbered
<1>9. DownIsEmpty'
  BY <1>2 DEF DownIsEmpty
<1>10. LogShape'
  <2>1. log.files \subseteq 0 .. log.seg /\ log.synced \subseteq log.disk
    BY DEF IInv, LogShape
  <2>2. log'.files \subseteq 0 .. log'.seg
    BY <1>4, <2>1
  <2>3. log'.synced \subseteq log'.disk
    BY <1>4, <2>1
  <2> QED
    BY <2>2, <2>3 DEF LogShape
<1>11. new \cap acked = {}
  BY <1>3, <1>6, <1>7, <1>2
<1>12. LogIsPending'
  <2>1. acked \cap (log.disk \cup log.buf) \subseteq pending \cup applied
    BY <1>2 DEF IInv, LogIsPending
  <2>2. acked' \cap (log'.disk \cup log'.buf) \subseteq pending' \cup applied'
    BY <1>2, <1>4, <1>5, <1>11, <2>1
  <2> QED
    BY <2>2 DEF LogIsPending
<1>13. ASSUME NEW c \in Ckpts, ck'[c].pc # "idle" PROVE CopyCovers(c)'
  <2>1. CopyCovers(c)
    BY <1>2, <1>13 DEF IInv
  <2>2. ck[c].snap \subseteq Entry /\ ck[c].seg \in Nat
    BY DEF IInv, TypeOK, CkptState
  <2>3. \A s \in ck[c].snap : s.seq \in Nat /\ s.seq <= entrySeq
    BY <2>1, <2>2 DEF CopyCovers, Entry
  <2>4. \A s \in ck'[c].snap : s.seq <= entrySeq'
    BY <1>2, <2>3
  <2>5. \A p \in pending' :
          p \in ck'[c].snap \/ \A s \in ck'[c].snap : p.seq > s.seq
    <3>1. \A p \in pending :
            p \in ck[c].snap \/ \A s \in ck[c].snap : p.seq > s.seq
      BY <2>1 DEF CopyCovers
    <3>2. \A p \in new : \A s \in ck[c].snap : p.seq > s.seq
      BY <1>2, <1>3, <1>6, <2>3
    <3> QED
      BY <1>2, <1>5, <3>1, <3>2
  <2>6. \A e \in acked' \cap (log'.disk \cup log'.buf) :
          e \in applied' \cup ck'[c].snap \/ e.seg >= ck'[c].seg
    <3>1. \A e \in acked \cap (log.disk \cup log.buf) :
            e \in applied \cup ck[c].snap \/ e.seg >= ck[c].seg
      BY <2>1 DEF CopyCovers
    <3>2. \A e \in new : e.seg >= ck[c].seg
      BY <1>3, <1>4, <2>1, <2>2 DEF CopyCovers
    <3> QED
      BY <1>2, <1>4, <1>5, <1>11, <3>1, <3>2
  <2>7. ck'[c].seg <= log'.seg /\ log'.seg - ck'[c].seg <= RotationLag
    <3>1. ck[c].seg <= log.seg /\ log.seg - ck[c].seg <= RotationLag
      BY <2>1 DEF CopyCovers
    <3>2. LagBounded \/ log'.seg = log.seg
      BY DEF Appends
    <3>3. log'.seg - ck[c].seg <= RotationLag
      BY <1>2, <1>13, <3>1, <3>2 DEF LagBounded
    <3> QED
      BY <1>2, <1>4, <2>2, <3>1, <3>3
  <2>8. ck'[c].pc \in {"applied", "cleared"} => ck'[c].snap \subseteq applied'
    BY <1>2, <2>1 DEF CopyCovers
  <2> QED
    BY <2>4, <2>5, <2>6, <2>7, <2>8 DEF CopyCovers
<1>14. NothingDroppedUnapplied'
  BY <1>2 DEF IInv, NothingDroppedUnapplied
<1>15. durable' \subseteq acked' /\ (RotationLag < MaxSegments => DurableUntilApplied')
  <2>1. durable' = durable \cup (acked' \cap log'.synced)
    BY DEF Appends, NoteDurable
  <2>2. /\ durable \subseteq acked
        /\ RotationLag < MaxSegments => durable \subseteq applied \cup log.synced
    BY DEF IInv, DurableUntilApplied
  <2>3. acked \subseteq acked'
    BY <1>5
  <2> QED
    BY <1>2, <1>4, <2>1, <2>2, <2>3 DEF DurableUntilApplied
<1> QED
  BY <1>1, <1>8, <1>9, <1>10, <1>12, <1>13, <1>14, <1>15 DEF IInv

\* A checkpoint step that changes neither the log nor pending, acked or
\* durable, whose applied only grows, and after which c's copy is covered,
\* keeps the invariant: the other checkpoints are not disturbed.
LEMMA QuietCheckpoint ==
    ASSUME IInv, TypeOK', NEW c \in Ckpts,
           UNCHANGED <<mode, entrySeq, log, pending, nextVal, acked, durable,
                       cleared>>,
           mode # "down", applied \subseteq applied',
           \A d \in Ckpts \ {c} : ck'[d] = ck[d],
           ck'[c].pc # "idle" => CopyCovers(c)'
    PROVE  IInv'
<1>1. Numbered' /\ DownIsEmpty' /\ LogShape'
  BY DEF IInv, Numbered, DownIsEmpty, LogShape
<1>2. ASSUME NEW d \in Ckpts, ck'[d].pc # "idle" PROVE CopyCovers(d)'
  BY <1>2 DEF IInv, CopyCovers
<1>3. NothingDroppedUnapplied' /\ LogIsPending' /\ durable' \subseteq acked'
      /\ (RotationLag < MaxSegments => DurableUntilApplied')
  BY DEF IInv, NothingDroppedUnapplied, LogIsPending, DurableUntilApplied
<1> QED
  BY <1>1, <1>2, <1>3 DEF IInv

LEMMA CheckpointIInv ==
    ASSUME IInv, NEW c \in Ckpts, Checkpoint(c),
           HasCallback
    PROVE  IInv'
<1> USE WALAssumption
<1>1. TypeOK /\ TypeOK'
  BY CheckpointTypeOK DEF IInv
<1>2. ck \in [Ckpts -> CkptState] /\ ck[c] \in CkptState /\ log.seg \in Nat
  BY <1>1 DEF TypeOK, Log
<1>3. CASE CkptCopy(c)
  <2>1. /\ ck'[c] = [pc |-> "copied", snap |-> pending, seg |-> log.seg]
        /\ \A d \in Ckpts \ {c} : ck'[d] = ck[d]
    BY <1>2, <1>3 DEF CkptCopy
  <2>2. /\ mode # "down" /\ applied' = applied
        /\ UNCHANGED <<mode, entrySeq, log, pending, nextVal, acked, durable,
                       cleared>>
    BY <1>3 DEF CkptCopy, ghosts
  <2>3. \A s \in pending : s.seq <= entrySeq
    BY <2>2 DEF IInv, Numbered
  <2>4. \A e \in acked \cap (log.disk \cup log.buf) : e \in applied \cup pending
    BY <2>2 DEF IInv, LogIsPending
  <2>5. CopyCovers(c)'
    BY <1>2, <2>1, <2>2, <2>3, <2>4 DEF CopyCovers
  <2> QED
    BY <1>1, <2>1, <2>2, <2>5, QuietCheckpoint
<1>4. ck[c].pc # "idle" => mode # "down" /\ CopyCovers(c)
  BY DEF IInv, DownIsEmpty
<1>5. CASE CkptApply(c)
  <2>1. /\ ck'[c] = [ck[c] EXCEPT !.pc = "applied"]
        /\ \A d \in Ckpts \ {c} : ck'[d] = ck[d]
    BY <1>2, <1>5 DEF CkptApply
  <2>2. ck'[c].snap = ck[c].snap /\ ck'[c].seg = ck[c].seg
    BY <1>2, <2>1 DEF CkptState
  <2>3. /\ applied' = applied \cup ck[c].snap
        /\ UNCHANGED <<mode, entrySeq, log, pending, nextVal, acked, durable,
                       cleared>>
    BY <1>5 DEF CkptApply
  <2>4. mode # "down" /\ CopyCovers(c)
    BY <1>4, <1>5 DEF CkptApply
  <2>5. CopyCovers(c)'
    BY <2>2, <2>3, <2>4 DEF CopyCovers
  <2> QED
    BY <1>1, <2>1, <2>3, <2>4, <2>5, QuietCheckpoint
<1>6. CASE CkptApplyFails(c)
  <2>1. /\ ck'[c].pc = "idle"
        /\ \A d \in Ckpts \ {c} : ck'[d] = ck[d]
    BY <1>2, <1>6 DEF CkptApplyFails, Idle
  <2>2. /\ applied \subseteq applied'
        /\ UNCHANGED <<mode, entrySeq, log, pending, nextVal, acked, durable,
                       cleared>>
    BY <1>6 DEF CkptApplyFails
  <2>3. mode # "down"
    BY <1>4, <1>6 DEF CkptApplyFails
  <2> QED
    BY <1>1, <2>1, <2>2, <2>3, QuietCheckpoint
<1>7. CASE CkptClear(c)
  <2>1. /\ ck'[c] = [ck[c] EXCEPT !.pc = "cleared"]
        /\ \A d \in Ckpts \ {c} : ck'[d] = ck[d]
    BY <1>2, <1>7 DEF CkptClear
  <2>2. ck'[c].snap = ck[c].snap /\ ck'[c].seg = ck[c].seg
    BY <1>2, <2>1 DEF CkptState
  <2>3. /\ pending' = After(ck[c].snap)
        /\ cleared' = cleared \cup (pending \ pending')
        /\ UNCHANGED <<mode, entrySeq, log, nextVal, acked, durable, applied>>
        /\ ck[c].pc = "applied"
    BY <1>7 DEF CkptClear
  <2>4. mode # "down" /\ CopyCovers(c) /\ ck[c].snap \subseteq applied
    BY <1>4, <2>3 DEF CopyCovers
  <2>5. pending' \subseteq pending
    BY <2>3 DEF After
  <2>6. pending \ pending' \subseteq applied
    \* what the sequence comparison drops was in the copy
    <3> SUFFICES ASSUME NEW p \in pending, p \notin pending'
                 PROVE  p \in ck[c].snap
      BY <2>4
    <3> QED
      BY <2>3, <2>4 DEF CopyCovers, After
  <2>7. NothingDroppedUnapplied'
    BY <2>3, <2>6 DEF IInv, NothingDroppedUnapplied
  <2>8. LogIsPending'
    BY <2>3, <2>4, <2>6 DEF IInv, LogIsPending
  <2>9. ASSUME NEW d \in Ckpts, ck'[d].pc # "idle" PROVE CopyCovers(d)'
    <3>1. CopyCovers(d) /\ ck'[d].snap = ck[d].snap /\ ck'[d].seg = ck[d].seg
      BY <2>1, <2>2, <2>4, <2>9 DEF IInv
    <3>2. ck'[d].pc \in {"applied", "cleared"} => ck'[d].snap \subseteq applied'
      BY <2>1, <2>3, <2>4, <3>1 DEF CopyCovers
    <3> QED
      BY <2>3, <2>5, <3>1, <3>2 DEF CopyCovers
  <2>10. Numbered' /\ DownIsEmpty' /\ LogShape'
    BY <2>3, <2>4, <2>5 DEF IInv, Numbered, DownIsEmpty, LogShape
  <2>11. durable' \subseteq acked' /\ (RotationLag < MaxSegments => DurableUntilApplied')
    BY <2>3 DEF IInv, DurableUntilApplied
  <2> QED
    BY <1>1, <2>7, <2>8, <2>9, <2>10, <2>11 DEF IInv
<1>8. CASE CkptClean(c)
  <2>1. /\ ck'[c].pc = "idle"
        /\ \A d \in Ckpts \ {c} : ck'[d] = ck[d]
    BY <1>2, <1>8 DEF CkptClean, Idle
  <2>2. /\ ck[c].pc = "cleared"
        /\ UNCHANGED <<mode, entrySeq, pending, nextVal, acked, durable,
                       applied, cleared>>
    BY <1>8 DEF CkptClean, ghosts
  <2>3. mode # "down" /\ CopyCovers(c) /\ ck[c].snap \subseteq applied
    BY <1>4, <2>2 DEF CopyCovers
  <2>4. PICK gone \in SUBSET OldSegments(log) : log' = RemoveFiles(log, gone)
    BY <1>8 DEF CkptClean
  <2>5. /\ log'.seg = log.seg /\ log'.buf = log.buf
        /\ log'.files = log.files \ gone
        /\ log'.disk = {e \in log.disk : e.seg \notin gone}
        /\ log'.synced = {e \in log.synced : e.seg \notin gone}
    BY <1>1, <2>4, RemoveFilesLog DEF TypeOK
  <2>6. ASSUME RotationLag < MaxSegments PROVE DurableUntilApplied'
    \* an entry outside the copy is in one of the last RotationLag segments
    <3> SUFFICES ASSUME NEW e \in durable, e \notin applied
                 PROVE  e \in log'.synced
      BY <2>2 DEF DurableUntilApplied
    <3>1. e \in log.synced /\ e \in log.disk /\ e \in acked
      BY <2>6 DEF IInv, DurableUntilApplied, LogShape
    <3>2. e.seg >= ck[c].seg /\ log.seg - ck[c].seg <= RotationLag
      BY <2>3, <3>1 DEF CopyCovers
    <3>3. e.seg \in Nat /\ ck[c].seg \in Nat
      BY <1>1, <1>2 DEF TypeOK, Entry, CkptState
    <3>4. ~(log.seg - e.seg >= MaxSegments)
      BY <1>2, <2>6, <3>2, <3>3
    <3>5. e.seg \notin OldSegments(log)
      BY <1>1, <3>4, OldSegmentsAreOld DEF IInv
    <3> QED
      BY <2>4, <2>5, <3>1, <3>5
  <2>7. Numbered' /\ DownIsEmpty' /\ LogShape'
    BY <2>2, <2>3, <2>5 DEF IInv, Numbered, DownIsEmpty, LogShape
  <2>8. ASSUME NEW d \in Ckpts, ck'[d].pc # "idle" PROVE CopyCovers(d)'
    <3>1. CopyCovers(d) /\ ck'[d] = ck[d]
      BY <2>1, <2>8 DEF IInv
    <3> QED
      BY <2>2, <2>5, <3>1 DEF CopyCovers
  <2>9. LogIsPending'
    BY <2>2, <2>3, <2>5 DEF IInv, LogIsPending
  <2>10. NothingDroppedUnapplied' /\ durable' \subseteq acked'
    BY <2>2 DEF IInv, NothingDroppedUnapplied
  <2> QED
    BY <1>1, <2>6, <2>7, <2>8, <2>9, <2>10 DEF IInv
<1> QED
  BY <1>3, <1>5, <1>6, <1>7, <1>8 DEF Checkpoint

\* A crash keeps the synced entries; only they are needed.
LEMMA CrashIInv == ASSUME IInv, Crash PROVE IInv'
<1>1. TypeOK /\ TypeOK'
  BY CrashTypeOK DEF IInv
<1>2. PICK kept \in Survivors :
        log' = [log EXCEPT !.open = FALSE, !.buf = {}, !.bad = FALSE,
                           !.disk = kept, !.synced = kept]
  BY DEF Crash
<1>3. /\ log'.seg = log.seg /\ log'.files = log.files /\ log'.buf = {}
      /\ log'.disk = kept /\ log'.synced = kept
  BY <1>1, <1>2 DEF TypeOK, Log
<1>4. log.synced \subseteq kept
  BY DEF Survivors
<1>5. /\ mode' = "down" /\ pending' = {}
      /\ \A c \in Ckpts : ck'[c].pc = "idle"
      /\ UNCHANGED <<nextVal, acked, durable, applied, cleared>>
  BY DEF Crash, Idle
<1>6. Numbered' /\ DownIsEmpty' /\ LogShape'
  BY <1>3, <1>5 DEF IInv, Numbered, DownIsEmpty, LogShape
<1>7. NothingDroppedUnapplied' /\ LogIsPending' /\ durable' \subseteq acked'
      /\ (RotationLag < MaxSegments => DurableUntilApplied')
  BY <1>3, <1>4, <1>5
  DEF IInv, NothingDroppedUnapplied, LogIsPending, DurableUntilApplied
<1> QED
  BY <1>1, <1>5, <1>6, <1>7 DEF IInv

\* Recovery makes every entry of the log pending again.
LEMMA RecoverIInv == ASSUME IInv, Recover PROVE IInv'
<1>1. TypeOK /\ TypeOK'
  BY NextTypeOK DEF IInv, Next
<1>2. PICK m \in RecoveredSeg :
        /\ log'.seg = m + 1 /\ log'.buf = {}
        /\ log'.files = log.files \cup {m + 1}
        /\ log'.disk = log.disk /\ log'.synced = log.synced
  BY <1>1, RecoverLog
<1>3. /\ m \in Nat /\ log.files \subseteq Nat
      /\ \A f \in log.files : f <= m
  BY <1>1 DEF RecoveredSeg, TypeOK, Log
<1>4. /\ mode = "down" /\ mode' = "run" /\ pending' = log.disk
      /\ entrySeq' \in RecoveredSeq
      /\ UNCHANGED <<ck, nextVal, acked, durable, applied, cleared>>
  BY DEF Recover, ghosts, RecoveredEntries
<1>5. Numbered'
  BY <1>2, <1>4 DEF IInv, Numbered, RecoveredSeq
<1>6. log'.files \subseteq 0 .. log'.seg
  BY <1>2, <1>3
<1>7. DownIsEmpty' /\ LogShape'
  BY <1>2, <1>4, <1>6 DEF IInv, DownIsEmpty, LogShape
<1>8. \A c \in Ckpts : ck'[c].pc = "idle"
  BY <1>4 DEF IInv, DownIsEmpty
<1>9. NothingDroppedUnapplied' /\ LogIsPending' /\ durable' \subseteq acked'
      /\ (RotationLag < MaxSegments => DurableUntilApplied')
  BY <1>2, <1>4
  DEF IInv, NothingDroppedUnapplied, LogIsPending, DurableUntilApplied
<1> QED
  BY <1>1, <1>5, <1>7, <1>8, <1>9 DEF IInv

LEMMA InitIInv == Init => IInv
BY InitTypeOK DEF Init, IInv, Numbered, DownIsEmpty, LogShape, Idle,
   NothingDroppedUnapplied, LogIsPending, DurableUntilApplied

LEMMA NextIInv ==
    ASSUME HasCallback
    PROVE  IInv /\ [Next]_vars => IInv'
<1> SUFFICES ASSUME IInv, [Next]_vars PROVE IInv'
  OBVIOUS
<1>1. CASE Write \/ WriteBatch \/ Sync \/ Stop
  BY <1>1, WriteAppends, WriteBatchAppends, SyncAppends, AppendsIInv DEF IInv
<1>2. CASE Crash
  BY <1>2, CrashIInv
<1>3. CASE Recover
  BY <1>3, RecoverIInv
<1>4. CASE \E c \in Ckpts : Checkpoint(c)
  BY <1>4, CheckpointIInv
<1>5. CASE UNCHANGED vars
  BY <1>5, NextTypeOK
  DEF vars, IInv, TypeOK, Numbered, DownIsEmpty, LogShape, CopyCovers,
      NothingDroppedUnapplied, LogIsPending, DurableUntilApplied
<1> QED
  BY <1>1, <1>2, <1>3, <1>4, <1>5 DEF Next

LEMMA AlwaysIInv ==
    ASSUME HasCallback PROVE Spec => []IInv
<1>1. Init => IInv
  BY InitIInv
<1>2. IInv /\ [Next]_vars => IInv'
  BY NextIInv
<1> QED
  BY <1>1, <1>2, PTL DEF Spec

\* With a callback, and as long as fewer than MaxSegments segments fill up
\* during one checkpoint, no crash and no cleanOldSegments loses a synced
\* entry that is not applied.
THEOREM NoEntryLost ==
    ASSUME HasCallback, RotationLag < MaxSegments
    PROVE  Spec => []DurableUntilApplied
<1>1. IInv => DurableUntilApplied
  BY DEF IInv
<1> QED
  BY <1>1, AlwaysIInv, PTL

\* With a callback, however many checkpoints overlap, whatever is written
\* meanwhile and however many segments fill up, checkpoint() drops no entry
\* from pending that was not applied.
THEOREM NoEntryDropped ==
    ASSUME HasCallback
    PROVE  Spec => []NothingDroppedUnapplied
<1>1. IInv => NothingDroppedUnapplied
  BY DEF IInv
<1> QED
  BY <1>1, AlwaysIInv, PTL

\* With a callback, across crashes, recoveries and failing rotations, the
\* acknowledged entries of the log that are not applied stay in pending.
THEOREM LogStaysPending ==
    ASSUME HasCallback
    PROVE  Spec => []LogIsPending
<1>1. IInv => LogIsPending
  BY DEF IInv
<1> QED
  BY <1>1, AlwaysIInv, PTL

-----------------------------------------------------------------------------
(***************************************************************************)
(* SequenceOrdersLog.  New entries get the highest number and go to the    *)
(* highest segment; a restart finds both from what is in the directory,    *)
(* which needs every entry on disk to be in a file that is listed there.   *)
(***************************************************************************)

\* Entries on disk are in a file of the directory; while a segment is open it
\* is one of them, and the buffer is for it.
Placed(l) ==
    /\ \A e \in l.disk : e.seg \in l.files
    /\ l.open => l.seg \in l.files /\ \A e \in l.buf : e.seg = l.seg

Ordered ==
    /\ LogShape
    /\ Placed(log)
    /\ mode # "down" => \A e \in log.disk \cup log.buf \cup pending :
                           e.seq <= entrySeq /\ e.seg <= log.seg
    /\ mode = "down" => log.buf = {} /\ pending = {}
    /\ SequenceOrdersLog

LEMMA FlushPlaced ==
    ASSUME NEW l \in Log, Placed(l), NEW F, NEW cut \in Int
    PROVE  Placed(Flush(l, F, cut))
<1> DEFINE out == {e \in l.buf : l.open /\ e.seq <= cut}
<1>1. \/ Flush(l, F, cut) = l
      \/ Flush(l, F, cut) = [l EXCEPT !.disk = @ \cup l.buf, !.buf = {}] /\ l.open
      \/ Flush(l, F, cut) = [l EXCEPT !.disk = @ \cup out, !.buf = @ \ out,
                                      !.bad = TRUE]
  BY DEF Flush
<1>2. out \subseteq l.buf /\ \A e \in out : l.open
  OBVIOUS
<1> HIDE DEF out
<1>3. CASE Flush(l, F, cut) = l
  BY <1>3
<1>4. CASE Flush(l, F, cut) = [l EXCEPT !.disk = @ \cup l.buf, !.buf = {}] /\ l.open
  <2> DEFINE g == Flush(l, F, cut)
  <2>1. /\ g.seg = l.seg /\ g.files = l.files /\ g.open = l.open
        /\ g.disk = l.disk \cup l.buf /\ g.buf = {}
    BY <1>4 DEF Log
  <2> HIDE DEF g
  <2>2. Placed(g)
    BY <1>4, <2>1 DEF Placed
  <2> QED
    BY <2>2 DEF g
<1>5. CASE Flush(l, F, cut) = [l EXCEPT !.disk = @ \cup out, !.buf = @ \ out,
                                        !.bad = TRUE]
  <2> DEFINE g == Flush(l, F, cut)
  <2>1. /\ g.seg = l.seg /\ g.files = l.files /\ g.open = l.open
        /\ g.disk = l.disk \cup out /\ g.buf = l.buf \ out
    BY <1>5 DEF Log
  <2> HIDE DEF g
  <2>2. Placed(g)
    BY <1>2, <2>1 DEF Placed
  <2> QED
    BY <2>2 DEF g
<1> QED
  BY <1>1, <1>3, <1>4, <1>5

LEMMA FsyncPlaced ==
    ASSUME NEW l \in Log, Placed(l), NEW F PROVE Placed(Fsync(l, F))
BY DEF Placed, Fsync, Log

LEMMA SyncLogPlaced ==
    ASSUME NEW l \in Log, Placed(l), NEW F, NEW cut \in Int
    PROVE  Placed(SyncLog(l, F, cut)) /\ Placed(CloseSegment(l, F, cut))
<1> DEFINE g == Flush(l, F, cut)
           h == Fsync(g, F)
<1>1. Placed(g) /\ g \in Log
  BY FlushPlaced, FlushExtends DEF Extends
<1>2. Placed(h) /\ h \in Log
  BY <1>1, FsyncPlaced, FsyncExtends DEF Extends
<1>3. CloseSegment(l, F, cut) = [h EXCEPT !.open = FALSE]
  BY DEF CloseSegment
<1>4. SyncLog(l, F, cut) \in {g, h}
  BY DEF SyncLog
<1> HIDE DEF g, h
<1>5. Placed([h EXCEPT !.open = FALSE])
  BY <1>2 DEF Placed, Log
<1> QED
  BY <1>1, <1>2, <1>3, <1>4, <1>5

LEMMA RotatePlaced ==
    ASSUME NEW l \in Log, Placed(l), NEW F, NEW cut \in Int
    PROVE  Placed(RotateIfFull(l, F, cut))
<1> DEFINE g == CloseSegment(l, F, cut)
           a == [g EXCEPT !.seg = @ + 1]
           b == [g EXCEPT !.seg = @ + 1, !.open = TRUE, !.buf = {},
                          !.bad = FALSE, !.files = @ \cup {g.seg + 1}]
<1>1. Placed(g) /\ g \in Log
  BY SyncLogPlaced, CloseSegmentExtends DEF Extends
<1>2. g.open = FALSE
  <2> DEFINE h == Fsync(Flush(l, F, cut), F)
  <2>1. h \in Log
    <3>1. Flush(l, F, cut) \in Log
      BY FlushExtends DEF Extends
    <3> QED
      BY <3>1, FsyncExtends DEF Extends
  <2>2. g = [h EXCEPT !.open = FALSE]
    BY DEF CloseSegment
  <2> HIDE DEF g, h
  <2> QED
    BY <2>1, <2>2 DEF Log
<1>3. RotateIfFull(l, F, cut) \in {l, a, b}
  BY DEF RotateIfFull, rotateSegment, openNextSegment
<1> HIDE DEF g
<1>4. Placed(a)
  <2>1. a.open = FALSE /\ a.disk = g.disk /\ a.files = g.files
    BY <1>1, <1>2 DEF Log
  <2> HIDE DEF a
  <2> QED
    BY <1>1, <2>1 DEF Placed
<1>5. Placed(b)
  <2>1. /\ b.disk = g.disk /\ b.files = g.files \cup {g.seg + 1}
        /\ b.buf = {} /\ b.seg = g.seg + 1
    BY <1>1 DEF Log
  <2> HIDE DEF b
  <2> QED
    BY <1>1, <2>1 DEF Placed
<1> HIDE DEF a, b
<1> QED
  BY <1>3, <1>4, <1>5

LEMMA WriteEntryPlaced ==
    ASSUME NEW l \in Log, Placed(l), NEW e \in Entry, e.seg = l.seg, NEW F, NEW cut \in Int
    PROVE  Placed(writeEntry(l, e, F, cut))
<1> DEFINE g == IF Cardinality(l.buf) < BufCap THEN l ELSE Flush(l, F, cut)
<1>1. g \in Log /\ Placed(g) /\ g.seg = l.seg
  BY FlushPlaced, FlushExtends DEF Extends
<1>2. writeEntry(l, e, F, cut) \in {l, g, [g EXCEPT !.buf = @ \cup {e}]}
  BY DEF writeEntry
<1> HIDE DEF g
<1>3. Placed([g EXCEPT !.buf = @ \cup {e}])
  BY <1>1 DEF Placed, Log
<1> QED
  BY <1>1, <1>2, <1>3

LEMMA WritePlaced ==
    ASSUME TypeOK, Placed(log), Write \/ WriteBatch \/ Sync \/ Stop
    PROVE  Placed(log)'
<1> SUFFICES Placed(log')
  BY DEF Placed
<1>0. log \in Log /\ entrySeq \in Nat
  BY DEF TypeOK
<1>e. PICK e1, e2 :
        /\ e1 = NewEntry(1, nextVal) /\ e1 \in Entry /\ e1.seg = log.seg
        /\ e2 = NewEntry(2, nextVal) /\ e2 \in Entry /\ e2.seg = log.seg
  BY NewEntryType DEF TypeOK
<1>1. CASE Write
  <2>1. PICK F \in SUBSET Faults, cut \in 0 .. entrySeq :
          log' \in {writeEntry(log, e1, F, cut),
                    RotateIfFull(writeEntry(log, e1, F, cut), F, cut)}
    BY <1>1, <1>e DEF Write
  <2>2. PICK g : g = writeEntry(log, e1, F, cut)
    OBVIOUS
  <2>3. cut \in Int /\ Placed(g) /\ g \in Log
    BY <1>0, <1>e, <2>2, WriteEntryPlaced, WriteEntryExtends DEF Extends
  <2> QED
    BY <2>1, <2>2, <2>3, RotatePlaced
<1>2. CASE WriteBatch
  <2>1. PICK F \in SUBSET {"flush"}, cut \in 0 .. entrySeq + 1 :
          log' = writeEntry(writeEntry(log, e1, F, cut), e2, F, cut)
    BY <1>2, <1>e DEF WriteBatch
  <2>2. PICK g : g = writeEntry(log, e1, F, cut)
    OBVIOUS
  <2>3. cut \in Int /\ Placed(g) /\ g \in Log /\ g.seg = log.seg
    BY <1>0, <1>e, <2>2, WriteEntryPlaced, WriteEntryExtends DEF Extends
  <2> QED
    BY <1>e, <2>1, <2>2, <2>3, WriteEntryPlaced
<1>3. CASE Sync
  <2>1. PICK F \in SUBSET {"flush", "fsync"}, cut \in 0 .. entrySeq :
          log' = SyncLog(log, F, cut)
    BY <1>3 DEF Sync
  <2> QED
    BY <1>0, <2>1, SyncLogPlaced
<1>4. CASE Stop
  <2>1. PICK F \in SUBSET {"flush", "fsync"}, cut \in 0 .. entrySeq :
          log' = CloseSegment(log, F, cut)
    BY <1>4 DEF Stop
  <2> QED
    BY <1>0, <2>1, SyncLogPlaced
<1> QED
  BY <1>1, <1>2, <1>3, <1>4

LEMMA AppendsOrdered ==
    ASSUME TypeOK, Ordered, NEW new, Appends(new), Placed(log)'
    PROVE  Ordered'
<1>1. /\ mode # "down" /\ mode' # "down" /\ log \in Log /\ log' \in Log
      /\ entrySeq \in Nat /\ entrySeq' \in Nat /\ entrySeq <= entrySeq'
      /\ log.seg \in Nat /\ log'.seg \in Nat /\ log.seg <= log'.seg
  BY DEF Appends, TypeOK, Extends, Log
<1>2. /\ new \subseteq Entry
      /\ \A e \in new : entrySeq < e.seq /\ e.seq <= entrySeq' /\ e.seg = log.seg
      /\ \A a, b \in new : a.seq = b.seq => a = b
  BY DEF Appends
<1>3. /\ log.disk \subseteq log'.disk /\ log.synced \subseteq log'.synced
      /\ log'.synced \subseteq log.synced \cup log'.disk
      /\ log'.files \subseteq log.files \cup (log.seg + 1 .. log'.seg)
  BY DEF Appends, Extends
<1>4. LogShape'
  <2>1. log.files \subseteq 0 .. log.seg /\ log.synced \subseteq log.disk
    BY DEF Ordered, LogShape
  <2>2. log'.files \subseteq 0 .. log'.seg
    BY <1>1, <1>3, <2>1
  <2> QED
    BY <1>3, <2>1, <2>2 DEF LogShape
<1>5. PICK old : old = log.disk \cup log.buf \cup pending
  OBVIOUS
<1>6. log'.disk \cup log'.buf \cup pending' \subseteq old \cup new
  BY <1>5 DEF Appends, Extends
<1>7. /\ \A e \in old \cup new : e.seq \in Nat /\ e.seg \in Nat
      /\ \A e \in old : e.seq <= entrySeq /\ e.seg <= log.seg
      /\ \A a, b \in old : (a.seq = b.seq => a = b) /\ (a.seg < b.seg => a.seq < b.seq)
  <2>1. old \subseteq Entry
    BY <1>1, <1>5 DEF TypeOK, Log
  <2> QED
    BY <1>1, <1>2, <1>5, <2>1 DEF Ordered, SequenceOrdersLog, Entry
<1>8. \A e \in old \cup new : e.seq <= entrySeq' /\ e.seg <= log'.seg
  BY <1>1, <1>2, <1>7
<1>9. \A a, b \in old \cup new : (a.seq = b.seq => a = b) /\ (a.seg < b.seg => a.seq < b.seq)
  <2>1. \A a \in old, b \in new : a.seq < b.seq /\ a.seg <= b.seg
    BY <1>1, <1>2, <1>7
  <2>2. \A a, b \in new : ~(a.seg < b.seg)
    BY <1>1, <1>2
  <2> QED
    BY <1>2, <1>7, <2>1, <2>2
<1>10. SequenceOrdersLog'
  BY <1>6, <1>9 DEF SequenceOrdersLog
<1> QED
  BY <1>1, <1>4, <1>6, <1>8, <1>10 DEF Ordered

\* Entries and files only go: the order of the others stays.
LEMMA FewerOrdered ==
    ASSUME Ordered, Placed(log)', LogShape', mode' = mode, entrySeq' = entrySeq,
           log'.seg = log.seg, log'.disk \subseteq log.disk, log'.buf \subseteq log.buf,
           pending' \subseteq pending
    PROVE  Ordered'
<1>1. SequenceOrdersLog'
  BY DEF Ordered, SequenceOrdersLog
<1>2. mode' # "down" => \A e \in log'.disk \cup log'.buf \cup pending' :
                           e.seq <= entrySeq' /\ e.seg <= log'.seg
  BY DEF Ordered
<1>3. mode' = "down" => log'.buf = {} /\ pending' = {}
  BY DEF Ordered
<1> QED
  BY <1>1, <1>2, <1>3 DEF Ordered

LEMMA CheckpointOrdered ==
    ASSUME TypeOK, Ordered, NEW c \in Ckpts, Checkpoint(c)
    PROVE  Ordered'
<1>1. CASE CkptClean(c)
  <2>1. PICK gone \in SUBSET OldSegments(log) : log' = RemoveFiles(log, gone)
    BY <1>1 DEF CkptClean
  <2>2. /\ log'.seg = log.seg /\ log'.buf = log.buf
        /\ log'.files = log.files \ gone
        /\ log'.disk = {e \in log.disk : e.seg \notin gone}
        /\ log'.synced = {e \in log.synced : e.seg \notin gone}
    BY <2>1, RemoveFilesLog DEF TypeOK
  <2>3. log'.open = log.open
    BY <2>1 DEF RemoveFiles, TypeOK, Log
  <2>4. LogShape'
    BY <2>2 DEF Ordered, LogShape
  <2>5. log.seg \notin gone
    <3>1. log.seg \in Nat /\ MaxSegments \in Nat \ {0}
      BY WALAssumption DEF TypeOK, Log
    <3>2. log.seg \in OldSegments(log) => log.seg - log.seg >= MaxSegments
      BY OldSegmentsAreOld DEF Ordered
    <3> QED
      BY <3>1, <3>2
  <2>6. Placed(log)'
    BY <2>2, <2>3, <2>5 DEF Ordered, Placed
  <2>7. UNCHANGED <<mode, entrySeq, pending>>
    BY <1>1 DEF CkptClean
  <2> QED
    BY <2>2, <2>4, <2>6, <2>7, FewerOrdered
<1>2. CASE CkptCopy(c) \/ CkptApply(c) \/ CkptApplyFails(c) \/ CkptClear(c)
  <2>1. UNCHANGED <<mode, entrySeq, log>> /\ pending' \subseteq pending
    BY <1>2 DEF CkptCopy, CkptApply, CkptApplyFails, CkptClear, After
  <2>2. Placed(log)' /\ LogShape'
    BY <2>1 DEF Ordered, Placed, LogShape
  <2> QED
    BY <2>1, <2>2, FewerOrdered
<1> QED
  BY <1>1, <1>2 DEF Checkpoint

LEMMA CrashOrdered == ASSUME TypeOK, Ordered, Crash PROVE Ordered'
<1>1. PICK kept \in Survivors :
        log' = [log EXCEPT !.open = FALSE, !.buf = {}, !.bad = FALSE,
                           !.disk = kept, !.synced = kept]
  BY DEF Crash
<1>2. kept \subseteq log.disk
  BY DEF Survivors, Ordered, LogShape
<1>3. /\ log'.seg = log.seg /\ log'.files = log.files /\ log'.buf = {}
      /\ log'.open = FALSE /\ log'.disk = kept /\ log'.synced = kept
  BY <1>1 DEF TypeOK, Log
<1>4. mode' = "down" /\ pending' = {}
  BY DEF Crash
<1>5. LogShape' /\ Placed(log)'
  BY <1>2, <1>3 DEF Ordered, LogShape, Placed
<1>6. SequenceOrdersLog'
  BY <1>2, <1>3, <1>4 DEF Ordered, SequenceOrdersLog
<1> QED
  BY <1>3, <1>4, <1>5, <1>6 DEF Ordered

\* recover() resumes above every entry on disk and every file listed.
LEMMA RecoverOrdered == ASSUME TypeOK, Ordered, Recover PROVE Ordered'
<1>1. PICK m \in RecoveredSeg :
        /\ log'.seg = m + 1 /\ log'.buf = {}
        /\ log'.files = log.files \cup {m + 1}
        /\ log'.disk = log.disk /\ log'.synced = log.synced
  BY RecoverLog
<1>2. /\ m \in Nat /\ log.files \subseteq Nat
      /\ \A f \in log.files : f <= m
  BY DEF RecoveredSeg, TypeOK, Log
<1>3. /\ mode' = "run" /\ pending' = log.disk /\ entrySeq' \in RecoveredSeq
  BY DEF Recover, RecoveredEntries
<1>4. \A e \in log.disk : e.seq <= entrySeq' /\ e.seg <= m + 1
  <2>1. \A e \in log.disk : e.seg \in log.files
    BY DEF Ordered, Placed
  <2> QED
    BY <1>2, <1>3, <2>1 DEF RecoveredSeq
<1>5. LogShape'
  <2>1. log'.files \subseteq 0 .. log'.seg
    BY <1>1, <1>2
  <2> QED
    BY <1>1, <2>1 DEF Ordered, LogShape
<1>6. Placed(log)'
  BY <1>1 DEF Ordered, Placed
<1>7. SequenceOrdersLog'
  BY <1>1, <1>3 DEF Ordered, SequenceOrdersLog
<1> QED
  BY <1>1, <1>3, <1>4, <1>5, <1>6, <1>7 DEF Ordered

LEMMA NextOrdered ==
    TypeOK /\ Ordered /\ [Next]_vars => Ordered'
<1> SUFFICES ASSUME TypeOK, Ordered, [Next]_vars PROVE Ordered'
  OBVIOUS
<1>1. CASE Write \/ WriteBatch \/ Sync \/ Stop
  <2>1. PICK new : Appends(new)
    BY <1>1, WriteAppends, WriteBatchAppends, SyncAppends
  <2>2. Placed(log)'
    BY <1>1, WritePlaced DEF Ordered
  <2> QED
    BY <2>1, <2>2, AppendsOrdered
<1>2. CASE \E c \in Ckpts : Checkpoint(c)
  BY <1>2, CheckpointOrdered
<1>3. CASE Crash
  BY <1>3, CrashOrdered
<1>4. CASE Recover
  BY <1>4, RecoverOrdered
<1>5. CASE UNCHANGED vars
  <2>1. UNCHANGED <<mode, entrySeq, log, pending>>
    BY <1>5 DEF vars
  <2>2. Ordered'
    BY <2>1 DEF Ordered, LogShape, Placed, SequenceOrdersLog
  <2> QED
    BY <2>2
<1> QED
  BY <1>1, <1>2, <1>3, <1>4, <1>5 DEF Next

\* Across crashes, restarts, failing rotations and cleanOldSegments the
\* entries of the log and of pending have distinct sequence numbers, which
\* grow with the segments: checkpoint() may compare with lastSeq, and recover()
\* may read the segments in the order of their numbers.
THEOREM SequenceIsOrder == Spec => []SequenceOrdersLog
<1>1. Init => TypeOK /\ Ordered
  BY InitTypeOK DEF Init, Ordered, LogShape, Placed, SequenceOrdersLog
<1>2. TypeOK /\ Ordered /\ [Next]_vars => (TypeOK /\ Ordered)'
  BY NextTypeOK, NextOrdered
<1>3. Ordered => SequenceOrdersLog
  BY DEF Ordered
<1> QED
  BY <1>1, <1>2, <1>3, PTL DEF Spec

-----------------------------------------------------------------------------
(***************************************************************************)
(* AppliedOncePerRun.  What the callback of this run has applied is not    *)
(* pending again, except between the callback's return and the clearing.   *)
(***************************************************************************)

Once(c) ==
    /\ mode = "down" => runApplied = {} /\ ck[c].pc = "idle"
    /\ mode # "down" => \A e \in runApplied : e.seq <= entrySeq
    /\ ck[c].pc # "applied" => pending \cap runApplied = {}
    /\ ck[c].pc = "applied" => pending \cap runApplied \subseteq ck[c].snap
    /\ ck[c].pc = "copied" =>
         ck[c].snap \cap runApplied = {} /\ \A e \in ck[c].snap : e.seq <= entrySeq

OnceInv == \A c \in Ckpts : Once(c)

LEMMA CheckpointOnce ==
    ASSUME TypeOK, Ordered, NEW c \in Ckpts, Once(c), Checkpoint(c)
    PROVE  Once(c)'
<1>1. ck[c] \in CkptState /\ ck \in [Ckpts -> CkptState]
  BY DEF TypeOK
<1>2. CASE CkptCopy(c)
  <2>1. /\ ck'[c].pc = "copied" /\ ck'[c].snap = pending
        /\ mode # "down" /\ ck[c].pc = "idle"
        /\ UNCHANGED <<mode, entrySeq, pending, runApplied>>
    BY <1>1, <1>2 DEF CkptCopy, ghosts
  <2>2. \A e \in pending : e.seq <= entrySeq
    BY <2>1 DEF Ordered
  <2> QED
    BY <2>1, <2>2 DEF Once
<1>3. CASE CkptApply(c)
  <2>1. /\ ck'[c].pc = "applied" /\ ck'[c].snap = ck[c].snap /\ ck[c].pc = "copied"
        /\ runApplied' \in {runApplied, runApplied \cup ck[c].snap}
        /\ UNCHANGED <<mode, entrySeq, pending>>
    BY <1>1, <1>3 DEF CkptApply, CkptState
  <2> QED
    BY <2>1 DEF Once
<1>4. CASE CkptApplyFails(c)
  <2>1. /\ ck'[c].pc = "idle" /\ ck[c].pc = "copied"
        /\ UNCHANGED <<mode, entrySeq, pending, runApplied>>
    BY <1>1, <1>4 DEF CkptApplyFails, Idle
  <2> QED
    BY <2>1 DEF Once
<1>5. CASE CkptClear(c)
  <2>1. /\ ck'[c].pc = "cleared" /\ ck[c].pc = "applied"
        /\ pending' = After(ck[c].snap)
        /\ UNCHANGED <<mode, entrySeq, runApplied>>
    BY <1>1, <1>5 DEF CkptClear, CkptState
  <2>2. \A e \in pending' : e \in pending /\ e \notin ck[c].snap
    BY <1>1, <2>1 DEF After, CkptState, Entry
  <2> QED
    BY <2>1, <2>2 DEF Once
<1>6. CASE CkptClean(c)
  <2>1. /\ ck'[c].pc = "idle" /\ ck[c].pc = "cleared"
        /\ UNCHANGED <<mode, entrySeq, pending, runApplied>>
    BY <1>1, <1>6 DEF CkptClean, Idle, ghosts
  <2> QED
    BY <2>1 DEF Once
<1> QED
  BY <1>2, <1>3, <1>4, <1>5, <1>6 DEF Checkpoint

LEMMA AppendsOnce ==
    ASSUME TypeOK, NEW c \in Ckpts, Once(c), NEW new, Appends(new)
    PROVE  Once(c)'
<1>1. /\ mode # "down" /\ mode' # "down" /\ UNCHANGED <<ck, runApplied>>
      /\ entrySeq \in Nat /\ entrySeq' \in Nat /\ entrySeq <= entrySeq'
      /\ \A e \in new : e.seq \in Nat /\ entrySeq < e.seq
      /\ pending' \subseteq pending \cup new
  BY DEF Appends, TypeOK, Entry
<1>2. /\ \A e \in runApplied : e.seq \in Nat
      /\ ck[c].pc = "copied" => \A e \in ck[c].snap : e.seq \in Nat
  BY DEF TypeOK, CkptState, Entry
<1>3. new \cap runApplied = {}
  BY <1>1, <1>2 DEF Once
<1> QED
  BY <1>1, <1>2, <1>3 DEF Once

\* With one checkpoint goroutine the callback never gets an entry that it has
\* applied before in the same run: what a checkpoint drops by sequence number
\* covers all that it handed over, however its callback failed before.
THEOREM OneApplicationPerRun ==
    ASSUME NEW k, Ckpts = {k}
    PROVE  Spec => AppliedOncePerRun
<1>1. Init => TypeOK /\ Ordered /\ OnceInv
  <2>1. Init => OnceInv
    BY DEF Init, OnceInv, Once, Idle
  <2>2. Init => TypeOK /\ Ordered
    BY InitTypeOK DEF Init, Ordered, LogShape, Placed, SequenceOrdersLog
  <2> QED
    BY <2>1, <2>2
<1>2. ASSUME TypeOK, Ordered, Once(k), [Next]_vars PROVE Once(k)'
  <2>1. CASE Write \/ WriteBatch \/ Sync \/ Stop
    BY <1>2, <2>1, WriteAppends, WriteBatchAppends, SyncAppends, AppendsOnce
  <2>2. CASE \E d \in Ckpts : Checkpoint(d)
    BY <1>2, <2>2, CheckpointOnce
  <2>3. CASE Crash
    BY <2>3 DEF Crash, Once, Idle
  <2>4. CASE Recover
    <3>1. /\ mode = "down" /\ mode' = "run" /\ UNCHANGED <<ck, runApplied>>
      BY <2>4 DEF Recover, ghosts
    <3> QED
      BY <1>2, <3>1 DEF Once
  <2>5. CASE UNCHANGED vars
    BY <1>2, <2>5 DEF vars, Once
  <2> QED
    BY <1>2, <2>1, <2>2, <2>3, <2>4, <2>5 DEF Next
<1>3. TypeOK /\ Ordered /\ OnceInv /\ [Next]_vars => (TypeOK /\ Ordered /\ OnceInv)'
  BY <1>2, NextTypeOK, NextOrdered DEF OnceInv
<1>4. OnceInv /\ [Next]_vars =>
        [\A c \in Ckpts : (ck[c].pc = "copied" /\ ck'[c].pc = "applied")
                              => ck[c].snap \cap runApplied = {}]_vars
  BY DEF OnceInv, Once
<1> QED
  BY <1>1, <1>3, <1>4, PTL DEF Spec, AppliedOncePerRun
=============================================================================
