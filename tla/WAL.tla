-------------------------------- MODULE WAL --------------------------------
(***************************************************************************)
(* The write-ahead log of internal/storage/wal.go.                         *)
(*                                                                         *)
(* Writers append entries to a buffered segment file under `mu`; a sync    *)
(* worker flushes and fsyncs it; checkpoints (the ticker's and the HTTP    *)
(* handler's ForceCheckpoint, which may overlap) copy the pending entries, *)
(* hand them to the callback with no lock held, drop what they covered and *)
(* delete old segments.  The process may crash between any two steps; a    *)
(* restart recovers the pending list from the segments on disk.            *)
(*                                                                         *)
(* An entry is [seg, seq, val, grp]: the segment it was written to, its    *)
(* Sequence, and two ghosts that name the call it came from (sequence      *)
(* numbers alone do not identify an entry across restarts).  Segments and  *)
(* the pending slice are sets: their order is the order of the sequence    *)
(* numbers, which SequenceOrdersLog states.                                *)
(***************************************************************************)
EXTENDS Integers, FiniteSets

CONSTANTS
    MaxSegments,  \* WALConfig.MaxSegments: segments that cleaning keeps
    SegCap,       \* WALConfig.MaxSegmentSize, in entries on disk
    BufCap,       \* the bufio buffer's size, in entries
    HasCallback,  \* has SetCheckpointCallback been called?
    Ckpts,        \* the goroutines that run checkpoint()
    RotationLag,  \* rotations that may happen while one checkpoint runs
    MaxVal, MaxCrashes, MaxFaults   \* bounds on writes, crashes, I/O errors

ASSUME WALAssumption ==
    /\ MaxSegments \in Nat \ {0}
    /\ SegCap \in Nat \ {0} /\ BufCap \in Nat \ {0}
    /\ HasCallback \in BOOLEAN
    /\ RotationLag \in Nat
    /\ MaxVal \in Nat /\ MaxCrashes \in Nat /\ MaxFaults \in Nat

VARIABLES
    mode,      \* "down" (no process), "run", "stopped" (after Stop)
    entrySeq,  \* WAL.entrySeq
    log,       \* the current segment, its writer, and the directory
    pending,   \* WAL.pending
    ck,        \* each checkpoint's program counter and copied entries
    nextVal, crashes, faults,      \* bounded counters
    acked,     \* ghost: entries whose Write / WriteBatch returned a sequence
    durable,   \* ghost: acknowledged entries that an fsync has covered
    applied,   \* ghost: entries the callback has applied
    runApplied,\* ghost: entries a successful callback applied in this run
    cleared    \* ghost: entries a checkpoint has dropped from pending

vars == <<mode, entrySeq, log, pending, ck, nextVal, crashes, faults,
          acked, durable, applied, runApplied, cleared>>

ghosts == <<acked, applied, runApplied, cleared>>

Entry == [seg : Nat, seq : Nat, val : Nat, grp : Nat]

\* log.seg is segmentSeq; log.open whether currentSegment is an open file;
\* log.buf and log.bad the bufio.Writer's content and its sticky error;
\* log.files, log.disk, log.synced the directory, the entries in its
\* readable prefix, and those that an fsync has covered.
Log == [seg : Nat, open : BOOLEAN, buf : SUBSET Entry, bad : BOOLEAN,
        files : SUBSET Nat, disk : SUBSET Entry, synced : SUBSET Entry]

Faults == {"flush", "fsync", "open"}

-----------------------------------------------------------------------------
(***************************************************************************)
(* File operations.  F is the set of calls that fail, and cut the last     *)
(* sequence number a failing flush still got to disk (a short write).      *)
(***************************************************************************)

\* bufio.Writer.Flush: nothing after a sticky error; a failure makes one.
Flush(l, F, cut) ==
    IF l.bad \/ l.buf = {} THEN l
    ELSE IF l.open /\ "flush" \notin F
         THEN [l EXCEPT !.disk = @ \cup l.buf, !.buf = {}]
         ELSE LET out == {e \in l.buf : l.open /\ e.seq <= cut}
              IN  [l EXCEPT !.disk = @ \cup out, !.buf = @ \ out, !.bad = TRUE]

Fsync(l, F) ==
    IF l.open /\ "fsync" \notin F
    THEN [l EXCEPT !.synced = @ \cup {e \in l.disk : e.seg = l.seg}]
    ELSE l

\* sync() stops at a Flush error; rotateSegment and Stop ignore it.
SyncLog(l, F, cut) ==
    LET g == Flush(l, F, cut) IN IF g.bad THEN g ELSE Fsync(g, F)

CloseSegment(l, F, cut) == [Fsync(Flush(l, F, cut), F) EXCEPT !.open = FALSE]

\* segmentSeq advances before the open that may fail; the writer is replaced
\* only when the open succeeds.
openNextSegment(l, F) ==
    IF "open" \in F
    THEN [l EXCEPT !.seg = @ + 1]
    ELSE [l EXCEPT !.seg = @ + 1, !.open = TRUE, !.buf = {}, !.bad = FALSE,
                   !.files = @ \cup {l.seg + 1}]

rotateSegment(l, F, cut) == openNextSegment(CloseSegment(l, F, cut), F)

\* Write rotates on the size Stat reports, which counts flushed entries
\* only; Stat of a closed file fails and rotates nothing.
RotateIfFull(l, F, cut) ==
    IF l.open /\ Cardinality({e \in l.disk : e.seg = l.seg}) >= SegCap
    THEN rotateSegment(l, F, cut)
    ELSE l

\* A full buffer is flushed to make room.  The result is `bad` exactly when
\* writeEntry returns an error.
writeEntry(l, e, F, cut) ==
    IF l.bad THEN l
    ELSE LET g == IF Cardinality(l.buf) < BufCap THEN l ELSE Flush(l, F, cut)
         IN  IF g.bad THEN g ELSE [g EXCEPT !.buf = @ \cup {e}]

\* (mutant) keeps one segment fewer.
MutOldSegmentsOffByOne(l) ==
    {s \in l.files : Cardinality({t \in l.files : t >= s}) >= MaxSegments}

\* Segments beyond the newest MaxSegments.
OldSegments(l) ==
    {s \in l.files : Cardinality({t \in l.files : t > s}) >= MaxSegments}

RemoveFiles(l, gone) ==
    [l EXCEPT !.files = @ \ gone,
              !.disk = {e \in @ : e.seg \notin gone},
              !.synced = {e \in @ : e.seg \notin gone}]

-----------------------------------------------------------------------------
Idle == [pc |-> "idle", snap |-> {}, seg |-> 0]

Init ==
    /\ mode = "down" /\ entrySeq = 0 /\ pending = {}
    /\ log = [seg |-> 0, open |-> FALSE, buf |-> {}, bad |-> FALSE,
              files |-> {}, disk |-> {}, synced |-> {}]
    /\ ck = [c \in Ckpts |-> Idle]
    /\ nextVal = 1 /\ crashes = 0 /\ faults = 0
    /\ acked = {} /\ durable = {} /\ applied = {}
    /\ runApplied = {} /\ cleared = {}

\* The I/O calls of one step fail as F says, within the bound.
Fault(F) ==
    /\ faults + Cardinality(F) <= MaxFaults
    /\ faults' = faults + Cardinality(F)

\* Assumption on the environment, stated by the constant: a checkpoint ends
\* before more than RotationLag segments have filled up.
LagBounded ==
    \A c \in Ckpts : ck[c].pc # "idle" => log'.seg - ck[c].seg <= RotationLag

\* Ghost: what the step has made durable.
NoteDurable == durable' = durable \cup (acked' \cap log'.synced)

NewEntry(n, g) ==
    [seg |-> log.seg, seq |-> entrySeq + n, val |-> nextVal + n - 1, grp |-> g]

\* Write.  A failed writeEntry burns a sequence number and returns; a failed
\* rotation still returns the sequence.
Write ==
    /\ mode # "down" /\ nextVal <= MaxVal
    /\ \E F \in SUBSET Faults, cut \in 0 .. entrySeq :
         LET e == NewEntry(1, nextVal)
             g == writeEntry(log, e, F, cut)
         IN  /\ Fault(F)
             /\ IF g.bad
                THEN log' = g /\ UNCHANGED <<pending, acked>>
                ELSE /\ log' = RotateIfFull(g, F, cut)
                     /\ pending' = pending \cup {e}
                     /\ acked' = acked \cup {e}
    /\ entrySeq' = entrySeq + 1 /\ nextVal' = nextVal + 1
    /\ LagBounded /\ NoteDurable
    /\ UNCHANGED <<mode, ck, crashes, applied, runApplied, cleared>>

\* WriteBatch, with a batch of two.  An error leaves the entries written so
\* far in the log but none of them in pending.  There is no rotation check.
WriteBatch ==
    /\ mode # "down" /\ nextVal < MaxVal
    /\ \E F \in SUBSET {"flush"}, cut \in 0 .. entrySeq + 1 :
         LET e1 == NewEntry(1, nextVal)
             e2 == NewEntry(2, nextVal)
             g1 == writeEntry(log, e1, F, cut)
             g2 == writeEntry(g1, e2, F, cut)
         IN  /\ Fault(F)
             /\ log' = g2
             /\ entrySeq' = IF g1.bad THEN entrySeq + 1 ELSE entrySeq + 2
             /\ IF g2.bad
                THEN UNCHANGED <<pending, acked>>
                ELSE /\ pending' = pending \cup {e1, e2}
                     /\ acked' = acked \cup {e1, e2}
    /\ nextVal' = nextVal + 2
    /\ NoteDurable
    /\ UNCHANGED <<mode, ck, crashes, applied, runApplied, cleared>>

\* sync(), from the sync worker or from ForceSync.
Sync ==
    /\ mode # "down"
    /\ \E F \in SUBSET {"flush", "fsync"}, cut \in 0 .. entrySeq :
         Fault(F) /\ log' = SyncLog(log, F, cut)
    /\ UNCHANGED <<mode, entrySeq, pending, ck, nextVal, crashes, ghosts>>
    /\ NoteDurable

-----------------------------------------------------------------------------
(***************************************************************************)
(* checkpoint(), one action per critical section or unlocked call.  After  *)
(* Stop the ticker's worker is gone; ForceCheckpoint may still be called.  *)
(***************************************************************************)

\* Copy pending under pendingLock; an empty list ends the checkpoint.
CkptCopy(c) ==
    /\ mode = "run" \/ (mode = "stopped" /\ c # "tick")
    /\ ck[c].pc = "idle" /\ pending # {}
    /\ ck' = [ck EXCEPT ![c] =
                 [pc |-> "copied", snap |-> pending, seg |-> log.seg]]
    /\ UNCHANGED <<mode, entrySeq, log, pending, nextVal, crashes, faults,
                   durable, ghosts>>

\* checkpointFn(entries) returns nil; with no callback nothing is applied.
CkptApply(c) ==
    /\ ck[c].pc = "copied"
    /\ ck' = [ck EXCEPT ![c].pc = "applied"]
    /\ IF HasCallback
       THEN /\ applied' = applied \cup ck[c].snap
            /\ runApplied' = runApplied \cup ck[c].snap
       ELSE UNCHANGED <<applied, runApplied>>
    /\ UNCHANGED <<mode, entrySeq, log, pending, nextVal, crashes, faults,
                   acked, durable, cleared>>

\* checkpointFn(entries) returns an error, having applied some of them.
CkptApplyFails(c) ==
    /\ ck[c].pc = "copied" /\ HasCallback /\ faults < MaxFaults
    /\ ck' = [ck EXCEPT ![c] = Idle]
    /\ \E part \in SUBSET ck[c].snap : applied' = applied \cup part
    /\ faults' = faults + 1
    /\ UNCHANGED <<mode, entrySeq, log, pending, nextVal, crashes,
                   acked, durable, runApplied, cleared>>

\* (mutants) the whole pending list is reset; the comparison is >=.
MutAfterNothing(snap) == {}
MutAfterInclusive(snap) == {e \in pending : \A s \in snap : e.seq >= s.seq}

\* Pending entries a checkpoint of snap keeps: those after its lastSeq.
After(snap) == {e \in pending : \A s \in snap : e.seq > s.seq}

\* Drop what was checkpointed, judged by sequence number.
CkptClear(c) ==
    /\ ck[c].pc = "applied"
    /\ pending' = After(ck[c].snap)
    /\ cleared' = cleared \cup (pending \ After(ck[c].snap))
    /\ ck' = [ck EXCEPT ![c].pc = "cleared"]
    /\ UNCHANGED <<mode, entrySeq, log, nextVal, crashes, faults,
                   acked, durable, applied, runApplied>>

\* cleanOldSegments, with no lock held: each os.Remove is best effort.
CkptClean(c) ==
    /\ ck[c].pc = "cleared"
    /\ \E gone \in SUBSET OldSegments(log) : log' = RemoveFiles(log, gone)
    /\ ck' = [ck EXCEPT ![c] = Idle]
    /\ UNCHANGED <<mode, entrySeq, pending, nextVal, crashes, faults,
                   durable, ghosts>>

-----------------------------------------------------------------------------
\* Stop waits for the workers, then flushes, syncs and closes.
Stop ==
    /\ mode = "run"
    /\ \A c \in Ckpts : c = "tick" => ck[c].pc = "idle"
    /\ \E F \in SUBSET {"flush", "fsync"}, cut \in 0 .. entrySeq :
         Fault(F) /\ log' = CloseSegment(log, F, cut)
    /\ mode' = "stopped"
    /\ UNCHANGED <<entrySeq, pending, ck, nextVal, crashes, ghosts>>
    /\ NoteDurable

\* Sets of entries the machine may still hold after a crash: what was
\* fsynced, and any prefix of what was only flushed.
Survivors ==
    {log.synced \cup {e \in log.disk : e.seq <= cut} : cut \in 0 .. entrySeq}

\* The process dies, or exits after Stop; the machine may go down with it.
Crash ==
    /\ mode # "down" /\ crashes < MaxCrashes
    /\ \E kept \in Survivors :
         log' = [log EXCEPT !.open = FALSE, !.buf = {}, !.bad = FALSE,
                            !.disk = kept, !.synced = kept]
    /\ mode' = "down" /\ pending' = {} /\ entrySeq' = 0
    /\ ck' = [c \in Ckpts |-> Idle]
    /\ crashes' = crashes + 1
    /\ runApplied' = {}
    /\ UNCHANGED <<nextVal, faults, acked, durable, applied, cleared>>

\* (mutants) recovery starts numbering afresh, or one too low.
MutRecoveredSeqZero == {0}
MutRecoveredSeqLow == {e.seq - 1 : e \in log.disk} \cup {-1}

\* The sequence number recover() resumes from: the highest in the log.
RecoveredSeq ==
    {m \in {0} \cup {e.seq : e \in log.disk} : \A e \in log.disk : e.seq <= m}

\* The segment number recover() resumes from.
RecoveredSeg ==
    {m \in {0} \cup log.files : \A f \in log.files : f <= m}

\* (mutant) only the newest segment is read back.
MutRecoveredNewest ==
    {e \in log.disk : \A f \in log.files : f <= e.seg}

\* readSegment over every segment; no entry is ever marked Committed, so
\* none is left out.
RecoveredEntries == log.disk

\* NewWAL and Start: recover(), then a fresh segment.
Recover ==
    /\ mode = "down"
    /\ entrySeq' \in RecoveredSeq
    /\ pending' = RecoveredEntries
    /\ \E m \in RecoveredSeg :
         log' = openNextSegment([log EXCEPT !.seg = m], {})
    /\ mode' = "run"
    /\ UNCHANGED <<ck, nextVal, crashes, faults, durable, ghosts>>

Checkpoint(c) ==
    \/ CkptCopy(c) \/ CkptApply(c) \/ CkptApplyFails(c)
    \/ CkptClear(c) \/ CkptClean(c)

Next ==
    \/ Write \/ WriteBatch \/ Sync \/ Stop \/ Crash \/ Recover
    \/ \E c \in Ckpts : Checkpoint(c)

Spec == Init /\ [][Next]_vars

\* The workers run, the process is restarted, and a callback that is tried
\* again and again succeeds in the end.
Fairness ==
    /\ WF_vars(Recover)
    /\ \A c \in Ckpts : /\ WF_vars(CkptCopy(c))
                        /\ SF_vars(CkptApply(c))
                        /\ WF_vars(CkptClear(c))
                        /\ WF_vars(CkptClean(c))

FairSpec == Spec /\ Fairness

-----------------------------------------------------------------------------
CkptState == [pc : {"idle", "copied", "applied", "cleared"},
              snap : SUBSET Entry, seg : Nat]

\* The types of WAL's fields, of the directory and of the ghosts.
TypeOK ==
    /\ mode \in {"down", "run", "stopped"}
    /\ entrySeq \in Nat /\ nextVal \in Nat \ {0}
    /\ crashes \in Nat /\ faults \in Nat
    /\ log \in Log
    /\ ck \in [Ckpts -> CkptState]
    /\ pending \subseteq Entry
    /\ acked \subseteq Entry /\ durable \subseteq Entry
    /\ applied \subseteq Entry /\ runApplied \subseteq Entry
    /\ cleared \subseteq Entry

\* checkpoint() releases pendingLock around the callback and then drops
\* entries by sequence number: it never drops one the callback did not apply,
\* whatever was written or checkpointed meanwhile.
NothingDroppedUnapplied == cleared \subseteq applied

\* An acknowledged entry that an fsync has covered is applied or still in a
\* synced segment: neither a crash nor cleanOldSegments loses it.
DurableUntilApplied == durable \subseteq applied \cup log.synced

\* While the process runs, every acknowledged entry that is still in the log
\* is either applied or pending: recovery and failed checkpoints forget none.
LogIsPending ==
    mode # "down" =>
        acked \cap (log.disk \cup log.buf) \subseteq pending \cup applied

\* Entries in the log have distinct sequence numbers, and later segments hold
\* larger ones, across restarts too; checkpoint()'s comparison with lastSeq
\* relies on it.
SequenceOrdersLog ==
    \A a, b \in log.disk \cup log.buf \cup pending :
        /\ a.seq = b.seq => a = b
        /\ a.seg < b.seg => a.seq < b.seq

\* With one checkpoint goroutine, a batch handed to the callback holds no
\* entry that an earlier successful callback of this run already applied.
AppliedOncePerRun ==
    [][\A c \in Ckpts : (ck[c].pc = "copied" /\ ck'[c].pc = "applied")
                            => ck[c].snap \cap runApplied = {}]_vars

\* An entry that reached stable storage is applied in the end, unless the
\* WAL has been stopped, which takes no final checkpoint.
DurableLeadsToApplied ==
    \A v \in 1 .. MaxVal :
        (\E e \in durable : e.val = v) ~>
            ((\E e \in applied : e.val = v) \/ mode = "stopped")
=============================================================================
