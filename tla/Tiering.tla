------------------------------ MODULE Tiering ------------------------------
(***************************************************************************)
(* Storage tiering, internal/storage/tiering.go: rows leave the hot        *)
(* database for a warm file, warm files for the cold backend, and the cold *)
(* backend when they expire.                                               *)
(*                                                                         *)
(* TierData runs in the tiering ticker's goroutine and in every request to *)
(* /api/storage/tiering/tier; nothing but the lists of TieringState is     *)
(* locked.  The state is saved at the end of a whole TierData, by Compact  *)
(* and by RestoreFromCold: a crash of the process brings an older one      *)
(* back.  Store.cleanup (storage.go) deletes from the same hot database.   *)
(*                                                                         *)
(* There is one table.  A warm file is named by the second of its export,  *)
(* here a number that two exports share only in the same second, an object *)
(* by that name and the start of its range.  exportToWarm is one step:     *)
(* until it returns only its own file has changed.  A file written halfway *)
(* cannot be unpacked: it has no rows.                                     *)
(***************************************************************************)
EXTENDS Integers

CONSTANTS
    Rows,
    Passes,         \* goroutines in TierData: "tick", and one for each request
    Helpers,        \* goroutines in Compact or RestoreFromCold
    HotRetention, WarmRetention, ColdRetention,
    CleanupAge,     \* the age from which Store.cleanup deletes a row
    Shift,          \* by how much a row passes for older: timestamps and cutoffs
                    \* are compared as text, of different zones and formats
    Lateness,       \* how old a row may be when it is inserted
    Parsed,         \* the rows whose timestamp reads back as RFC 3339 text, not
                    \* as the time.Time of a DATETIME column
    SameSecond,     \* may two exports begin in the same second?
    MaxTime,        \* bounds: the clock,
    MaxInsert,      \*         the time of the last insert,
    MaxTroubles     \*         failing steps, crashes and restores together

ASSUME RetentionAssumption ==
    /\ {HotRetention, WarmRetention, ColdRetention, Lateness} \subseteq Nat
    /\ HotRetention < WarmRetention /\ WarmRetention < ColdRetention
    /\ CleanupAge \in [Rows -> Int] /\ Shift \in [Rows -> Int]
    /\ Parsed \subseteq Rows /\ SameSecond \in BOOLEAN
    /\ {MaxTime, MaxInsert, MaxTroubles} \subseteq Nat

VARIABLES
    now,
    ts,            \* the rows' timestamps, -1: not inserted yet
    hot,           \* the rows in the hot database
    warm,          \* the warm files and their rows
    cold,          \* the cold backend's objects and their rows
    warmFiles,     \* TieringState.WarmFiles
    coldArchives,  \* TieringState.ColdArchives
    saved,         \* tiering_state.json
    files,         \* how many names warm files have had
    pass,          \* where a TierData is
    helper,        \* where a Compact or RestoreFromCold is
    skipped,       \* ghost: rows exportToWarm passed over and TierData deleted
    purged,        \* ghost: rows Store.cleanup deleted that were in no other tier
    cleaned,       \* ghost: rows of objects cleanExpiredCold deleted
    torn,          \* ghost: rows of objects overwritten by a file half restored
    troubles       \* failing steps, crashes and restores so far

data == <<hot, warm, cold>>
lists == <<warmFiles, coldArchives>>
gone == <<skipped, purged, cleaned, torn>>
vars == <<now, ts, data, lists, saved, files, pass, helper, gone, troubles>>

Times == -1 .. MaxTime
File == [name : Nat, start : Times, end : Times]   \* WarmFile, ColdArchive
State == [warm : SUBSET File, cold : SUBSET File]
Key(f) == [name |-> f.name, start |-> f.start]
Keys == [name : Nat, start : Times]

Idle == [pc |-> "idle"]
Done == [pc |-> "done"]
Pass ==
    [pc : {"idle", "done", "warm"}]
      \cup [pc : {"export"}, cutoff : Int]
      \cup [pc : {"delete", "track"}, cutoff : Int, file : File, missed : SUBSET Rows]
      \cup [pc : {"archive", "clean"}, todo : SUBSET File]
      \cup [pc : {"remove"}, todo : SUBSET File, file : File]
      \cup [pc : {"write"}, state : State]
Helper ==
    [pc : {"idle", "save"}]
      \cup [pc : {"copy"}, key : Keys, rows : SUBSET Rows]
      \cup [pc : {"list"}, key : Keys]
      \cup [pc : {"write"}, state : State]
Fresh == [warm |-> {}, cold |-> {}]

Init ==
    /\ now = 0
    /\ ts = [r \in Rows |-> -1]
    /\ hot = {}
    /\ warm = [n \in {} |-> {}] /\ cold = [k \in {} |-> {}]
    /\ warmFiles = {} /\ coldArchives = {} /\ saved = Fresh
    /\ files = 0
    /\ pass = [p \in Passes |-> Idle]
    /\ helper = [q \in Helpers |-> Idle]
    /\ skipped = {} /\ purged = {} /\ cleaned = {} /\ torn = {}
    /\ troubles = 0

\* Maps as functions of changing domains.
Put(f, k, v) == [j \in DOMAIN f \cup {k} |-> IF j = k THEN v ELSE f[j]]
Without(f, k) == [j \in DOMAIN f \ {k} |-> f[j]]
In(f, k) == IF k \in DOMAIN f THEN f[k] ELSE {}

At(p, pc) == pass[p].pc = pc
Goto(p, pc) == pass' = [pass EXCEPT ![p].pc = pc]
After(p) == IF p = "tick" THEN Idle ELSE Done
Return(p) == pass' = [pass EXCEPT ![p] = After(p)]
Trouble == troubles < MaxTroubles /\ troubles' = troubles + 1

-----------------------------------------------------------------------------
(* tierHotToWarm.                                                          *)

Old(cutoff) == {r \in hot : ts[r] < cutoff + Shift[r]}

\* TierData begins: the cutoff, and the count of the rows below it.
TierData(p) ==
    LET cutoff == now - HotRetention
    IN  /\ pass[p] = Idle
        /\ pass' = [pass EXCEPT ![p] =
                      IF Old(cutoff) = {} THEN [pc |-> "warm"]
                                          ELSE [pc |-> "export", cutoff |-> cutoff]]
        /\ UNCHANGED <<now, ts, data, lists, saved, helper, gone, files, troubles>>

\* The range of the rows' times, from those that parse; zero when none does.
Least(S) == CHOOSE t \in S : \A u \in S : t <= u
Greatest(S) == CHOOSE t \in S : \A u \in S : u <= t

\* Mutant: the end of the range is in another unit.
MutExported(name, rows) ==
    LET times == IF rows \cap Parsed = {} THEN {-1} ELSE {ts[r] : r \in rows \cap Parsed}
    IN  [name |-> name, start |-> Least(times), end |-> 1000 * Greatest(times)]

Exported(name, rows) ==
    LET times == IF rows \cap Parsed = {} THEN {-1} ELSE {ts[r] : r \in rows \cap Parsed}
    IN  [name |-> name, start |-> Least(times), end |-> Greatest(times)]

\* The name the second gives: a new one, or the last one again.
Names == {files + 1} \cup (IF SameSecond /\ files > 0 THEN {files} ELSE {})

\* Rows that cannot be scanned, rows after an error of the cursor, rows that
\* cannot be inserted and those a failing Close of the gzip writer loses are
\* passed over without an error; the times of the rows that were read count.
ExportToWarm(p) ==
    LET rows == Old(pass[p].cutoff)
    IN  /\ At(p, "export")
        /\ \E name \in Names, read \in SUBSET rows : \E written \in SUBSET read :
              /\ IF written = rows THEN UNCHANGED troubles ELSE Trouble
              /\ warm' = Put(warm, name, written)
              /\ pass' = [pass EXCEPT ![p] =
                            [pc |-> "delete", cutoff |-> @.cutoff,
                             file |-> Exported(name, read), missed |-> rows \ written]]
              /\ files' = name
        /\ UNCHANGED <<now, ts, hot, cold, lists, saved, helper, gone>>

ExportFails(p) ==
    /\ At(p, "export")
    /\ Trouble
    /\ Return(p)
    /\ UNCHANGED <<now, ts, data, lists, saved, helper, gone, files>>

\* Mutant: the cutoff is computed again.
MutDeleteFromHot(p) ==
    /\ At(p, "delete")
    /\ hot' = hot \ Old(now - HotRetention)
    /\ skipped' = skipped \cup pass[p].missed
    /\ Goto(p, "track")
    /\ UNCHANGED <<now, ts, warm, cold, lists, saved, helper, purged, cleaned, torn,
                   files, troubles>>

DeleteFromHot(p) ==
    /\ At(p, "delete")
    /\ hot' = hot \ Old(pass[p].cutoff)
    /\ skipped' = skipped \cup pass[p].missed
    /\ Goto(p, "track")
    /\ UNCHANGED <<now, ts, warm, cold, lists, saved, helper, purged, cleaned, torn,
                   files, troubles>>

DeleteFails(p) ==
    /\ At(p, "delete")
    /\ Trouble
    /\ Return(p)
    /\ UNCHANGED <<now, ts, data, lists, saved, helper, gone, files>>

\* Mutant: the path is that of the file before it was compressed.
MutTrackWarm(p) ==
    /\ At(p, "track")
    /\ warmFiles' = warmFiles \cup {[pass[p].file EXCEPT !.name = @ + 100]}
    /\ pass' = [pass EXCEPT ![p] = [pc |-> "warm"]]
    /\ UNCHANGED <<now, ts, data, coldArchives, saved, helper, gone, files, troubles>>

TrackWarm(p) ==
    /\ At(p, "track")
    /\ warmFiles' = warmFiles \cup {pass[p].file}
    /\ pass' = [pass EXCEPT ![p] = [pc |-> "warm"]]
    /\ UNCHANGED <<now, ts, data, coldArchives, saved, helper, gone, files, troubles>>

-----------------------------------------------------------------------------
(* tierWarmToCold and cleanExpiredCold.                                    *)

Before(entries, cutoff) == {f \in entries : f.end < cutoff}

\* The files to archive leave the list before the first is archived.
TierWarmToCold(p) ==
    LET chosen == Before(warmFiles, now - WarmRetention)
    IN  /\ At(p, "warm")
        /\ warmFiles' = warmFiles \ chosen
        /\ pass' = [pass EXCEPT ![p] = [pc |-> "archive", todo |-> chosen]]
        /\ UNCHANGED <<now, ts, data, coldArchives, saved, helper, gone, files, troubles>>

ArchiveToCold(p, f) ==
    /\ At(p, "archive") /\ f \in pass[p].todo
    /\ f.name \in DOMAIN warm
    /\ cold' = Put(cold, Key(f), warm[f.name])
    /\ torn' = torn \cup (In(cold, Key(f)) \ warm[f.name])
    /\ pass' = [pass EXCEPT ![p] = [pc |-> "remove", todo |-> @.todo \ {f}, file |-> f]]
    /\ UNCHANGED <<now, ts, hot, warm, lists, saved, helper, skipped, purged, cleaned,
                   files, troubles>>

\* The one file goes back to the list, the rest of toArchive is forgotten.
Readd(p, f) ==
    /\ At(p, "archive") /\ f \in pass[p].todo
    /\ warmFiles' = warmFiles \cup {f}
    /\ Return(p)
    /\ UNCHANGED <<now, ts, data, coldArchives, saved, helper, gone, files>>

ArchiveFails(p, f) == Readd(p, f) /\ f.name \in DOMAIN warm /\ Trouble
ArchiveMissing(p, f) == Readd(p, f) /\ f.name \notin DOMAIN warm /\ UNCHANGED troubles

RemoveWarm(p) ==
    /\ At(p, "remove")
    /\ warm' = Without(warm, pass[p].file.name)
    /\ coldArchives' = coldArchives \cup {pass[p].file}
    /\ pass' = [pass EXCEPT ![p] = [pc |-> "archive", todo |-> @.todo]]
    /\ UNCHANGED <<now, ts, hot, cold, warmFiles, saved, helper, gone, files, troubles>>

\* Mutant: the expired archives are only taken off the list.
MutCleanExpiredCold(p) ==
    /\ At(p, "archive") /\ pass[p].todo = {}
    /\ coldArchives' = coldArchives \ Before(coldArchives, now - ColdRetention)
    /\ pass' = [pass EXCEPT ![p] = [pc |-> "clean", todo |-> {}]]
    /\ UNCHANGED <<now, ts, data, warmFiles, saved, helper, gone, files, troubles>>

CleanExpiredCold(p) ==
    LET chosen == Before(coldArchives, now - ColdRetention)
    IN  /\ At(p, "archive") /\ pass[p].todo = {}
        /\ coldArchives' = coldArchives \ chosen
        /\ pass' = [pass EXCEPT ![p] = [pc |-> "clean", todo |-> chosen]]
        /\ UNCHANGED <<now, ts, data, warmFiles, saved, helper, gone, files, troubles>>

DeleteCold(p, f) ==
    /\ At(p, "clean") /\ f \in pass[p].todo
    /\ cold' = Without(cold, Key(f))
    /\ cleaned' = cleaned \cup In(cold, Key(f))
    /\ pass' = [pass EXCEPT ![p].todo = @ \ {f}]
    /\ UNCHANGED <<now, ts, hot, warm, lists, saved, helper, skipped, purged, torn, files,
                   troubles>>

DeleteColdFails(p, f) ==
    /\ At(p, "clean") /\ f \in pass[p].todo
    /\ Trouble
    /\ coldArchives' = coldArchives \cup {f}
    /\ pass' = [pass EXCEPT ![p].todo = @ \ {f}]
    /\ UNCHANGED <<now, ts, data, warmFiles, saved, helper, gone, files>>

-----------------------------------------------------------------------------
(* saveState.                                                              *)

Current == [warm |-> warmFiles, cold |-> coldArchives]

\* The lists are marshalled under stateMu, the file is written after: whoever
\* saves may write an older state over a newer one.
Writing == [pc |-> "write", state |-> Current]

MarshalState(p) ==
    /\ At(p, "clean") /\ pass[p].todo = {}
    /\ pass' = [pass EXCEPT ![p] = Writing]
    /\ UNCHANGED <<now, ts, data, lists, saved, helper, gone, files, troubles>>

SaveState(p) ==
    /\ At(p, "write")
    /\ saved' = pass[p].state
    /\ Return(p)
    /\ UNCHANGED <<now, ts, data, lists, helper, gone, files, troubles>>

\* Compact, by its ticker or a request: VACUUM, then the state as it is; and
\* the end of RestoreFromCold.
Compact(q) ==
    /\ helper[q].pc \in {"idle", "save"}
    /\ helper' = [helper EXCEPT ![q] = Writing]
    /\ UNCHANGED <<now, ts, data, lists, saved, pass, gone, files, troubles>>

Compacted(q) ==
    /\ helper[q].pc = "write"
    /\ saved' = helper[q].state
    /\ helper' = [helper EXCEPT ![q] = Idle]
    /\ UNCHANGED <<now, ts, data, lists, pass, gone, files, troubles>>

-----------------------------------------------------------------------------
(* RestoreFromCold.                                                        *)

\* The file in the warm directory is created, or emptied ...
DownloadFromCold(q, k) ==
    /\ helper[q] = Idle /\ Trouble
    /\ k \in DOMAIN cold
    /\ warm' = Put(warm, k.name, {})
    /\ helper' = [helper EXCEPT ![q] = [pc |-> "copy", key |-> k, rows |-> cold[k]]]
    /\ UNCHANGED <<now, ts, hot, cold, lists, saved, pass, gone, files>>

CopiedToo(q) ==
    \E o \in Helpers \ {q} :
       helper[o].pc = "copy" /\ helper[o].key.name = helper[q].key.name

\* ... and filled, if nobody has removed it meanwhile.
Downloaded(q) ==
    LET name == helper[q].key.name
    IN  /\ helper[q].pc = "copy"
        /\ \E rows \in {helper[q].rows} \cup (IF CopiedToo(q) THEN {{}} ELSE {}) :
              warm' = IF name \in DOMAIN warm THEN Put(warm, name, rows) ELSE warm
        /\ helper' = [helper EXCEPT ![q] = [pc |-> "list", key |-> @.key]]
        /\ UNCHANGED <<now, ts, hot, cold, lists, saved, pass, gone, files, troubles>>

\* The copy fails: the file is removed.
DownloadFails(q) ==
    /\ helper[q].pc = "copy"
    /\ warm' = Without(warm, helper[q].key.name)
    /\ helper' = [helper EXCEPT ![q] = Idle]
    /\ UNCHANGED <<now, ts, hot, cold, lists, saved, pass, gone, files, troubles>>

\* The archive, when it is listed, becomes a warm file.
ListRestored(q) ==
    LET found == {f \in coldArchives : Key(f) = helper[q].key}
    IN  /\ helper[q].pc = "list"
        /\ warmFiles' = warmFiles \cup found
        /\ coldArchives' = coldArchives \ found
        /\ helper' = [helper EXCEPT ![q] = [pc |-> "save"]]
        /\ UNCHANGED <<now, ts, data, saved, pass, gone, files, troubles>>

\* os.WriteFile is not atomic: a crash in it, or two that overlap, leave a file
\* that loadState refuses.
Crash ==
    /\ Trouble
    /\ \E file \in {saved, Fresh} :
          /\ saved' = file
          /\ warmFiles' = file.warm /\ coldArchives' = file.cold
    /\ pass' = [p \in Passes |-> IF pass[p] = Idle THEN Idle ELSE After(p)]
    /\ helper' = [q \in Helpers |-> Idle]
    /\ UNCHANGED <<now, ts, data, gone, files>>

-----------------------------------------------------------------------------
(* The world.                                                              *)

Insert(r) ==
    /\ ts[r] = -1 /\ now <= MaxInsert
    /\ \E t \in 0 .. now :
          /\ now - t <= Lateness
          /\ ts' = [ts EXCEPT ![r] = t]
    /\ hot' = hot \cup {r}
    /\ UNCHANGED <<now, warm, cold, lists, saved, pass, helper, gone, files, troubles>>

Elsewhere(r) ==
    (\E n \in DOMAIN warm : r \in warm[n]) \/ (\E k \in DOMAIN cold : r \in cold[k])

\* Store.cleanup, by its own ticker, exports nothing.
Cleanup ==
    LET stale == {r \in hot : ts[r] < now - CleanupAge[r]}
    IN  /\ stale # {}
        /\ hot' = hot \ stale
        /\ purged' = purged \cup {r \in stale : ~Elsewhere(r)}
        /\ UNCHANGED <<now, ts, warm, cold, lists, saved, pass, helper, skipped, cleaned,
                       torn, files, troubles>>

Tick ==
    /\ now < MaxTime
    /\ now' = now + 1
    /\ UNCHANGED <<ts, data, lists, saved, pass, helper, gone, files, troubles>>

Todo(p) == IF pass[p].pc \in {"archive", "clean"} THEN pass[p].todo ELSE {}

Step(p) ==
    \/ ExportToWarm(p) \/ ExportFails(p) \/ DeleteFromHot(p) \/ DeleteFails(p)
    \/ TrackWarm(p) \/ TierWarmToCold(p) \/ RemoveWarm(p)
    \/ CleanExpiredCold(p) \/ MarshalState(p) \/ SaveState(p)
    \/ \E f \in Todo(p) :
          \/ ArchiveToCold(p, f) \/ ArchiveFails(p, f) \/ ArchiveMissing(p, f)
          \/ DeleteCold(p, f) \/ DeleteColdFails(p, f)

HelperStep(q) ==
    Downloaded(q) \/ DownloadFails(q) \/ ListRestored(q) \/ Compacted(q)

Next ==
    \/ \E p \in Passes : TierData(p) \/ Step(p)
    \/ \E q \in Helpers :
          Compact(q) \/ HelperStep(q) \/ \E k \in DOMAIN cold : DownloadFromCold(q, k)
    \/ Crash \/ Tick \/ Cleanup
    \/ \E r \in Rows : Insert(r)

Spec == Init /\ [][Next]_vars

\* The ticker fires again and again, a TierData that has begun goes on, and
\* time passes.
Fairness ==
    /\ \A p \in Passes : WF_vars(Step(p))
    /\ WF_vars(TierData("tick"))
    /\ \A q \in Helpers : WF_vars(HelperStep(q))
    /\ WF_vars(Tick)

FairSpec == Spec /\ Fairness

-----------------------------------------------------------------------------
(* Properties.                                                             *)

\* The variables hold what the code's types allow.
TypeOK ==
    /\ now \in 0 .. MaxTime
    /\ ts \in [Rows -> Times]
    /\ files \in Nat
    /\ hot \subseteq Rows
    /\ skipped \cup purged \cup cleaned \cup torn \subseteq Rows
    /\ DOMAIN warm \subseteq Nat /\ \A n \in DOMAIN warm : warm[n] \subseteq Rows
    /\ DOMAIN cold \subseteq Keys /\ \A k \in DOMAIN cold : cold[k] \subseteq Rows
    /\ Current \in State /\ saved \in State
    /\ pass \in [Passes -> Pass] /\ helper \in [Helpers -> Helper]
    /\ troubles \in 0 .. MaxTroubles

Somewhere(r) == r \in hot \/ Elsewhere(r)

Expired(t) == t < now - ColdRetention

\* Whichever step fails, wherever it crashes and whatever is restored, a row
\* that was inserted is in the hot database, in a warm file or in a cold object
\* until cleanExpiredCold deletes the object, not before ColdRetention if its
\* timestamp can be read.  There are three other ways to lose one: exportToWarm
\* passes over it, Store.cleanup deletes it first, and a file that is only half
\* restored is archived over its object.
RowKept ==
    \A r \in Rows : ts[r] # -1 =>
       \/ Somewhere(r)
       \/ r \in skipped \cup purged \cup torn
       \/ r \in cleaned /\ (r \in Parsed => Expired(ts[r]))

\* What the state lists, also the one a crash brings back, still exists: the
\* warm file is in its directory, if only half restored, or the object in the
\* cold backend.
ListedExists ==
    \A f \in warmFiles \cup coldArchives \cup saved.warm \cup saved.cold :
       \/ f.name \in DOMAIN warm
       \/ Key(f) \in DOMAIN cold
       \/ Expired(f.end)

\* Retention: while nothing fails, crashes or is restored, every row is gone
\* from all tiers in the end.
RetentionEnforced ==
    [](troubles = 0)
      => \A r \in Rows : ts[r] # -1 ~> ~Somewhere(r)
=============================================================================
