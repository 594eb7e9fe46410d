---------------------------- MODULE StationFiles ----------------------------
(***************************************************************************)
(* The station locations one copy of TQSL keeps in station_data and, once  *)
(* deleted, in station_data_trash (src/location.cpp), the menu operations  *)
(* on them, and the automatic backup of the configuration that follows     *)
(* (apps/tqsl.cpp).  A file is rewritten in place: it is truncated when it *)
(* is opened and whole only when it is closed, so a crash leaves a part of *)
(* it.  Reading a part is an error only if errno does not happen to be     *)
(* ENOENT.                                                                 *)
(***************************************************************************)
EXTENDS Naturals, Sequences, FiniteSets, SequencesExt, FiniteSetsExt, Selection

CONSTANTS
  Names,       \* spellings of location names
  Fold,        \* Fold[n]: n as strcasecmp sees it
  Hidden,      \* the names the tree does not show (".empty")
  Contents,    \* the fields of a location, as far as they differ
  Torn,        \* the fields of a location only the start of which was written
  None,
  BackupVersions, \* the setting BackupVersions
  MaxMinute,   \* bound: minutes the clock shows
  MaxOps,      \* bound: operations started
  MaxCrashes,  \* bound: crashes
  MaxFails     \* bound: writes of station files that fail

Live == "station_data"
Trash == "station_data_trash"

\* The locations of a file, what an operation writes, and the backups.
Locations == [name : Names, data : Contents \cup {Torn}]
Writes == [file : {Live, Trash}, list : Seq(Locations)]
Backups == [whole : BOOLEAN, locs : Seq(Locations) \cup {None}, minute : Nat]

ASSUME StationAssumption ==
  /\ Fold \in [Names -> Names]
  /\ Hidden \subseteq Names
  /\ Torn \notin Contents
  /\ None \notin Names \cup Contents
  /\ None \notin Locations /\ None \notin Backups
  /\ None \notin Seq(Locations) /\ None \notin Seq(Writes)
  /\ BackupVersions \in Nat
  /\ {MaxMinute, MaxOps, MaxCrashes, MaxFails} \subseteq Nat

VARIABLES
  files,       \* the two station files
  tree,        \* the names the window lists
  job,         \* the operation under way
  main,        \* tqslconfig.tbk: None or what it holds
  dated,       \* the renamed backups, by the minute in their names
  minute, ops, crashes, fails,
  moving,      \* history: the location the last move was to carry over
  deleted,     \* history: the last location deleted, by folded name
  backed       \* history: the locations of the last backup that completed

vars == <<files, tree, job, main, dated, minute, ops, crashes, fails,
          moving, deleted, backed>>

Whole(s) == [cut |-> FALSE, list |-> s]
Part(s) == [cut |-> TRUE, list |-> s]
Absent == [cut |-> FALSE, list |-> <<>>]

\* The locations whose name strcasecmp takes for n; the first in the file.
Matches(s, n) == {i \in DOMAIN s : Fold[s[i].name] = Fold[n]}
Without(s, n) ==
  IF Matches(s, n) = {} THEN s ELSE RemoveAt(s, Min(Matches(s, n)))
Found(s, n) == s[Min(Matches(s, n))]

\* What is on the disk when writing s stops half way: some of the locations,
\* the last of them perhaps without all its fields.
Leftovers(s) ==
  {SubSeq(s, 1, k) : k \in 0 .. Len(s)}
    \cup {Append(SubSeq(s, 1, k - 1), [s[k] EXCEPT !.data = Torn]) : k \in 1 .. Len(s)}

\* What tqsl_load_station_data can make of a file: its locations, or None for
\* an error.  errno is left over from earlier calls.
Loads(f) == IF files[f].cut THEN {None, files[f].list} ELSE {files[f].list}

\* LocTree::Build lists what it can read.
Names_(s) == {s[i].name : i \in DOMAIN s} \ Hidden
Build == \E s \in Loads(Live) : tree' = IF s = None THEN {} ELSE Names_(s)

-----------------------------------------------------------------------------
(* What the operations write.  A move writes its target first.             *)

\* Mutants of the next definition: the source first; the old copy erased last.
MoveWritesSourceFirst(from, to, f, t, n) ==
  <<[file |-> f, list |-> Without(from, n)],
    [file |-> t, list |-> Append(Without(to, n), Found(from, n))]>>

MoveWritesEraseAfter(from, to, f, t, n) ==
  <<[file |-> t, list |-> Without(Append(to, Found(from, n)), n)],
    [file |-> f, list |-> Without(from, n)]>>

\* tqsl_move_station_location
MoveWrites(from, to, f, t, n) ==
  <<[file |-> t, list |-> Append(Without(to, n), Found(from, n))],
    [file |-> f, list |-> Without(from, n)]>>

\* tqsl_saveStationLocationCapture, always asked to overwrite
SaveWrites(s, n, d) ==
  <<[file |-> Live, list |-> Append(Without(s, n), [name |-> n, data |-> d])]>>

\* tqsl_mergeStationLocations: names are compared as they are spelt
MergeWrites(s, new) ==
  <<[file |-> Live,
     list |-> s \o Only(new, {j \in DOMAIN new : \A i \in DOMAIN s : s[i].name # new[j].name})]>>

-----------------------------------------------------------------------------
Idle == [kind |-> "idle", pc |-> "idle", name |-> None, data |-> None,
         writes |-> <<>>, open |-> FALSE, backup |-> FALSE]

\* An operation begins; backup tells whether AutoBackup follows it.
Begin(kind, n, d, backup) ==
  /\ job.pc = "idle" /\ ops < MaxOps
  /\ ops' = ops + 1
  /\ job' = [Idle EXCEPT !.kind = kind, !.name = n, !.data = d, !.backup = backup,
                         !.pc = IF kind = "cancel" THEN "build" ELSE "load"]
  /\ moving' = None
  /\ UNCHANGED <<files, tree, main, dated, minute, crashes, fails, deleted, backed>>

\* MyFrame::OnLocDelete of a name in the tree, and OnDelete of the dialog that
\* lists the locations, after which nothing is backed up.
OnLocDelete(n) == n \in tree /\ \E b \in BOOLEAN : Begin("delete", n, None, b)

\* MyFrame::OnLocUndelete: of a name in the trash.
OnLocUndelete(n) ==
  /\ \E s \in Loads(Trash) : s # None /\ \E i \in DOMAIN s : s[i].name = n
  /\ Begin("undelete", n, None, TRUE)

\* AddStationLocation, EditStationLocation, OnLocEdit, SelectStationLocation:
\* run_station_wizard saves under the name given on its last page.  From the
\* dialog nothing is backed up.
RunStationWizard(n, d) ==
  n \notin Hidden /\ \E b \in BOOLEAN : Begin("save", n, d, b)

\* The wizard is cancelled: the tree and the backup are made again all the same.
CancelWizard == Begin("cancel", None, None, TRUE)

\* A log signed with "update" and no location: ".empty" is saved if there is none.
SaveEmpty(n, d) ==
  /\ n \in Hidden
  /\ {s \in Loads(Live) : s # None => Matches(s, n) = {}} # {}
  /\ Begin("empty", n, d, FALSE)

\* MyFrame::OnLoadConfig of one of the backups: the locations are merged when
\* their closing tag is read.
OnLoadConfig(b) == b # None /\ b.locs # None /\ Begin("merge", None, b.locs, FALSE)

\* The writes an operation goes on to, None if it ends with an error.
Plan(from, to, f, t) ==
  IF from = None THEN None ELSE
  CASE job.kind \in {"delete", "undelete"} ->
         IF to = None \/ Matches(from, job.name) = {} THEN None
         ELSE MoveWrites(from, to, f, t, job.name)
    [] job.kind \in {"save", "empty"} -> SaveWrites(from, job.name, job.data)
    [] job.kind = "merge" -> MergeWrites(from, job.data)

Moves == job.kind \in {"delete", "undelete"}

Load ==
  /\ job.pc = "load"
  /\ \E f \in {IF job.kind = "undelete" THEN Trash ELSE Live},
        t \in {IF job.kind = "undelete" THEN Live ELSE Trash} :
       \E from \in Loads(f), to \in Loads(t) :
       LET plan == Plan(from, to, f, t) IN
       /\ job' = IF plan = None THEN [job EXCEPT !.pc = "build"]
                 ELSE [job EXCEPT !.pc = "dump", !.writes = plan]
       /\ moving' = IF plan # None /\ Moves /\ ~files[f].cut
                    THEN Found(from, job.name) ELSE None
       /\ deleted' = IF plan # None /\ job.kind = "undelete"
                     THEN [deleted EXCEPT ![Fold[job.name]] = None] ELSE deleted
  /\ UNCHANGED <<files, tree, main, dated, minute, ops, crashes, fails, backed>>

\* tqsl_dump_station_data: opening the file empties it ...
DumpOpen ==
  /\ job.pc = "dump" /\ ~job.open
  /\ files' = [files EXCEPT ![Head(job.writes).file] = Part(<<>>)]
  /\ job' = [job EXCEPT !.open = TRUE]
  /\ UNCHANGED <<tree, main, dated, minute, ops, crashes, fails, moving, deleted, backed>>

\* What follows a dump: the next one, unless this one failed and somebody
\* looks at its result.  The first dump of a move has its result ignored.
AfterDump(failed) ==
  IF Len(job.writes) = 1 \/ (failed /\ ~Moves)
  THEN [job EXCEPT !.pc = "build", !.writes = <<>>, !.open = FALSE]
  ELSE [job EXCEPT !.writes = Tail(job.writes), !.open = FALSE]

\* A delete takes the place of an earlier one of the same name with its first
\* dump; the user sees the location gone after the last.
Deleted ==
  IF job.kind = "delete"
  THEN [deleted EXCEPT ![Fold[job.name]] = moving] ELSE deleted

\* ... and closing it makes it whole.
DumpClose ==
  /\ job.pc = "dump" /\ job.open
  /\ files' = [files EXCEPT ![Head(job.writes).file] = Whole(Head(job.writes).list)]
  /\ job' = AfterDump(FALSE)
  /\ deleted' = Deleted
  /\ UNCHANGED <<tree, main, dated, minute, ops, crashes, fails, moving, backed>>

\* The file cannot be opened, or the disk fills up.
DumpFails ==
  /\ job.pc = "dump" /\ fails < MaxFails
  /\ fails' = fails + 1
  /\ IF job.open
     THEN \E p \in Leftovers(Head(job.writes).list) :
            files' = [files EXCEPT ![Head(job.writes).file] = Part(p)]
     ELSE UNCHANGED files
  /\ job' = AfterDump(TRUE)
  /\ UNCHANGED <<tree, main, dated, minute, ops, crashes, moving, deleted, backed>>

-----------------------------------------------------------------------------
(* The window is refreshed and, after most operations, the configuration   *)
(* is backed up.  A tree that cannot be read shows no name of a location.  *)

BuildTree ==
  /\ job.pc = "build"
  /\ Build
  /\ job' = IF job.backup THEN [job EXCEPT !.pc = "rename"] ELSE Idle
  /\ UNCHANGED <<files, main, dated, minute, ops, crashes, fails, moving, deleted, backed>>

VersionLimit == IF BackupVersions = 0 THEN 10 ELSE BackupVersions

\* Mutant: the newest go.
PrunedNewest(d) ==
  LET kept == {m \in DOMAIN d : Cardinality({n \in DOMAIN d : n < m}) < VersionLimit}
  IN  [m \in kept |-> d[m]]

\* The oldest names go, the newest VersionLimit stay.
Pruned(d) ==
  LET kept == {m \in DOMAIN d : Cardinality({n \in DOMAIN d : n > m}) < VersionLimit}
  IN  [m \in kept |-> d[m]]

\* MyFrame::SaveOldBackups: the last backup is renamed after the minute it was
\* written in, over one of the same minute.
SaveOldBackups ==
  /\ job.pc = "rename"
  /\ IF main = None THEN UNCHANGED <<main, dated>>
     ELSE /\ main' = None
          /\ dated' = Pruned([m \in DOMAIN dated \cup {main.minute} |->
                               IF m = main.minute THEN main ELSE dated[m]])
  /\ job' = [job EXCEPT !.pc = "backup"]
  /\ UNCHANGED <<files, tree, minute, ops, crashes, fails, moving, deleted, backed>>

\* MyFrame::BackupConfig, quietly: nothing is written while another copy holds
\* the lock.
BackupBusy ==
  /\ job.pc = "backup" /\ ~job.open
  /\ job' = Idle
  /\ UNCHANGED <<files, tree, main, dated, minute, ops, crashes, fails, moving, deleted, backed>>

BackupOpen ==
  /\ job.pc = "backup" /\ ~job.open
  /\ main' = [whole |-> FALSE, locs |-> None, minute |-> minute]
  /\ job' = [job EXCEPT !.open = TRUE]
  /\ UNCHANGED <<files, tree, dated, minute, ops, crashes, fails, moving, deleted, backed>>

\* ParseLocations copies the locations it can parse.  A location torn in the
\* file leaves a tag open, and the backup cannot be read past it.
LocationsCopied ==
  LET s == files[Live].list
  IN  IF \E i \in DOMAIN s : files[Live].cut /\ s[i].data = Torn THEN None ELSE s

BackupClose ==
  /\ job.pc = "backup" /\ job.open
  /\ main' = [whole |-> LocationsCopied # None, locs |-> LocationsCopied, minute |-> minute]
  /\ backed' = LocationsCopied
  /\ job' = Idle
  /\ UNCHANGED <<files, tree, dated, minute, ops, crashes, fails, moving, deleted>>

\* Writing the backup fails: it keeps what was written, the locations or not.
BackupFails ==
  /\ job.pc = "backup" /\ job.open /\ fails < MaxFails
  /\ fails' = fails + 1
  /\ \E l \in {None, LocationsCopied} : main' = [main EXCEPT !.locs = l]
  /\ backed' = None
  /\ job' = Idle
  /\ UNCHANGED <<files, tree, dated, minute, ops, crashes, moving, deleted>>

-----------------------------------------------------------------------------
\* The copy stops at any point and is started again.  What was open keeps a
\* part; a torn trash or backup promises nothing any more.
Crash ==
  /\ job.pc # "idle" /\ crashes < MaxCrashes
  /\ crashes' = crashes + 1
  /\ LET torn == job.pc = "dump" /\ job.open
         f == IF torn THEN Head(job.writes).file ELSE Live
     IN  /\ IF torn
            THEN \E p \in Leftovers(Head(job.writes).list) : files' = [files EXCEPT ![f] = Part(p)]
            ELSE UNCHANGED files
         /\ deleted' = IF torn /\ f = Trash THEN [k \in Names |-> None] ELSE deleted
  /\ IF job.pc = "backup" /\ job.open
     THEN \E l \in {None, LocationsCopied} : main' = [main EXCEPT !.locs = l]
     ELSE UNCHANGED main
  /\ backed' = IF job.pc = "backup" /\ job.open THEN None ELSE backed
  /\ job' = [Idle EXCEPT !.kind = "start", !.pc = "build"]
  /\ UNCHANGED <<tree, dated, minute, ops, fails, moving>>

Tick ==
  /\ minute < MaxMinute
  /\ minute' = minute + 1
  /\ UNCHANGED <<files, tree, job, main, dated, ops, crashes, fails, moving, deleted, backed>>

Done == job.pc = "idle" /\ ops = MaxOps /\ UNCHANGED vars

Init ==
  /\ files = [f \in {Live, Trash} |-> Absent]
  /\ tree = {}
  /\ job = Idle
  /\ main = None /\ dated = [m \in {} |-> None]
  /\ minute = 0 /\ ops = 0 /\ crashes = 0 /\ fails = 0
  /\ moving = None /\ deleted = [k \in Names |-> None] /\ backed = None

Next ==
  \/ \E n \in Names : OnLocDelete(n) \/ OnLocUndelete(n)
  \/ \E n \in Names, d \in Contents : RunStationWizard(n, d) \/ SaveEmpty(n, d)
  \/ CancelWizard
  \/ OnLoadConfig(main) \/ \E m \in DOMAIN dated : OnLoadConfig(dated[m])
  \/ Load \/ DumpOpen \/ DumpClose \/ DumpFails
  \/ BuildTree \/ SaveOldBackups \/ BackupBusy \/ BackupOpen \/ BackupClose \/ BackupFails
  \/ Crash \/ Tick \/ Done

Spec == Init /\ [][Next]_vars

-----------------------------------------------------------------------------
Holds(f, e) == ~files[f].cut /\ \E i \in DOMAIN files[f].list : files[f].list[i] = e

\* Wherever a delete or a restore is interrupted, one of the two files is whole
\* and holds the location being moved: the target is written before the source
\* is rewritten (tqsl_move_station_location).  The result of writing the target
\* is not looked at, so this holds as long as no write fails.
MovedKept ==
  moving # None /\ fails = 0 => Holds(Live, moving) \/ Holds(Trash, moving)

\* The location deleted last under a name is in the trash until it is restored
\* ("TQSL retains the most recently-deleted Station Location for each of your
\* Station Locations", apps/help/tqslapp/restoredeletedstnloc.htm), as long as no
\* write failed, whatever is restored, merged, saved again under another
\* spelling or interrupted.
DeletedRetainedUnlessFailed ==
  fails = 0 =>
    \A k \in Names : deleted[k] # None /\ job.pc # "dump" => Holds(Trash, deleted[k])

\* While backups succeed, renaming, pruning and skipping them never loses the
\* locations of the last one (MyFrame::SaveOldBackups): at every moment some
\* readable backup holds them.  A backup that fails ends this, since the next
\* one is renamed over a good one of the same minute or pushes it out.  No more
\* than BackupVersions are kept.
BackupHolds ==
  /\ Cardinality(DOMAIN dated) <= VersionLimit
  /\ backed # None =>
       \E b \in {main} \cup {dated[m] : m \in DOMAIN dated} :
         b # None /\ b.whole /\ b.locs = backed
=============================================================================
