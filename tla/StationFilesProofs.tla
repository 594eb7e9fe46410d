-------------------------- MODULE StationFilesProofs --------------------------
(***************************************************************************)
(* Proofs about the station files and the backups of the configuration,    *)
(* for any names, contents and numbers of operations, crashes and failures *)
(* of writing.                                                             *)
(***************************************************************************)
EXTENDS StationFiles, SelectionProofs, FiniteSetTheorems, SequenceTheorems, TLAPS

-----------------------------------------------------------------------------
(* The invariant.                                                          *)

Source == IF job.kind = "undelete" THEN Trash ELSE Live
Target == IF job.kind = "undelete" THEN Live ELSE Trash

Among(e, s) == \E i \in DOMAIN s : s[i] = e

Jobs == [kind : {"idle", "start", "cancel", "delete", "undelete", "save", "empty", "merge"},
         pc : {"idle", "load", "dump", "build", "rename", "backup"},
         name : Names \cup {None}, data : Contents \cup {None} \cup Seq(Locations),
         writes : Seq(Writes), open : BOOLEAN, backup : BOOLEAN]

Types ==
  /\ files \in [{Live, Trash} -> [cut : BOOLEAN, list : Seq(Locations)]]
  /\ job \in Jobs
  /\ moving \in Locations \cup {None} /\ deleted \in [Names -> Locations \cup {None}]
  /\ minute \in Nat /\ fails \in Nat

\* What an operation was asked for.
Asked ==
  job.pc \in {"load", "dump"} =>
    \/ Moves /\ job.name \in Names
    \/ job.kind \in {"save", "empty"} /\ job.name \in Names /\ job.data \in Contents
    \/ job.kind = "merge" /\ job.data \in Seq(Locations)

\* The writes still to be made: a move writes its target first.
Planned ==
  /\ job.pc = "dump" =>
       \/ Moves /\ Len(job.writes) = 2 /\ job.writes[1].file = Target /\ job.writes[2].file = Source
       \/ Moves /\ Len(job.writes) = 1 /\ job.writes[1].file = Source
       \/ ~Moves /\ Len(job.writes) = 1 /\ job.writes[1].file = Live
  /\ job.open => job.pc \in {"dump", "backup"}

\* The location that is moved: in the source until the target is written, and then
\* in the target.
Carried ==
  moving # None /\ fails = 0 =>
    IF job.pc = "dump"
    THEN /\ Moves /\ Fold[moving.name] = Fold[job.name]
         /\ IF Len(job.writes) = 2 THEN Holds(Source, moving) /\ Among(moving, job.writes[1].list)
            ELSE Holds(Target, moving)
    ELSE Holds(Live, moving) \/ Holds(Trash, moving)

\* The locations deleted last: in the trash but while it is written, and in what
\* is written to it but for the one whose place is taken.
RetainedFor(k) ==
  deleted[k] # None =>
    /\ Fold[deleted[k].name] = k
    /\ \/ job.pc = "dump" /\ job.open /\ job.writes[1].file = Trash
       \/ Holds(Trash, deleted[k])
    /\ job.pc = "dump" => \A i \in DOMAIN job.writes :
         job.writes[i].file = Trash =>
           \/ Among(deleted[k], job.writes[i].list)
           \/ job.kind = "delete" /\ k = Fold[job.name]
Retained == fails = 0 => \A k \in Names : RetainedFor(k)

\* The backups: the last one is younger than the renamed ones, and the last good one
\* is the last, or, once that was renamed, one of them.
Good(b) == b # None /\ b.whole /\ b.locs = backed
Stacked ==
  /\ main \in Backups \cup {None}
  /\ DOMAIN dated \subseteq Nat /\ IsFiniteSet(DOMAIN dated) /\ Cardinality(DOMAIN dated) <= VersionLimit
  /\ \A m \in DOMAIN dated : dated[m] \in Backups /\ m <= minute
  /\ main # None => main.minute <= minute /\ \A m \in DOMAIN dated : m <= main.minute
  /\ job.pc = "backup" /\ ~job.open => main = None
  /\ job.pc = "backup" /\ job.open => main # None
  /\ backed # None =>
       IF main # None /\ ~(job.pc = "backup" /\ job.open) THEN Good(main)
       ELSE \E m \in DOMAIN dated : Good(dated[m])

FilesInv == Types /\ Asked /\ Planned /\ Carried /\ Retained /\ Stacked
-----------------------------------------------------------------------------
(* Lemmas about lists of locations.                                        *)

\* A list of locations is not None, and an element of it has a name.
LEMMA Elements ==
  ASSUME NEW s \in Seq(Locations)
  PROVE  /\ s # None /\ Len(s) \in Nat /\ DOMAIN s = 1..Len(s)
         /\ \A i \in DOMAIN s : s[i] \in Locations /\ s[i].name \in Names /\ s[i] # None
<1>1. s # None /\ Len(s) \in Nat /\ DOMAIN s = 1..Len(s)
  BY StationAssumption
<1>2. \A i \in DOMAIN s : s[i] \in Locations
  OBVIOUS
<1>3. \A e \in Locations : e.name \in Names /\ e # None
  BY StationAssumption DEF Locations
<1> QED
  BY <1>1, <1>2, <1>3

\* A list without one of its elements has the others.
LEMMA Removed ==
  ASSUME NEW s \in Seq(Locations), NEW k \in DOMAIN s
  PROVE  /\ RemoveAt(s, k) \in Seq(Locations)
         /\ \A i \in DOMAIN s : i # k => Among(s[i], RemoveAt(s, k))
<1> DEFINE a == SubSeq(s, 1, k - 1)
           b == SubSeq(s, k + 1, Len(s))
           r == RemoveAt(s, k)
<1>1. Len(s) \in Nat /\ k \in 1..Len(s) /\ k \in Int /\ DOMAIN s = 1..Len(s)
  BY Elements
<1>2. \A i \in 1..Len(s) : s[i] \in Locations
  BY <1>1
<1>3. a \in Seq(Locations) /\ Len(a) = k - 1 /\ \A i \in 1..(k - 1) : a[i] = s[i]
  <2>1. \A i \in 1..(k - 1) : s[i] \in Locations
    BY <1>1, <1>2
  <2>2. /\ a \in Seq(Locations) /\ Len(a) = IF 1 <= k - 1 THEN k - 1 - 1 + 1 ELSE 0
        /\ \A i \in 1..(k - 1 - 1 + 1) : a[i] = s[1 + i - 1]
    BY <1>1, <2>1, SubSeqProperties
  <2>3. \A i \in 1..(k - 1) : i \in 1..(k - 1 - 1 + 1) /\ 1 + i - 1 = i
    BY <1>1
  <2>4. Len(a) = k - 1
    BY <1>1, <2>2
  <2> QED
    BY <2>2, <2>3, <2>4
<1>4. b \in Seq(Locations) /\ Len(b) = Len(s) - k /\ \A i \in 1..(Len(s) - k) : b[i] = s[k + i]
  <2>1. \A i \in (k + 1)..Len(s) : s[i] \in Locations
    BY <1>1, <1>2
  <2>2. /\ b \in Seq(Locations) /\ Len(b) = IF k + 1 <= Len(s) THEN Len(s) - (k + 1) + 1 ELSE 0
        /\ \A i \in 1..(Len(s) - (k + 1) + 1) : b[i] = s[k + 1 + i - 1]
    BY <1>1, <2>1, SubSeqProperties
  <2>3. \A i \in 1..(Len(s) - k) : i \in 1..(Len(s) - (k + 1) + 1) /\ k + 1 + i - 1 = k + i
    BY <1>1
  <2>4. Len(b) = Len(s) - k
    BY <1>1, <2>2
  <2> QED
    BY <2>2, <2>3, <2>4
<1>5. r = a \o b
  BY DEF RemoveAt
<1> HIDE DEF a, b, r
<1>6. /\ a \o b \in Seq(Locations) /\ Len(a \o b) = Len(a) + Len(b)
      /\ \A i \in 1..(Len(a) + Len(b)) : (a \o b)[i] = IF i <= Len(a) THEN a[i] ELSE b[i - Len(a)]
  BY <1>3, <1>4, ConcatProperties
<1>7. r \in Seq(Locations) /\ DOMAIN r = 1..(Len(s) - 1)
  <2>1. r \in Seq(Locations) /\ Len(r) = Len(a) + Len(b)
    BY <1>5, <1>6
  <2>2. Len(a) + Len(b) = Len(s) - 1
    BY <1>1, <1>3, <1>4
  <2> QED
    BY <2>1, <2>2, Elements
<1>8. ASSUME NEW i \in DOMAIN s, i # k PROVE Among(s[i], r)
  <2>1. CASE i < k
    <3>1. i \in 1..(k - 1) /\ i \in 1..(Len(a) + Len(b)) /\ i <= Len(a) /\ i \in DOMAIN r
      BY <1>1, <1>3, <1>4, <1>7, <2>1
    <3>2. r[i] = a[i]
      BY <1>5, <1>6, <3>1
    <3>3. a[i] = s[i]
      BY <1>3, <3>1
    <3> QED
      BY <3>1, <3>2, <3>3 DEF Among
  <2>2. CASE i > k
    <3>0. i \in Nat /\ k \in Nat /\ i <= Len(s) /\ 1 <= k /\ k < i
      BY <1>1, <2>2
    <3>1. /\ i - 1 \in 1..(Len(a) + Len(b)) /\ ~(i - 1 <= Len(a)) /\ i - 1 \in DOMAIN r
          /\ i - 1 - Len(a) = i - k /\ i - k \in 1..(Len(s) - k) /\ k + (i - k) = i
      <4>1. Len(a) = k - 1 /\ Len(b) = Len(s) - k /\ DOMAIN r = 1..(Len(s) - 1)
        BY <1>3, <1>4, <1>7
      <4> HIDE DEF a, b, r
      <4>2. i - 1 \in 1..(Len(s) - 1) /\ (k - 1) + (Len(s) - k) = Len(s) - 1
        BY <1>1, <3>0
      <4>3. i - 1 - (k - 1) = i - k /\ ~(i - 1 <= k - 1)
        BY <3>0
      <4>4. i - k \in 1..(Len(s) - k) /\ k + (i - k) = i
        BY <1>1, <3>0
      <4> QED
        BY <4>1, <4>2, <4>3, <4>4
    <3>2. r[i - 1] = b[i - k]
      BY <1>5, <1>6, <3>1
    <3>3. b[i - k] = s[i]
      BY <1>4, <3>1
    <3> QED
      BY <3>1, <3>2, <3>3 DEF Among
  <2> QED
    BY <1>1, <1>8, <2>1, <2>2
<1> QED
  BY <1>7, <1>8 DEF r

\* The location of a name is one of those with the same folded name.
LEMMA FoundMatches ==
  ASSUME NEW s \in Seq(Locations), NEW n, Matches(s, n) # {}
  PROVE  /\ Min(Matches(s, n)) \in DOMAIN s /\ Found(s, n) \in Locations
         /\ Fold[Found(s, n).name] = Fold[n] /\ Among(Found(s, n), s)
<1>1. Matches(s, n) \subseteq Nat
  BY Elements DEF Matches
<1>2. Min(Matches(s, n)) \in Matches(s, n)
  BY <1>1, MinIsLeast
<1>3. Min(Matches(s, n)) \in DOMAIN s /\ Fold[s[Min(Matches(s, n))].name] = Fold[n]
  BY <1>2 DEF Matches
<1> QED
  BY <1>3, Elements DEF Found, Among

\* Taking a name out of a list leaves the locations of the other names.
LEMMA WithoutKeeps ==
  ASSUME NEW s \in Seq(Locations), NEW n
  PROVE  /\ Without(s, n) \in Seq(Locations)
         /\ \A e : Among(e, s) /\ Fold[e.name] # Fold[n] => Among(e, Without(s, n))
<1>1. CASE Matches(s, n) = {}
  BY <1>1 DEF Without
<1>2. CASE Matches(s, n) # {}
  <2> DEFINE k == Min(Matches(s, n))
  <2>1. k \in DOMAIN s /\ Fold[s[k].name] = Fold[n]
    BY <1>2, FoundMatches DEF Found
  <2>2. Without(s, n) = RemoveAt(s, k)
    BY <1>2 DEF Without
  <2> HIDE DEF k
  <2>3. /\ RemoveAt(s, k) \in Seq(Locations)
        /\ \A i \in DOMAIN s : i # k => Among(s[i], RemoveAt(s, k))
    BY <2>1, Removed
  <2>4. ASSUME NEW e, Among(e, s), Fold[e.name] # Fold[n] PROVE Among(e, RemoveAt(s, k))
    <3>1. PICK i \in DOMAIN s : s[i] = e
      BY <2>4 DEF Among
    <3>2. i # k
      BY <2>1, <2>4, <3>1
    <3> QED
      BY <2>3, <3>1, <3>2
  <2> QED
    BY <2>2, <2>3, <2>4
<1> QED
  BY <1>1, <1>2

\* A location goes to the end of a list.
LEMMA AppendedAmong ==
  ASSUME NEW s \in Seq(Locations), NEW e \in Locations
  PROVE  /\ Append(s, e) \in Seq(Locations) /\ Among(e, Append(s, e))
         /\ \A x : Among(x, s) => Among(x, Append(s, e))
<1>1. /\ Append(s, e) \in Seq(Locations) /\ Len(Append(s, e)) = Len(s) + 1
      /\ \A i \in 1..Len(s) : Append(s, e)[i] = s[i]
      /\ Append(s, e)[Len(s) + 1] = e
  BY AppendProperties
<1> DEFINE r == Append(s, e)
<1> HIDE DEF r
<1>2. Len(s) \in Nat /\ DOMAIN s = 1..Len(s) /\ DOMAIN r = 1..(Len(s) + 1)
  BY <1>1, Elements DEF r
<1>3. Len(s) + 1 \in DOMAIN r /\ \A i \in DOMAIN s : i \in DOMAIN r
  BY <1>2
<1> QED
  BY <1>1, <1>2, <1>3 DEF r, Among

\* What an interrupted write leaves is a list of locations.
LEMMA LeftoversType ==
  ASSUME NEW s \in Seq(Locations)
  PROVE  Leftovers(s) \subseteq Seq(Locations)
<1>1. Len(s) \in Nat /\ \A i \in 1..Len(s) : s[i] \in Locations
  BY Elements
<1>2. \A k \in 0..Len(s) : SubSeq(s, 1, k) \in Seq(Locations)
  <2> SUFFICES ASSUME NEW k \in 0..Len(s) PROVE SubSeq(s, 1, k) \in Seq(Locations)
    OBVIOUS
  <2>1. \A i \in 1..k : s[i] \in Locations
    BY <1>1
  <2>2. k \in Int
    BY <1>1
  <2> QED
    BY <2>1, <2>2, SubSeqProperties
<1>3. \A k \in 1..Len(s) : [s[k] EXCEPT !.data = Torn] \in Locations
  <2>1. \A e \in Locations : [e EXCEPT !.data = Torn] \in Locations
    BY DEF Locations
  <2> QED
    BY <1>1, <2>1
<1>4. \A k \in 1..Len(s) :
        Append(SubSeq(s, 1, k - 1), [s[k] EXCEPT !.data = Torn]) \in Seq(Locations)
  <2> SUFFICES ASSUME NEW k \in 1..Len(s)
               PROVE  Append(SubSeq(s, 1, k - 1), [s[k] EXCEPT !.data = Torn]) \in Seq(Locations)
    OBVIOUS
  <2>1. k - 1 \in 0..Len(s)
    BY <1>1
  <2>2. SubSeq(s, 1, k - 1) \in Seq(Locations)
    BY <1>2, <2>1
  <2>3. PICK e : e = [s[k] EXCEPT !.data = Torn]
    OBVIOUS
  <2>4. e \in Locations
    BY <1>3, <2>3
  <2> QED
    BY <2>2, <2>3, <2>4, AppendProperties
<1> QED
  BY <1>2, <1>4 DEF Leftovers
-----------------------------------------------------------------------------
(* Lemmas about the renamed backups.                                       *)

LEMMA LimitType == VersionLimit \in Nat /\ 0 < VersionLimit
BY StationAssumption DEF VersionLimit

\* Of n members of a set of numbers, those with fewer than L greater ones are at
\* most L, since all but the least of them are greater than that one.
LEMMA NewestFew ==
  ASSUME NEW S, S \subseteq Nat, IsFiniteSet(S), NEW L \in Nat, 0 < L
  PROVE  LET K == {m \in S : Cardinality({n \in S : n > m}) < L}
         IN  IsFiniteSet(K) /\ Cardinality(K) <= L
<1> DEFINE Above(m) == {n \in S : n > m}
           K == {m \in S : Cardinality(Above(m)) < L}
<1>1. K \subseteq S /\ IsFiniteSet(K)
  BY FS_Subset
<1>2. CASE K = {}
  <2>1. Cardinality(K) = 0
    BY <1>2, FS_EmptySet
  <2> QED
    BY <1>1, <2>1
<1>3. CASE K # {}
  <2>1. PICK m \in K : \A j \in K : m <= j
    BY <1>1, <1>3, LeastExists
  <2>2. m \in S /\ Cardinality(Above(m)) < L
    OBVIOUS
  <2> HIDE DEF K
  <2>3. K \ {m} \subseteq Above(m)
    <3> SUFFICES ASSUME NEW j \in K, j # m PROVE j \in S /\ j > m
      OBVIOUS
    <3>1. m <= j /\ j \in S /\ j \in Nat /\ m \in Nat
      BY <1>1, <2>1, <2>2
    <3> QED
      BY <3>1
  <2>4. IsFiniteSet(Above(m)) /\ Cardinality(Above(m)) \in Nat
    BY FS_Subset, FS_CardinalityType
  <2>5. Cardinality(K \ {m}) <= Cardinality(Above(m))
    BY <2>3, <2>4, FS_Subset
  <2>6. Cardinality(K \ {m}) = Cardinality(K) - 1
    BY <1>1, FS_RemoveElement
  <2>7. Cardinality(K) \in Nat
    BY <1>1, FS_CardinalityType
  <2> HIDE DEF Above
  <2>8. \A a, c \in Nat : a < L /\ c - 1 <= a => c <= L
    OBVIOUS
  <2>9. Cardinality(K) <= L
    BY <2>2, <2>4, <2>5, <2>6, <2>7, <2>8
  <2> QED
    BY <1>1, <2>9 DEF K, Above
<1> QED
  BY <1>2, <1>3

\* SaveOldBackups keeps at most as many as it may, and the newest.
LEMMA PrunedKeeps ==
  ASSUME NEW d, DOMAIN d \subseteq Nat, IsFiniteSet(DOMAIN d), NEW y \in DOMAIN d,
         \A m \in DOMAIN d : m <= y
  PROVE  /\ DOMAIN Pruned(d) \subseteq DOMAIN d /\ IsFiniteSet(DOMAIN Pruned(d))
         /\ Cardinality(DOMAIN Pruned(d)) <= VersionLimit
         /\ \A m \in DOMAIN Pruned(d) : Pruned(d)[m] = d[m]
         /\ y \in DOMAIN Pruned(d)
<1> DEFINE K == {m \in DOMAIN d : Cardinality({n \in DOMAIN d : n > m}) < VersionLimit}
<1>1. DOMAIN Pruned(d) = K /\ \A m \in K : Pruned(d)[m] = d[m]
  BY DEF Pruned
<1>2. IsFiniteSet(K) /\ Cardinality(K) <= VersionLimit
  BY LimitType, NewestFew
<1>3. y \in K
  <2>1. {n \in DOMAIN d : n > y} = {}
    OBVIOUS
  <2>2. Cardinality({n \in DOMAIN d : n > y}) < VersionLimit
    BY <2>1, LimitType, FS_EmptySet
  <2> QED
    BY <2>2
<1> QED
  BY <1>1, <1>2, <1>3

-----------------------------------------------------------------------------
(* Steps that leave a part of the state alone.                             *)

LEMMA StackedSame ==
  ASSUME Stacked, UNCHANGED <<main, dated, backed, minute>>,
         job.pc # "backup", job'.pc # "backup"
  PROVE  Stacked'
BY DEF Stacked, Good

LEMMA RetainedSame ==
  ASSUME Retained, UNCHANGED <<files, deleted>>, fails' = 0 => fails = 0,
         job.pc # "dump", job'.pc # "dump"
  PROVE  Retained'
BY DEF Retained, RetainedFor, Holds

LEMMA CarriedSame ==
  ASSUME Carried, UNCHANGED <<files, moving>>, fails' = 0 => fails = 0,
         job.pc # "dump", job'.pc # "dump"
  PROVE  Carried'
BY DEF Carried, Holds

\* The steps of the refresh and the backup: no write is planned, nothing is moved.
LEMMA AfterKeeps ==
  ASSUME FilesInv, UNCHANGED <<files, moving, deleted>>, fails' = 0 => fails = 0, fails' \in Nat,
         minute' \in Nat,
         job.pc # "dump", job' \in Jobs, job'.pc \notin {"load", "dump"},
         job'.open => job'.pc = "backup", Stacked'
  PROVE  FilesInv'
<1>1. Types'
  BY DEF FilesInv, Types
<1>2. Asked'
  BY DEF Asked
<1>3. Planned'
  BY DEF Planned
<1>4. Carried'
  BY CarriedSame DEF FilesInv
<1>5. Retained'
  BY RetainedSame DEF FilesInv
<1> QED
  BY <1>1, <1>2, <1>3, <1>4, <1>5 DEF FilesInv

\* A copy that waits for an operation.
LEMMA IdleJob == Idle \in Jobs /\ Idle.pc = "idle" /\ Idle.open = FALSE /\ Idle.writes = <<>>
<1>1. <<>> \in Seq(Writes)
  OBVIOUS
<1> QED
  BY <1>1 DEF Idle, Jobs
-----------------------------------------------------------------------------
(* The refresh of the window and the backup.                               *)

LEMMA BuildTreeKeeps ==
  ASSUME FilesInv, BuildTree
  PROVE  FilesInv'
<1>1. job \in Jobs /\ fails \in Nat /\ minute \in Nat /\ (job.open => job.pc \in {"dump", "backup"}) /\ Stacked
  BY DEF FilesInv, Types, Planned
<1>2. job.pc = "build"
  BY DEF BuildTree
<1>3. UNCHANGED <<files, main, dated, minute, fails, moving, deleted, backed>>
  BY DEF BuildTree
<1>4. job' = IF job.backup THEN [job EXCEPT !.pc = "rename"] ELSE Idle
  BY DEF BuildTree
<1>5. /\ [job EXCEPT !.pc = "rename"] \in Jobs
      /\ [job EXCEPT !.pc = "rename"].pc = "rename" /\ [job EXCEPT !.pc = "rename"].open = job.open
  BY <1>1 DEF Jobs
<1>6. job' \in Jobs /\ job'.pc \in {"rename", "idle"} /\ (job'.open => job.open)
  BY <1>4, <1>5, IdleJob
<1>7. Stacked'
  BY <1>1, <1>2, <1>3, <1>6, StackedSame
<1> QED
  BY <1>1, <1>2, <1>3, <1>6, <1>7, AfterKeeps

LEMMA BackupBusyKeeps ==
  ASSUME FilesInv, BackupBusy
  PROVE  FilesInv'
<1>1. fails \in Nat /\ minute \in Nat /\ Stacked
  BY DEF FilesInv, Types
<1>2. job.pc = "backup" /\ ~job.open
  BY DEF BackupBusy
<1>3. UNCHANGED <<files, main, dated, minute, fails, moving, deleted, backed>> /\ job' = Idle
  BY DEF BackupBusy
<1>4. job' \in Jobs /\ job'.pc = "idle" /\ ~job'.open
  BY <1>3, IdleJob
<1>5. Stacked'
  BY <1>1, <1>2, <1>3, <1>4 DEF Stacked, Good
<1> QED
  BY <1>1, <1>2, <1>3, <1>4, <1>5, AfterKeeps

\* What is written of a backup, whole or not.
LEMMA BackupTypes ==
  ASSUME NEW w \in BOOLEAN, NEW l \in Seq(Locations) \cup {None}, NEW m \in Nat
  PROVE  LET b == [whole |-> w, locs |-> l, minute |-> m]
         IN  b \in Backups /\ b # None /\ b.whole = w /\ b.locs = l /\ b.minute = m
<1> DEFINE b == [whole |-> w, locs |-> l, minute |-> m]
<1>1. b \in Backups
  BY DEF Backups
<1> QED
  BY <1>1, StationAssumption

LEMMA CopiedType ==
  ASSUME Types
  PROVE  LocationsCopied \in Seq(Locations) \cup {None}
<1>1. files[Live].list \in Seq(Locations)
  BY DEF Types
<1> QED
  BY <1>1 DEF LocationsCopied

LEMMA BackupOpenKeeps ==
  ASSUME FilesInv, BackupOpen
  PROVE  FilesInv'
<1>1. job \in Jobs /\ fails \in Nat /\ minute \in Nat /\ Stacked
  BY DEF FilesInv, Types
<1>2. job.pc = "backup" /\ ~job.open
  BY DEF BackupOpen
<1>3. UNCHANGED <<files, dated, minute, fails, moving, deleted, backed>>
  BY DEF BackupOpen
<1>4. main' = [whole |-> FALSE, locs |-> None, minute |-> minute]
  BY DEF BackupOpen
<1>5. main' \in Backups /\ main' # None /\ main'.minute = minute
  BY <1>1, <1>4, BackupTypes, ZenonT(60)
<1>6. job' \in Jobs /\ job'.pc = "backup" /\ job'.open
  <2>1. job' = [job EXCEPT !.open = TRUE]
    BY DEF BackupOpen
  <2> QED
    BY <1>1, <1>2, <2>1 DEF Jobs
<1>7. Stacked'
  <2>1. main = None
    BY <1>1, <1>2 DEF Stacked
  <2>2. backed # None => \E m \in DOMAIN dated : Good(dated[m])
    BY <1>1, <2>1 DEF Stacked
  <2>3. backed' # None => \E m \in DOMAIN dated' : Good(dated[m])'
    BY <1>3, <2>2 DEF Good
  <2>4. \A m \in DOMAIN dated : dated[m] \in Backups /\ m <= minute
    BY <1>1 DEF Stacked
  <2>5. minute <= minute
    BY <1>1
  <2> QED
    BY <1>1, <1>3, <1>5, <1>6, <2>3, <2>4, <2>5 DEF Stacked
<1> QED
  BY <1>1, <1>2, <1>3, <1>6, <1>7, AfterKeeps

LEMMA BackupCloseKeeps ==
  ASSUME FilesInv, BackupClose
  PROVE  FilesInv'
<1>1. fails \in Nat /\ minute \in Nat /\ Stacked /\ LocationsCopied \in Seq(Locations) \cup {None}
  BY CopiedType DEF FilesInv, Types
<1>2. job.pc = "backup" /\ job.open
  BY DEF BackupClose
<1>3. UNCHANGED <<files, dated, minute, fails, moving, deleted>> /\ job' = Idle
  BY DEF BackupClose
<1>4. /\ main' = [whole |-> LocationsCopied # None, locs |-> LocationsCopied, minute |-> minute]
      /\ backed' = LocationsCopied
  BY DEF BackupClose
<1>5. PICK w \in BOOLEAN : w = (LocationsCopied # None)
  <2>1. (LocationsCopied # None) \in BOOLEAN
    OBVIOUS
  <2> QED
    BY <2>1, Zenon
<1>6. PICK l \in Seq(Locations) \cup {None} : l = LocationsCopied
  BY <1>1
<1>7. /\ main' \in Backups /\ main' # None /\ main'.minute = minute
      /\ main'.locs = l /\ main'.whole = w
  <2>1. main' = [whole |-> w, locs |-> l, minute |-> minute]
    BY <1>4, <1>5, <1>6, Zenon
  <2> QED
    BY <1>1, <2>1, BackupTypes
<1>8. job' \in Jobs /\ job'.pc = "idle" /\ ~job'.open
  BY <1>3, IdleJob
<1>9. Stacked'
  <2>1. backed' # None => Good(main)'
    BY <1>4, <1>5, <1>6, <1>7 DEF Good
  <2>2. minute <= minute
    BY <1>1
  <2>3. \A m \in DOMAIN dated : dated[m] \in Backups /\ m <= minute
    BY <1>1 DEF Stacked
  <2> QED
    BY <1>1, <1>3, <1>7, <1>8, <2>1, <2>2, <2>3 DEF Stacked
<1> QED
  BY <1>1, <1>2, <1>3, <1>8, <1>9, AfterKeeps

\* The backup that was open keeps its minute, and promises nothing more.
LEMMA BackupStops ==
  ASSUME Types, Stacked, job.pc = "backup", job.open,
         NEW l \in {None, LocationsCopied}, main' = [main EXCEPT !.locs = l],
         UNCHANGED <<dated, minute>>, backed' = None, job'.pc # "backup"
  PROVE  Stacked'
<1>1. main \in Backups /\ main # None /\ main.minute <= minute
  BY DEF Stacked
<1>2. l \in Seq(Locations) \cup {None}
  BY CopiedType
<1>3. main' \in Backups /\ main'.minute = main.minute
  BY <1>1, <1>2 DEF Backups
<1>4. main' # None
  BY <1>3, StationAssumption
<1> QED
  BY <1>1, <1>3, <1>4 DEF Stacked

LEMMA BackupFailsKeeps ==
  ASSUME FilesInv, BackupFails
  PROVE  FilesInv'
<1>1. fails \in Nat /\ minute \in Nat /\ Stacked /\ Types
  BY DEF FilesInv, Types
<1>2. job.pc = "backup" /\ job.open
  BY DEF BackupFails
<1>3. UNCHANGED <<files, dated, minute, moving, deleted>> /\ job' = Idle /\ backed' = None
  BY DEF BackupFails
<1>4. fails' = fails + 1
  BY DEF BackupFails
<1>5. fails' \in Nat /\ fails' # 0
  BY <1>1, <1>4
<1>6. job' \in Jobs /\ job'.pc = "idle" /\ ~job'.open
  BY <1>3, IdleJob
<1>7. PICK l \in {None, LocationsCopied} : main' = [main EXCEPT !.locs = l]
  BY DEF BackupFails
<1>8. Stacked'
  BY <1>1, <1>2, <1>3, <1>6, <1>7, BackupStops
<1> QED
  BY <1>1, <1>2, <1>3, <1>5, <1>6, <1>8, AfterKeeps

LEMMA SaveOldBackupsKeeps ==
  ASSUME FilesInv, SaveOldBackups
  PROVE  FilesInv'
<1>1. job \in Jobs /\ fails \in Nat /\ minute \in Nat /\ (job.open => job.pc \in {"dump", "backup"}) /\ Stacked
  BY DEF FilesInv, Types, Planned
<1>2. job.pc = "rename" /\ ~job.open
  BY <1>1 DEF SaveOldBackups
<1>3. UNCHANGED <<files, minute, fails, moving, deleted, backed>>
  BY DEF SaveOldBackups
<1>4. job' \in Jobs /\ job'.pc = "backup" /\ ~job'.open
  <2>1. job' = [job EXCEPT !.pc = "backup"]
    BY DEF SaveOldBackups
  <2>2. \A j \in Jobs : [j EXCEPT !.pc = "backup"] \in Jobs /\ [j EXCEPT !.pc = "backup"].pc = "backup"
                        /\ [j EXCEPT !.pc = "backup"].open = j.open
    BY DEF Jobs
  <2> QED
    BY <1>1, <1>2, <2>1, <2>2
<1>5. Stacked'
  <2>1. CASE main = None
    <3>1. UNCHANGED <<main, dated>>
      BY <2>1 DEF SaveOldBackups
    <3> QED
      BY <1>1, <1>2, <1>3, <1>4, <2>1, <3>1 DEF Stacked, Good
  <2>2. CASE main # None
    <3> DEFINE y == main.minute
               d == [m \in DOMAIN dated \cup {y} |-> IF m = y THEN main ELSE dated[m]]
    <3>1. main' = None /\ dated' = Pruned(d)
      BY <2>2 DEF SaveOldBackups
    <3>2. main \in Backups /\ y <= minute /\ \A m \in DOMAIN dated : m <= y
      BY <1>1, <2>2 DEF Stacked
    <3>3. y \in Nat /\ y <= y
      BY <3>2 DEF Backups
    <3>4. /\ DOMAIN dated \subseteq Nat /\ IsFiniteSet(DOMAIN dated)
          /\ \A m \in DOMAIN dated : dated[m] \in Backups /\ m <= minute
      BY <1>1 DEF Stacked
    <3>5. /\ DOMAIN d = DOMAIN dated \cup {y} /\ d[y] = main
          /\ \A m \in DOMAIN d : d[m] = main \/ (m \in DOMAIN dated /\ d[m] = dated[m])
      <4> HIDE DEF y
      <4>1. DOMAIN d = DOMAIN dated \cup {y}
        OBVIOUS
      <4>2. \A m \in DOMAIN dated \cup {y} : d[m] = IF m = y THEN main ELSE dated[m]
        OBVIOUS
      <4> HIDE DEF d
      <4> QED
        BY <4>1, <4>2
    <3>6. /\ DOMAIN d \subseteq Nat /\ IsFiniteSet(DOMAIN d) /\ y \in DOMAIN d
          /\ \A m \in DOMAIN d : m <= y
      BY <3>2, <3>3, <3>4, <3>5, FS_AddElement
    <3>7. \A m \in DOMAIN d : d[m] \in Backups /\ m <= minute
      BY <3>2, <3>4, <3>5
    <3> HIDE DEF d, y
    <3>8. /\ DOMAIN dated' \subseteq DOMAIN d /\ IsFiniteSet(DOMAIN dated')
          /\ Cardinality(DOMAIN dated') <= VersionLimit
          /\ \A m \in DOMAIN dated' : dated'[m] = d[m]
          /\ y \in DOMAIN dated'
      BY <3>1, <3>6, PrunedKeeps
    <3>9. backed # None => Good(main)
      BY <1>1, <1>2, <2>2 DEF Stacked
    <3>10. backed' # None => \E m \in DOMAIN dated' : Good(dated[m])'
      <4>0. PICK k \in DOMAIN dated' : k = y
        BY <3>8
      <4>1. dated'[k] = main
        BY <3>5, <3>8, <4>0
      <4>2. Good(main) => Good(dated[k])'
        BY <1>3, <4>1 DEF Good
      <4> QED
        BY <1>3, <3>8, <3>9, <4>2
    <3>11. \A m \in DOMAIN dated' : dated'[m] \in Backups /\ m <= minute'
      BY <1>3, <3>7, <3>8
    <3>12. DOMAIN dated' \subseteq Nat
      BY <3>6, <3>8
    <3>13. main' \in Backups \cup {None}
      BY <3>1
    <3> QED
      BY <1>4, <3>1, <3>8, <3>10, <3>11, <3>12, <3>13 DEF Stacked
  <2> QED
    BY <2>1, <2>2
<1> QED
  BY <1>1, <1>2, <1>3, <1>4, <1>5, AfterKeeps
-----------------------------------------------------------------------------
(* The writes of the station files.                                        *)

\* The write that is under way and, after the first of a move, the other.
LEMMA DumpState ==
  ASSUME Types, Asked, Planned, job.pc = "dump"
  PROVE  /\ Head(job.writes) = job.writes[1] /\ Head(job.writes) \in Writes
         /\ job.writes[1].file \in {Live, Trash} /\ job.writes[1].list \in Seq(Locations)
         /\ Source # Target /\ {Source, Target} = {Live, Trash}
         /\ Len(job.writes) \in {1, 2}
         /\ Len(job.writes) = 1 =>
              /\ DOMAIN job.writes = {1}
              /\ Moves => job.writes[1].file = Source
              /\ ~Moves => job.writes[1].file = Live
         /\ Len(job.writes) = 2 =>
              /\ Moves /\ DOMAIN job.writes = {1, 2}
              /\ job.writes[1].file = Target /\ job.writes[2].file = Source
              /\ Tail(job.writes) \in Seq(Writes) /\ Len(Tail(job.writes)) = 1
              /\ Tail(job.writes)[1] = job.writes[2] /\ DOMAIN Tail(job.writes) = {1}
<1>1. PICK w \in Seq(Writes) : w = job.writes
  BY DEF Types, Jobs
<1>2. Len(w) \in {1, 2}
  BY <1>1 DEF Planned
<1>3. w # <<>> /\ 1 \in 1..Len(w) /\ DOMAIN w = 1..Len(w)
  <2>1. Len(w) \in Nat /\ DOMAIN w = 1..Len(w)
    BY LenProperties
  <2>3. w # <<>>
    <3> SUFFICES ASSUME w = <<>> PROVE FALSE
      OBVIOUS
    <3>1. Len(w) = 0
      OBVIOUS
    <3>2. \A n : n = 0 => n \notin {1, 2}
      OBVIOUS
    <3> QED
      BY <1>2, <3>1, <3>2, Zenon
  <2> QED
    BY <1>2, <2>1, <2>3
<1>4. Head(w) = w[1] /\ w[1] \in Writes
  BY <1>3, ElementOfSeq
<1>5. w[1].file \in {Live, Trash} /\ w[1].list \in Seq(Locations)
  BY <1>4 DEF Writes
<1>6. Source # Target /\ {Source, Target} = {Live, Trash}
  BY DEF Source, Target, Live, Trash
<1>7. CASE Len(w) = 1
  <2>1. DOMAIN w = {1}
    BY <1>3, <1>7
  <2>2. (Moves => w[1].file = Source) /\ (~Moves => w[1].file = Live)
    BY <1>1, <1>7 DEF Planned
  <2> QED
    BY <1>1, <1>4, <1>5, <1>6, <1>7, <2>1, <2>2, SMTT(30)
<1>8. CASE Len(w) = 2
  <2>1. DOMAIN w = {1, 2}
    BY <1>3, <1>8
  <2>2. Moves /\ w[1].file = Target /\ w[2].file = Source
    BY <1>1, <1>8 DEF Planned
  <2>3. /\ Tail(w) \in Seq(Writes) /\ Len(Tail(w)) = Len(w) - 1
        /\ \A i \in 1..Len(Tail(w)) : Tail(w)[i] = w[i + 1]
    BY <1>3, HeadTailProperties
  <2>4. Len(Tail(w)) = 1 /\ 1 \in 1..Len(Tail(w))
    BY <1>8, <2>3
  <2>5. Tail(w)[1] = w[2]
    BY <2>3, <2>4
  <2>6. DOMAIN Tail(w) = {1}
    <3>1. DOMAIN Tail(w) = 1..1
      BY <2>3, <2>4, LenProperties
    <3> QED
      BY <3>1
  <2> QED
    BY <1>1, <1>4, <1>5, <1>6, <1>8, <2>1, <2>2, <2>3, <2>4, <2>5, <2>6
<1> QED
  BY <1>2, <1>7, <1>8

\* The job after a dump: at an end, or before the other write of the move.
LEMMA AfterDumpJob ==
  ASSUME Types, Asked, Planned, job.pc = "dump", NEW failed, job' = AfterDump(failed)
  PROVE  /\ job' \in Jobs /\ job'.open = FALSE
         /\ job'.kind = job.kind /\ job'.name = job.name /\ job'.data = job.data
         /\ \/ job'.pc = "build"
            \/ job'.pc = "dump" /\ Len(job.writes) = 2 /\ job'.writes = Tail(job.writes)
         /\ Len(job.writes) = 1 => job'.pc = "build"
<1>1. job \in Jobs
  BY DEF Types
<1>2. CASE job' = [job EXCEPT !.pc = "build", !.writes = <<>>, !.open = FALSE]
  <2>1. <<>> \in Seq(Writes)
    OBVIOUS
  <2> QED
    BY <1>1, <1>2, <2>1 DEF Jobs
<1>3. CASE Len(job.writes) = 2 /\ job' = [job EXCEPT !.writes = Tail(job.writes), !.open = FALSE]
  <2>1. PICK t \in Seq(Writes) : t = Tail(job.writes)
    BY <1>3, DumpState
  <2>2. job' = [job EXCEPT !.writes = t, !.open = FALSE]
    BY <1>3, <2>1
  <2>3. /\ job' \in Jobs /\ job'.open = FALSE /\ job'.pc = "dump" /\ job'.writes = t
        /\ job'.kind = job.kind /\ job'.name = job.name /\ job'.data = job.data
    BY <1>1, <2>2 DEF Jobs
  <2>4. Len(job.writes) # 1
    BY <1>3
  <2> QED
    BY <1>3, <2>1, <2>3, <2>4
<1> QED
  <2>1. Len(job.writes) = 1 \/ Len(job.writes) = 2
    BY DumpState
  <2> QED
    BY <1>2, <1>3, <2>1 DEF AfterDump

\* Writing one file does nothing to the other.
LEMMA Written ==
  ASSUME Types, NEW g \in {Live, Trash}, NEW s \in Seq(Locations), NEW c \in BOOLEAN,
         files' = [files EXCEPT ![g] = [cut |-> c, list |-> s]]
  PROVE  /\ files' \in [{Live, Trash} -> [cut : BOOLEAN, list : Seq(Locations)]]
         /\ \A h \in {Live, Trash} : \A e : h # g /\ Holds(h, e) => Holds(h, e)'
         /\ ~c => \A e : Among(e, s) => Holds(g, e)'
<1>1. files \in [{Live, Trash} -> [cut : BOOLEAN, list : Seq(Locations)]]
  BY DEF Types
<1>2. PICK v \in [cut : BOOLEAN, list : Seq(Locations)] : v = [cut |-> c, list |-> s]
  OBVIOUS
<1>3. files' = [files EXCEPT ![g] = v]
  BY <1>2
<1>4. /\ files' \in [{Live, Trash} -> [cut : BOOLEAN, list : Seq(Locations)]]
      /\ files'[g] = v /\ \A h \in {Live, Trash} : h # g => files'[h] = files[h]
  BY <1>1, <1>3
<1>5. \A h \in {Live, Trash} : \A e : h # g /\ Holds(h, e) => Holds(h, e)'
  BY <1>4 DEF Holds
<1>6. v.list = s /\ v.cut = c
  BY <1>2
<1>7. ASSUME ~c, NEW e, Among(e, s) PROVE Holds(g, e)'
  <2>1. files'[g].list = s
    BY <1>4, <1>6
  <2>2. ~files'[g].cut
    BY <1>4, <1>6, <1>7
  <2> QED
    BY <1>7, <2>1, <2>2 DEF Holds, Among
<1> QED
  BY <1>4, <1>5, <1>7

LEMMA DumpOpenKeeps ==
  ASSUME FilesInv, DumpOpen
  PROVE  FilesInv'
<1>1. /\ Types /\ Asked /\ Planned /\ Carried /\ Retained /\ Stacked
      /\ job.pc = "dump" /\ job.open = FALSE /\ job \in Jobs
  BY DEF FilesInv, DumpOpen, Types, Jobs
<1> DEFINE g == job.writes[1].file
<1>2. g \in {Live, Trash} /\ Head(job.writes) = job.writes[1]
  BY <1>1, DumpState
<1>3. UNCHANGED <<main, dated, minute, fails, moving, deleted, backed>>
  BY DEF DumpOpen
<1>4. /\ job' \in Jobs /\ job'.open = TRUE
      /\ job'.pc = job.pc /\ job'.kind = job.kind /\ job'.name = job.name
      /\ job'.data = job.data /\ job'.writes = job.writes
  <2>1. job' = [job EXCEPT !.open = TRUE]
    BY DEF DumpOpen
  <2> QED
    BY <1>1, <2>1 DEF Jobs
<1>5. /\ files' \in [{Live, Trash} -> [cut : BOOLEAN, list : Seq(Locations)]]
      /\ \A h \in {Live, Trash} : \A e : h # g /\ Holds(h, e) => Holds(h, e)'
  <2>1. files' = [files EXCEPT ![g] = [cut |-> TRUE, list |-> <<>>]]
    BY <1>2 DEF DumpOpen, Part
  <2>2. <<>> \in Seq(Locations)
    OBVIOUS
  <2> HIDE DEF g
  <2> QED
    BY <1>1, <1>2, <2>1, <2>2, Written
<1>6. Moves' = Moves /\ Source' = Source /\ Target' = Target
  BY <1>4 DEF Moves, Source, Target
<1>7. Types'
  BY <1>1, <1>3, <1>4, <1>5 DEF Types
<1>8. Asked'
  BY <1>1, <1>4, <1>6 DEF Asked
<1>9. Planned'
  BY <1>1, <1>4, <1>6 DEF Planned
<1>10. Carried'
  <2> SUFFICES ASSUME moving # None, fails = 0
               PROVE  /\ Moves /\ Fold[moving.name] = Fold[job.name]
                      /\ IF Len(job.writes) = 2
                         THEN Holds(Source, moving)' /\ Among(moving, job.writes[1].list)
                         ELSE Holds(Target, moving)'
    <3>1. Among(moving, job.writes[1].list)' <=> Among(moving, job.writes[1].list)
      BY <1>3, <1>4 DEF Among
    <3> QED
      BY <1>1, <1>3, <1>4, <1>6, <3>1 DEF Carried
  <2>1. /\ Moves /\ Fold[moving.name] = Fold[job.name]
        /\ IF Len(job.writes) = 2
           THEN Holds(Source, moving) /\ Among(moving, job.writes[1].list)
           ELSE Holds(Target, moving)
    BY <1>1 DEF Carried
  <2>2. PICK a \in {Live, Trash}, b \in {Live, Trash} : a = Source /\ b = Target
    BY DEF Source, Target
  <2>3. CASE Len(job.writes) = 2
    <3>1. g # Source
      BY <1>1, <2>3, DumpState
    <3>2. Holds(a, moving) /\ a # g
      BY <2>1, <2>2, <2>3, <3>1
    <3>3. Holds(a, moving)'
      BY <1>3, <1>5, <3>2 DEF Holds
    <3>4. Holds(Source, moving)'
      BY <1>6, <2>2, <3>3 DEF Holds
    <3> QED
      BY <2>1, <2>3, <3>4
  <2>4. CASE Len(job.writes) # 2
    <3>1. g # Target
      BY <1>1, <2>1, <2>4, DumpState
    <3>2. Holds(b, moving) /\ b # g
      BY <2>1, <2>2, <2>4, <3>1
    <3>3. Holds(b, moving)'
      BY <1>3, <1>5, <3>2 DEF Holds
    <3>4. Holds(Target, moving)'
      BY <1>6, <2>2, <3>3 DEF Holds
    <3> QED
      BY <2>1, <2>4, <3>4
  <2> QED
    BY <2>3, <2>4
<1>11. Retained'
  <2> SUFFICES ASSUME fails = 0, NEW k \in Names, deleted[k] # None PROVE RetainedFor(k)'
    BY <1>3 DEF Retained, RetainedFor
  <2>1. /\ Fold[deleted[k].name] = k /\ Holds(Trash, deleted[k])
        /\ \A i \in DOMAIN job.writes :
             job.writes[i].file = Trash =>
               \/ Among(deleted[k], job.writes[i].list)
               \/ job.kind = "delete" /\ k = Fold[job.name]
    BY <1>1 DEF Retained, RetainedFor
  <2>2. g # Trash => Holds(Trash, deleted[k])'
    BY <1>3, <1>5, <2>1 DEF Holds
  <2> QED
    BY <1>1, <1>3, <1>4, <2>1, <2>2 DEF RetainedFor, Among
<1>12. Stacked'
  BY <1>1, <1>3, <1>4, StackedSame
<1> QED
  BY <1>7, <1>8, <1>9, <1>10, <1>11, <1>12 DEF FilesInv
\* After a dump, the writes that are left and the names they are for.
LEMMA AfterDumpPlan ==
  ASSUME Types, Asked, Planned, job.pc = "dump", NEW failed, job' = AfterDump(failed)
  PROVE  /\ Asked' /\ Planned' /\ Moves' = Moves /\ Source' = Source /\ Target' = Target
         /\ job'.pc = "dump" => Len(job'.writes) = 1 /\ Moves
<1>1. /\ job' \in Jobs /\ job'.open = FALSE
      /\ job'.kind = job.kind /\ job'.name = job.name /\ job'.data = job.data
      /\ \/ job'.pc = "build"
         \/ job'.pc = "dump" /\ Len(job.writes) = 2 /\ job'.writes = Tail(job.writes)
  BY AfterDumpJob
<1>2. Moves' = Moves /\ Source' = Source /\ Target' = Target
  BY <1>1 DEF Moves, Source, Target
<1>3. Len(job.writes) = 2 =>
        /\ Moves /\ Len(Tail(job.writes)) = 1
        /\ Tail(job.writes)[1] = job.writes[2] /\ job.writes[2].file = Source
  BY DumpState
<1>4. Asked'
  BY <1>1, <1>2 DEF Asked
<1>5. job'.pc = "dump" => Len(job'.writes) = 1 /\ Moves /\ job'.writes[1].file = Source
  BY <1>1, <1>3
<1>6. Planned'
  BY <1>1, <1>2, <1>5 DEF Planned
<1> QED
  BY <1>2, <1>4, <1>5, <1>6

\* A deletion changes the entry of one name.
LEMMA DeletedEntry ==
  ASSUME Types, Asked, job.pc = "dump", deleted' = Deleted
  PROVE  /\ deleted' \in [Names -> Locations \cup {None}]
         /\ \A k \in Names : \/ deleted'[k] = deleted[k] /\ (job.kind = "delete" => k # Fold[job.name])
                             \/ deleted'[k] = moving /\ job.kind = "delete" /\ k = Fold[job.name]
<1>1. deleted \in [Names -> Locations \cup {None}] /\ moving \in Locations \cup {None}
  BY DEF Types
<1>2. CASE job.kind = "delete"
  <2>1. job.name \in Names
    BY <1>2 DEF Asked, Moves
  <2>2. PICK n \in Names : n = Fold[job.name]
    BY <2>1, StationAssumption
  <2>3. deleted' = [deleted EXCEPT ![n] = moving]
    BY <1>2, <2>2 DEF Deleted
  <2>4. deleted' \in [Names -> Locations \cup {None}]
    BY <1>1, <2>3
  <2>5. \A k \in Names : deleted'[k] = IF k = n THEN moving ELSE deleted[k]
    BY <1>1, <2>3
  <2> QED
    BY <1>2, <2>2, <2>4, <2>5
<1>3. CASE job.kind # "delete"
  <2>1. deleted' = deleted
    BY <1>3 DEF Deleted
  <2> QED
    BY <1>1, <1>3, <2>1
<1> QED
  BY <1>2, <1>3

LEMMA DumpCloseKeeps ==
  ASSUME FilesInv, DumpClose
  PROVE  FilesInv'
<1>1. /\ Types /\ Asked /\ Planned /\ Carried /\ Retained /\ Stacked
      /\ job.pc = "dump" /\ job.open
  BY DEF FilesInv, DumpClose
<1>2. PICK g \in {Live, Trash}, s \in Seq(Locations) :
         g = job.writes[1].file /\ s = job.writes[1].list
  BY <1>1, DumpState
<1>3. UNCHANGED <<main, dated, minute, fails, moving, backed>>
  BY DEF DumpClose
<1>4. job' = AfterDump(FALSE)
  BY DEF DumpClose
<1>5. /\ job' \in Jobs /\ job'.open = FALSE
      /\ job'.kind = job.kind /\ job'.name = job.name
      /\ \/ job'.pc = "build"
         \/ job'.pc = "dump" /\ Len(job.writes) = 2 /\ job'.writes = Tail(job.writes)
  BY <1>1, <1>4, AfterDumpJob
<1>6. /\ Asked' /\ Planned' /\ Moves' = Moves /\ Source' = Source /\ Target' = Target
      /\ job'.pc = "dump" => Len(job'.writes) = 1 /\ Moves
  BY <1>1, <1>4, AfterDumpPlan
<1>7. /\ files' \in [{Live, Trash} -> [cut : BOOLEAN, list : Seq(Locations)]]
      /\ \A h \in {Live, Trash} : \A e : h # g /\ Holds(h, e) => Holds(h, e)'
      /\ \A e : Among(e, s) => Holds(g, e)'
  <2>1. Head(job.writes) = job.writes[1]
    BY <1>1, DumpState
  <2>2. files' = [files EXCEPT ![g] = [cut |-> FALSE, list |-> s]]
    BY <1>2, <2>1 DEF DumpClose, Whole
  <2> QED
    BY <1>1, <2>2, Written
<1>8. /\ deleted' \in [Names -> Locations \cup {None}]
      /\ \A k \in Names : \/ deleted'[k] = deleted[k] /\ (job.kind = "delete" => k # Fold[job.name])
                          \/ deleted'[k] = moving /\ job.kind = "delete" /\ k = Fold[job.name]
  <2>1. deleted' = Deleted
    BY DEF DumpClose
  <2> QED
    BY <1>1, <2>1, DeletedEntry
<1>9. Types'
  BY <1>1, <1>3, <1>5, <1>7, <1>8 DEF Types
<1>10. PICK a \in {Live, Trash}, b \in {Live, Trash} : a = Source /\ b = Target
  BY DEF Source, Target
\* The target holds what is moved once it is written, and the source may go.
<1>11. moving # None /\ fails = 0 =>
         Moves /\ Fold[moving.name] = Fold[job.name] /\ Holds(b, moving)'
  <2> SUFFICES ASSUME moving # None, fails = 0
               PROVE  Moves /\ Fold[moving.name] = Fold[job.name] /\ Holds(b, moving)'
    OBVIOUS
  <2>1. /\ Moves /\ Fold[moving.name] = Fold[job.name]
        /\ IF Len(job.writes) = 2
           THEN Holds(Source, moving) /\ Among(moving, job.writes[1].list)
           ELSE Holds(Target, moving)
    BY <1>1 DEF Carried
  <2>2. CASE Len(job.writes) = 2
    <3>1. g = b
      BY <1>1, <1>2, <1>10, <2>2, DumpState
    <3>2. Among(moving, s)
      BY <1>2, <2>1, <2>2
    <3>3. Holds(g, moving)'
      BY <1>3, <1>7, <3>2 DEF Holds
    <3> QED
      BY <2>1, <3>1, <3>3
  <2>3. CASE Len(job.writes) # 2
    <3>1. Len(job.writes) = 1
      BY <1>1, <2>3, DumpState
    <3>2. g # b
      BY <1>1, <1>2, <1>10, <2>1, <3>1, DumpState
    <3>3. Holds(b, moving)
      BY <1>10, <2>1, <2>3
    <3>4. Holds(b, moving)'
      BY <1>3, <1>7, <3>2, <3>3 DEF Holds
    <3> QED
      BY <2>1, <3>4
  <2> QED
    BY <2>2, <2>3
<1>12. Carried'
  <2> SUFFICES ASSUME moving # None, fails = 0
               PROVE  IF job'.pc = "dump"
                      THEN /\ Moves' /\ Fold[moving.name] = Fold[job'.name]
                           /\ Len(job'.writes) # 2 /\ Holds(Target, moving)'
                      ELSE Holds(Live, moving)' \/ Holds(Trash, moving)'
    BY <1>3 DEF Carried
  <2>1. Moves /\ Fold[moving.name] = Fold[job.name] /\ Holds(b, moving)'
    BY <1>11
  <2>2. CASE job'.pc = "dump"
    <3>1. Holds(Target, moving)'
      BY <1>6, <1>10, <2>1 DEF Holds
    <3>2. Len(job'.writes) # 2
      BY <1>6, <2>2
    <3> QED
      BY <1>5, <1>6, <2>1, <2>2, <3>1, <3>2
  <2>3. CASE job'.pc # "dump"
    <3>1. b = Live \/ b = Trash
      BY <1>10
    <3>2. Holds(Live, moving)' \/ Holds(Trash, moving)'
      BY <2>1, <3>1
    <3> QED
      BY <2>3, <3>2
  <2> QED
    BY <2>2, <2>3
<1>13. Retained'
  <2> SUFFICES ASSUME fails = 0, NEW k \in Names, deleted'[k] # None PROVE RetainedFor(k)'
    BY <1>3 DEF Retained, RetainedFor
  <2>1. CASE deleted'[k] = moving /\ job.kind = "delete" /\ k = Fold[job.name]
    <3>1. Fold[moving.name] = k /\ Holds(b, moving)'
      BY <1>11, <2>1
    <3>2. b = Trash
      BY <1>10, <2>1 DEF Target
    <3>3. Holds(Trash, deleted[k])'
      BY <1>3, <2>1, <3>1, <3>2 DEF Holds
    <3>4. job'.kind = "delete" /\ k = Fold[job'.name]
      BY <1>5, <2>1
    <3>5. Fold[deleted'[k].name] = k
      BY <2>1, <3>1
    <3> QED
      BY <3>3, <3>4, <3>5 DEF RetainedFor
  <2>2. CASE deleted'[k] = deleted[k] /\ (job.kind = "delete" => k # Fold[job.name])
    <3>1. PICK d : d = deleted[k]
      OBVIOUS
    <3>2. deleted'[k] = d /\ d # None
      BY <2>2, <3>1
    <3>3. /\ Fold[d.name] = k
          /\ g = Trash \/ Holds(Trash, d)
          /\ \A i \in DOMAIN job.writes : job.writes[i].file = Trash => Among(d, job.writes[i].list)
      <4>1. RetainedFor(k)
        BY <1>1 DEF Retained
      <4> QED
        BY <1>1, <1>2, <2>2, <3>1, <3>2, <4>1 DEF RetainedFor
    <3>4. Holds(Trash, d)'
      <4>1. CASE g = Trash
        <5>1. 1 \in DOMAIN job.writes
          BY <1>1, DumpState
        <5>2. Among(d, s)
          BY <1>2, <3>3, <4>1, <5>1
        <5> QED
          BY <1>7, <4>1, <5>2
      <4>2. CASE g # Trash
        <5>1. Holds(Trash, d)
          BY <3>3, <4>2
        <5> QED
          BY <1>7, <4>2, <5>1
      <4> QED
        BY <4>1, <4>2
    <3>5. Holds(Trash, deleted[k])'
      BY <3>2, <3>4 DEF Holds
    <3>6. job'.pc = "dump" => \A i \in DOMAIN job'.writes :
            job'.writes[i].file = Trash => Among(d, job'.writes[i].list)
      <4> SUFFICES ASSUME job'.pc = "dump"
                   PROVE  \A i \in DOMAIN job'.writes :
                            job'.writes[i].file = Trash => Among(d, job'.writes[i].list)
        OBVIOUS
      <4>1. Len(job.writes) = 2 /\ job'.writes = Tail(job.writes)
        BY <1>5
      <4>2. /\ DOMAIN job'.writes = {1} /\ job'.writes[1] = job.writes[2]
            /\ 2 \in DOMAIN job.writes
        BY <1>1, <4>1, DumpState
      <4> QED
        BY <3>3, <4>2
    <3>7. job'.pc = "dump" => \A i \in DOMAIN job'.writes :
            job'.writes[i].file = Trash => Among(deleted[k], job.writes[i].list)'
      BY <3>2, <3>6 DEF Among
    <3>8. Fold[deleted'[k].name] = k
      BY <3>2, <3>3
    <3> QED
      BY <3>5, <3>7, <3>8 DEF RetainedFor
  <2> QED
    BY <1>8, <2>1, <2>2
<1>14. Stacked'
  BY <1>1, <1>3, <1>5, StackedSame
<1> QED
  BY <1>6, <1>9, <1>12, <1>13, <1>14 DEF FilesInv
\* A write that stops leaves a part of the file, and the other file as it was.
LEMMA TornWrite ==
  ASSUME Types, Asked, Planned, job.pc = "dump",
         NEW p \in Leftovers(Head(job.writes).list),
         files' = [files EXCEPT ![Head(job.writes).file] = Part(p)]
  PROVE  /\ files' \in [{Live, Trash} -> [cut : BOOLEAN, list : Seq(Locations)]]
         /\ \A h \in {Live, Trash} : \A e :
              h # job.writes[1].file /\ Holds(h, e) => Holds(h, e)'
<1>1. PICK g \in {Live, Trash}, s \in Seq(Locations) :
         /\ g = job.writes[1].file /\ s = job.writes[1].list
         /\ Head(job.writes) = job.writes[1]
  BY DumpState
<1>2. p \in Seq(Locations)
  BY <1>1, LeftoversType
<1>3. files' = [files EXCEPT ![g] = [cut |-> TRUE, list |-> p]]
  BY <1>1 DEF Part
<1>4. /\ files' \in [{Live, Trash} -> [cut : BOOLEAN, list : Seq(Locations)]]
      /\ \A h \in {Live, Trash} : \A e : h # g /\ Holds(h, e) => Holds(h, e)'
  BY <1>2, <1>3, Written
<1> QED
  BY <1>1, <1>4

LEMMA DumpFailsKeeps ==
  ASSUME FilesInv, DumpFails
  PROVE  FilesInv'
<1>1. /\ Types /\ Asked /\ Planned /\ Stacked /\ job.pc = "dump" /\ fails \in Nat
  BY DEF FilesInv, DumpFails, Types
<1>2. UNCHANGED <<main, dated, minute, moving, deleted, backed>>
  BY DEF DumpFails
<1>3. fails' \in Nat /\ fails' # 0
  <2>1. fails' = fails + 1
    BY DEF DumpFails
  <2> QED
    BY <1>1, <2>1
<1>4. job' = AfterDump(TRUE)
  BY DEF DumpFails
<1>5. job' \in Jobs /\ job'.open = FALSE /\ job'.pc # "backup"
  BY <1>1, <1>4, AfterDumpJob
<1>6. Asked' /\ Planned'
  BY <1>1, <1>4, AfterDumpPlan
<1>7. files' \in [{Live, Trash} -> [cut : BOOLEAN, list : Seq(Locations)]]
  <2>1. CASE UNCHANGED files
    BY <1>1, <2>1 DEF Types
  <2>2. CASE \E p \in Leftovers(Head(job.writes).list) :
               files' = [files EXCEPT ![Head(job.writes).file] = Part(p)]
    BY <1>1, <2>2, TornWrite
  <2> QED
    BY <2>1, <2>2 DEF DumpFails
<1>8. Types'
  BY <1>1, <1>2, <1>3, <1>5, <1>7 DEF Types
<1>9. Carried' /\ Retained'
  BY <1>3 DEF Carried, Retained
<1>10. Stacked'
  BY <1>1, <1>2, <1>5, StackedSame
<1> QED
  BY <1>6, <1>8, <1>9, <1>10 DEF FilesInv

LEMMA CrashKeeps ==
  ASSUME FilesInv, Crash
  PROVE  FilesInv'
<1>1. /\ Types /\ Asked /\ Planned /\ Carried /\ Retained /\ Stacked
      /\ fails \in Nat /\ minute \in Nat
  BY DEF FilesInv, Types
<1>2. UNCHANGED <<dated, minute, fails, moving>>
  BY DEF Crash
<1>3. job' \in Jobs /\ job'.open = FALSE /\ job'.pc = "build"
  <2>1. job' = [Idle EXCEPT !.kind = "start", !.pc = "build"]
    BY DEF Crash
  <2> QED
    BY <2>1, IdleJob DEF Jobs
<1> DEFINE Torn_ == job.pc = "dump" /\ job.open
           Trashed == Torn_ /\ job.writes[1].file = Trash
\* What was not being written is as it was.
<1>4. /\ files' \in [{Live, Trash} -> [cut : BOOLEAN, list : Seq(Locations)]]
      /\ \A h \in {Live, Trash} : \A e :
           ~(Torn_ /\ h = job.writes[1].file) /\ Holds(h, e) => Holds(h, e)'
  <2>1. CASE Torn_
    <3>1. PICK p \in Leftovers(Head(job.writes).list) :
             files' = [files EXCEPT ![Head(job.writes).file] = Part(p)]
      BY <2>1 DEF Crash
    <3> QED
      BY <1>1, <2>1, <3>1, TornWrite
  <2>2. CASE ~Torn_
    <3>1. UNCHANGED files
      BY <2>2 DEF Crash
    <3> QED
      BY <1>1, <3>1 DEF Types, Holds
  <2> QED
    BY <2>1, <2>2
<1>5. deleted' = IF Trashed THEN [k \in Names |-> None] ELSE deleted
  <2>1. job.pc = "dump" => Head(job.writes) = job.writes[1]
    BY <1>1, DumpState
  <2>2. Live # Trash
    BY DEF Live, Trash
  <2> QED
    BY <2>1, <2>2 DEF Crash
<1>6. Types'
  <2>1. deleted' \in [Names -> Locations \cup {None}]
    BY <1>1, <1>5 DEF Types
  <2> QED
    BY <1>1, <1>2, <1>3, <1>4, <2>1 DEF Types
<1>7. Asked' /\ Planned'
  BY <1>3 DEF Asked, Planned
<1>8. Carried'
  <2> SUFFICES ASSUME moving # None, fails = 0 PROVE Holds(Live, moving)' \/ Holds(Trash, moving)'
    BY <1>2, <1>3 DEF Carried
  <2>1. CASE job.pc = "dump"
    <3>1. /\ Moves
          /\ IF Len(job.writes) = 2
             THEN Holds(Source, moving) /\ Among(moving, job.writes[1].list)
             ELSE Holds(Target, moving)
      BY <1>1, <2>1 DEF Carried
    <3>2. PICK h \in {Live, Trash} : h # job.writes[1].file /\ Holds(h, moving)
      <4>1. Source \in {Live, Trash} /\ Target \in {Live, Trash} /\ Source # Target
        BY DEF Source, Target, Live, Trash
      <4>2. CASE Len(job.writes) = 2
        <5>1. job.writes[1].file = Target
          BY <1>1, <2>1, <4>2, DumpState
        <5> QED
          BY <3>1, <4>1, <4>2, <5>1
      <4>3. CASE Len(job.writes) # 2
        <5>1. job.writes[1].file = Source
          BY <1>1, <2>1, <3>1, <4>3, DumpState
        <5> QED
          BY <3>1, <4>1, <4>3, <5>1
      <4> QED
        BY <4>2, <4>3
    <3>3. Holds(h, moving)'
      BY <1>2, <1>4, <3>2 DEF Holds
    <3> QED
      BY <3>2, <3>3
  <2>2. CASE job.pc # "dump"
    <3>1. PICK h \in {Live, Trash} : Holds(h, moving)
      BY <1>1, <2>2 DEF Carried
    <3>2. Holds(h, moving)'
      BY <1>2, <1>4, <2>2, <3>1 DEF Holds
    <3> QED
      BY <3>1, <3>2
  <2> QED
    BY <2>1, <2>2
<1>9. Retained'
  <2> SUFFICES ASSUME fails = 0, NEW k \in Names, deleted'[k] # None PROVE RetainedFor(k)'
    BY <1>2 DEF Retained, RetainedFor
  <2>1. ~Trashed /\ deleted' = deleted
    BY <1>5
  <2>2. PICK d : d = deleted[k]
    OBVIOUS
  <2>3. RetainedFor(k) /\ d # None
    BY <1>1, <2>1, <2>2 DEF Retained
  <2>4. Fold[d.name] = k /\ Holds(Trash, d)
    BY <2>1, <2>2, <2>3 DEF RetainedFor
  <2>5. Holds(Trash, d)'
    BY <1>4, <2>1, <2>4
  <2>6. Holds(Trash, deleted[k])'
    BY <2>1, <2>2, <2>5 DEF Holds
  <2> QED
    BY <1>3, <2>1, <2>2, <2>4, <2>6 DEF RetainedFor
<1>10. Stacked'
  <2>1. CASE job.pc = "backup" /\ job.open
    <3>1. PICK l \in {None, LocationsCopied} : main' = [main EXCEPT !.locs = l]
      BY <2>1 DEF Crash
    <3>2. backed' = None
      BY <2>1 DEF Crash
    <3> QED
      BY <1>1, <1>2, <1>3, <2>1, <3>1, <3>2, BackupStops
  <2>2. CASE ~(job.pc = "backup" /\ job.open)
    <3>1. UNCHANGED <<main, backed>>
      BY <2>2 DEF Crash
    <3> QED
      BY <1>1, <1>2, <1>3, <2>2, <3>1 DEF Stacked, Good
  <2> QED
    BY <2>1, <2>2
<1> QED
  BY <1>6, <1>7, <1>8, <1>9, <1>10 DEF FilesInv

LEMMA TickKeeps ==
  ASSUME FilesInv, Tick
  PROVE  FilesInv'
<1>1. UNCHANGED <<files, job, main, dated, fails, moving, deleted, backed>> /\ minute' = minute + 1
  BY DEF Tick
<1>2. minute \in Nat /\ minute' \in Nat /\ \A m \in Nat : m <= minute => m <= minute'
  BY <1>1 DEF FilesInv, Types
<1>3. Types'
  BY <1>1, <1>2 DEF FilesInv, Types
<1>4. Asked'
  BY <1>1 DEF FilesInv, Asked, Moves
<1>5. Planned'
  BY <1>1 DEF FilesInv, Planned, Moves, Source, Target
<1>6. Carried'
  BY <1>1 DEF FilesInv, Carried, Moves, Source, Target, Holds, Among
<1>7. Retained'
  BY <1>1 DEF FilesInv, Retained, RetainedFor, Holds, Among
<1>8. Stacked'
  <2>1. Stacked
    BY DEF FilesInv
  <2>2. main # None => main.minute \in Nat
    BY <2>1 DEF Stacked, Backups
  <2>3. \A m \in DOMAIN dated : m \in Nat
    BY <2>1 DEF Stacked
  <2> QED
    BY <1>1, <1>2, <2>1, <2>2, <2>3 DEF Stacked, Good
<1> QED
  BY <1>3, <1>4, <1>5, <1>6, <1>7, <1>8 DEF FilesInv
-----------------------------------------------------------------------------
(* Operations begin.                                                       *)

Requested(kind, n, d) ==
  \/ kind \in {"delete", "undelete"} /\ n \in Names /\ d = None
  \/ kind \in {"save", "empty"} /\ n \in Names /\ d \in Contents
  \/ kind = "merge" /\ n = None /\ d \in Seq(Locations)
  \/ kind = "cancel" /\ n = None /\ d = None

LEMMA BeginKeeps ==
  ASSUME FilesInv, NEW kind, NEW n, NEW d, NEW b \in BOOLEAN, Requested(kind, n, d),
         Begin(kind, n, d, b)
  PROVE  FilesInv'
<1>1. /\ Types /\ Carried /\ Retained /\ Stacked /\ job.pc = "idle"
  BY DEF FilesInv, Begin
<1>2. UNCHANGED <<files, main, dated, minute, fails, deleted, backed>> /\ moving' = None
  BY DEF Begin
<1>3. PICK pc \in {"build", "load"} : pc = (IF kind = "cancel" THEN "build" ELSE "load")
  OBVIOUS
<1>4. job' = [kind |-> kind, pc |-> pc, name |-> n, data |-> d, writes |-> <<>>,
              open |-> FALSE, backup |-> b]
  <2>1. job' = [Idle EXCEPT !.kind = kind, !.name = n, !.data = d, !.backup = b, !.pc = pc]
    BY <1>3 DEF Begin
  <2> QED
    BY <2>1 DEF Idle
<1>5. /\ kind \in {"idle", "start", "cancel", "delete", "undelete", "save", "empty", "merge"}
      /\ n \in Names \cup {None} /\ d \in Contents \cup {None} \cup Seq(Locations)
  BY DEF Requested
<1>6. job' \in Jobs
  <2>1. <<>> \in Seq(Writes)
    OBVIOUS
  <2> QED
    BY <1>3, <1>4, <1>5, <2>1 DEF Jobs
<1>7. /\ job'.pc = pc /\ job'.kind = kind /\ job'.name = n /\ job'.data = d /\ job'.open = FALSE
  BY <1>4
<1>8. pc = "load" => kind # "cancel"
  BY <1>3
<1>9. Types'
  BY <1>1, <1>2, <1>6 DEF Types
<1>10. Asked'
  BY <1>7, <1>8 DEF Asked, Requested, Moves
<1>11. Planned'
  BY <1>3, <1>7 DEF Planned
<1>12. Carried'
  BY <1>2 DEF Carried
<1>13. Retained'
  BY <1>1, <1>2, <1>3, <1>7, RetainedSame
<1>14. Stacked'
  BY <1>1, <1>2, <1>3, <1>7, StackedSame
<1> QED
  BY <1>9, <1>10, <1>11, <1>12, <1>13, <1>14 DEF FilesInv

LEMMA OperationsKeep ==
  ASSUME FilesInv,
         \/ \E n \in Names : OnLocDelete(n) \/ OnLocUndelete(n)
         \/ \E n \in Names, d \in Contents : RunStationWizard(n, d) \/ SaveEmpty(n, d)
         \/ CancelWizard
  PROVE  FilesInv'
<1>1. ASSUME NEW n \in Names, OnLocDelete(n) PROVE FilesInv'
  <2>1. PICK b \in BOOLEAN : Begin("delete", n, None, b)
    BY <1>1 DEF OnLocDelete
  <2> QED
    BY <2>1, BeginKeeps DEF Requested
<1>2. ASSUME NEW n \in Names, OnLocUndelete(n) PROVE FilesInv'
  <2>1. Begin("undelete", n, None, TRUE)
    BY <1>2 DEF OnLocUndelete
  <2> QED
    BY <2>1, BeginKeeps DEF Requested
<1>3. ASSUME NEW n \in Names, NEW d \in Contents, RunStationWizard(n, d) PROVE FilesInv'
  <2>1. PICK b \in BOOLEAN : Begin("save", n, d, b)
    BY <1>3 DEF RunStationWizard
  <2> QED
    BY <2>1, BeginKeeps DEF Requested
<1>4. ASSUME NEW n \in Names, NEW d \in Contents, SaveEmpty(n, d) PROVE FilesInv'
  <2>1. Begin("empty", n, d, FALSE)
    BY <1>4 DEF SaveEmpty
  <2> QED
    BY <2>1, BeginKeeps DEF Requested
<1>5. ASSUME CancelWizard PROVE FilesInv'
  <2>1. Begin("cancel", None, None, TRUE)
    BY <1>5 DEF CancelWizard
  <2> QED
    BY <2>1, BeginKeeps DEF Requested
<1> QED
  BY <1>1, <1>2, <1>3, <1>4, <1>5

LEMMA OnLoadConfigKeeps ==
  ASSUME FilesInv,
         OnLoadConfig(main) \/ \E m \in DOMAIN dated : OnLoadConfig(dated[m])
  PROVE  FilesInv'
<1>1. ASSUME NEW b \in Backups \cup {None}, OnLoadConfig(b) PROVE FilesInv'
  <2>1. b.locs \in Seq(Locations)
    BY <1>1 DEF OnLoadConfig, Backups
  <2>2. PICK l \in Seq(Locations) : l = b.locs
    BY <2>1
  <2>3. Begin("merge", None, l, FALSE)
    BY <1>1, <2>2 DEF OnLoadConfig
  <2> QED
    BY <2>3, BeginKeeps DEF Requested
<1>2. /\ main \in Backups \cup {None}
      /\ \A m \in DOMAIN dated : dated[m] \in Backups
  BY DEF FilesInv, Stacked
<1> QED
  BY <1>1, <1>2

-----------------------------------------------------------------------------
(* What an operation is going to write.                                    *)

LEMMA OneWrite ==
  ASSUME NEW f \in {Live, Trash}, NEW s \in Seq(Locations)
  PROVE  LET w == <<[file |-> f, list |-> s]>>
         IN  /\ w \in Seq(Writes) /\ w # None /\ Len(w) = 1 /\ DOMAIN w = {1}
             /\ w[1].file = f /\ w[1].list = s
<1>1. PICK r \in Writes : r = [file |-> f, list |-> s]
  BY DEF Writes
<1>2. <<r>> \in Seq(Writes) /\ Len(<<r>>) = 1 /\ <<r>>[1] = r /\ DOMAIN <<r>> = {1}
  OBVIOUS
<1>3. <<r>> # None
  BY <1>2, StationAssumption
<1> QED
  BY <1>1, <1>2, <1>3

LEMMA TwoWrites ==
  ASSUME NEW f \in {Live, Trash}, NEW s \in Seq(Locations),
         NEW g \in {Live, Trash}, NEW t \in Seq(Locations)
  PROVE  LET w == <<[file |-> f, list |-> s], [file |-> g, list |-> t]>>
         IN  /\ w \in Seq(Writes) /\ w # None /\ Len(w) = 2 /\ DOMAIN w = {1, 2}
             /\ w[1].file = f /\ w[1].list = s /\ w[2].file = g /\ w[2].list = t
<1>1. PICK r \in Writes : r = [file |-> f, list |-> s]
  BY DEF Writes
<1>2. PICK q \in Writes : q = [file |-> g, list |-> t]
  BY DEF Writes
<1>3. /\ <<r, q>> \in Seq(Writes) /\ Len(<<r, q>>) = 2 /\ <<r, q>>[1] = r /\ <<r, q>>[2] = q
      /\ DOMAIN <<r, q>> = {1, 2}
  OBVIOUS
<1>4. <<r, q>> # None
  BY <1>3, StationAssumption
<1>5. r.file = f /\ r.list = s /\ q.file = g /\ q.list = t
  BY <1>1, <1>2
<1> QED
  BY <1>1, <1>2, <1>3, <1>4, <1>5

\* A move takes the location of the name out of the one file and puts it last in
\* the other.
MovePlan(p, from, to, f, t) ==
  /\ p \in Seq(Writes) /\ Len(p) = 2 /\ DOMAIN p = {1, 2}
  /\ p[1].file = t /\ p[2].file = f
  /\ Among(Found(from, job.name), p[1].list)
  /\ \A e : Among(e, to) /\ Fold[e.name] # Fold[job.name] => Among(e, p[1].list)
  /\ \A e : Among(e, from) /\ Fold[e.name] # Fold[job.name] => Among(e, p[2].list)

LEMMA MovesPlanned ==
  ASSUME Moves, NEW from \in Seq(Locations) \cup {None}, NEW to \in Seq(Locations) \cup {None},
         NEW f \in {Live, Trash}, NEW t \in {Live, Trash}, Plan(from, to, f, t) # None
  PROVE  /\ from \in Seq(Locations) /\ to \in Seq(Locations)
         /\ Found(from, job.name) \in Locations /\ Among(Found(from, job.name), from)
         /\ Fold[Found(from, job.name).name] = Fold[job.name]
         /\ MovePlan(Plan(from, to, f, t), from, to, f, t)
<1>1. job.kind \in {"delete", "undelete"}
  BY DEF Moves
<1>2. from # None /\ to # None /\ Matches(from, job.name) # {}
  BY <1>1 DEF Plan
<1>3. from \in Seq(Locations) /\ to \in Seq(Locations)
  BY <1>2
<1>4. PICK e \in Locations : e = Found(from, job.name) /\ Among(e, from) /\ Fold[e.name] = Fold[job.name]
  BY <1>2, <1>3, FoundMatches
<1>5. PICK s \in Seq(Locations) : s = Without(to, job.name)
  BY <1>3, WithoutKeeps
<1>6. PICK a \in Seq(Locations) : a = Append(s, e)
  BY AppendedAmong
<1>7. PICK b \in Seq(Locations) : b = Without(from, job.name)
  BY <1>3, WithoutKeeps
<1>8. Plan(from, to, f, t) = <<[file |-> t, list |-> a], [file |-> f, list |-> b]>>
  BY <1>1, <1>2, <1>4, <1>5, <1>6, <1>7 DEF Plan, MoveWrites
<1>9. PICK p : p = <<[file |-> t, list |-> a], [file |-> f, list |-> b]>>
  OBVIOUS
<1>10. /\ p \in Seq(Writes) /\ Len(p) = 2 /\ DOMAIN p = {1, 2}
       /\ p[1].file = t /\ p[1].list = a /\ p[2].file = f /\ p[2].list = b
  BY <1>9, TwoWrites
<1>11. Among(e, a) /\ \A x : Among(x, s) => Among(x, a)
  BY <1>6, AppendedAmong
<1>12. \A x : Among(x, to) /\ Fold[x.name] # Fold[job.name] => Among(x, s)
  BY <1>3, <1>5, WithoutKeeps
<1>13. \A x : Among(x, from) /\ Fold[x.name] # Fold[job.name] => Among(x, b)
  BY <1>3, <1>7, WithoutKeeps
<1>14. MovePlan(p, from, to, f, t)
  BY <1>4, <1>10, <1>11, <1>12, <1>13 DEF MovePlan
<1> QED
  BY <1>3, <1>4, <1>8, <1>9, <1>14

\* The other operations rewrite station_data.
LEMMA OthersPlanned ==
  ASSUME Asked, job.pc = "load", ~Moves, NEW from \in Seq(Locations) \cup {None}, NEW to,
         NEW f, NEW t, Plan(from, to, f, t) # None
  PROVE  LET p == Plan(from, to, f, t)
         IN  p \in Seq(Writes) /\ Len(p) = 1 /\ DOMAIN p = {1} /\ p[1].file = Live
<1>1. from \in Seq(Locations)
  BY DEF Plan
<1>2. Live \in {Live, Trash} /\ job.kind \notin {"delete", "undelete"} /\ from # None
  BY DEF Moves, Plan
<1>3. CASE job.kind \in {"save", "empty"}
  <2>1. job.name \in Names /\ job.data \in Contents
    BY <1>3 DEF Asked, Moves
  <2>2. PICK e \in Locations : e = [name |-> job.name, data |-> job.data]
    BY <2>1 DEF Locations
  <2>3. PICK s \in Seq(Locations) : s = Without(from, job.name)
    BY <1>1, WithoutKeeps
  <2>4. PICK a \in Seq(Locations) : a = Append(s, e)
    BY AppendedAmong
  <2>5. Plan(from, to, f, t) = <<[file |-> Live, list |-> a]>>
    BY <1>2, <1>3, <2>2, <2>3, <2>4 DEF Plan, SaveWrites
  <2> QED
    BY <1>2, <2>5, OneWrite
<1>4. CASE job.kind = "merge"
  <2>1. PICK new \in Seq(Locations) : new = job.data
    BY <1>4 DEF Asked, Moves
  <2> DEFINE T == {j \in DOMAIN new : \A i \in DOMAIN from : from[i].name # new[j].name}
  <2>2. PICK o \in Seq(Locations) : o = Only(new, T)
    BY OnlyLists
  <2>3. PICK a \in Seq(Locations) : a = from \o o
    BY <1>1, ConcatProperties
  <2>4. Plan(from, to, f, t) = <<[file |-> Live, list |-> a]>>
    BY <1>2, <1>4, <2>1, <2>2, <2>3 DEF Plan, MergeWrites
  <2> QED
    BY <1>2, <2>4, OneWrite
<1> QED
  BY <1>2, <1>3, <1>4 DEF Asked, Moves
\* What becomes of the job and the histories once the files are read.
Decided(plan, from, f) ==
  /\ job' = IF plan = None THEN [job EXCEPT !.pc = "build"]
            ELSE [job EXCEPT !.pc = "dump", !.writes = plan]
  /\ moving' = IF plan # None /\ Moves /\ ~files[f].cut THEN Found(from, job.name) ELSE None
  /\ deleted' = IF plan # None /\ job.kind = "undelete"
                THEN [deleted EXCEPT ![Fold[job.name]] = None] ELSE deleted

LEMMA LoadKeeps ==
  ASSUME FilesInv, Load
  PROVE  FilesInv'
<1>1. /\ Types /\ Asked /\ Carried /\ Retained /\ Stacked /\ job \in Jobs /\ job.pc = "load"
      /\ (job.open => job.pc \in {"dump", "backup"}) /\ ~job.open
  BY DEF FilesInv, Types, Planned, Load
<1>2. UNCHANGED <<files, main, dated, minute, fails, backed>>
  BY DEF Load
<1>3. PICK f \in {Live, Trash}, t \in {Live, Trash} : f = Source /\ t = Target
  BY DEF Source, Target
<1>4. PICK from \in Loads(f), to \in Loads(t) : Decided(Plan(from, to, f, t), from, f)
  <2>1. \E g \in {Source}, h \in {Target} :
          \E from \in Loads(g), to \in Loads(h) : Decided(Plan(from, to, g, h), from, g)
    BY DEF Load, Source, Target, Decided
  <2> QED
    BY <1>3, <2>1
<1>5. /\ from \in {None, files[f].list} /\ to \in {None, files[t].list}
      /\ files[f].list \in Seq(Locations) /\ files[t].list \in Seq(Locations)
      /\ from \in Seq(Locations) \cup {None} /\ to \in Seq(Locations) \cup {None}
  BY <1>1 DEF Types, Loads
<1>6. PICK p : p = Plan(from, to, f, t)
  OBVIOUS
\* Nothing to do, or the files cannot be read.
<1>7. CASE p = None
  <2>1. job' = [job EXCEPT !.pc = "build"] /\ moving' = None /\ deleted' = deleted
    BY <1>4, <1>6, <1>7 DEF Decided
  <2>2. job' \in Jobs /\ job'.pc = "build" /\ job'.open = FALSE
    BY <1>1, <2>1 DEF Jobs
  <2>3. Types'
    BY <1>1, <1>2, <2>1, <2>2 DEF Types
  <2>4. Asked' /\ Planned'
    BY <2>2 DEF Asked, Planned
  <2>5. Carried'
    BY <2>1 DEF Carried
  <2>6. Retained'
    BY <1>1, <1>2, <2>1, <2>2, RetainedSame
  <2>7. Stacked'
    BY <1>1, <1>2, <2>2, StackedSame
  <2> QED
    BY <2>3, <2>4, <2>5, <2>6, <2>7 DEF FilesInv
<1>8. CASE p # None
  <2>1. /\ moving' = IF Moves /\ ~files[f].cut THEN Found(from, job.name) ELSE None
        /\ deleted' = IF job.kind = "undelete"
                      THEN [deleted EXCEPT ![Fold[job.name]] = None] ELSE deleted
        /\ job' = [job EXCEPT !.pc = "dump", !.writes = p]
    BY <1>4, <1>6, <1>8 DEF Decided
  <2>2. p \in Seq(Writes)
    <3>1. CASE Moves
      <4>1. MovePlan(Plan(from, to, f, t), from, to, f, t)
        BY <1>5, <1>6, <1>8, <3>1, MovesPlanned
      <4>2. Plan(from, to, f, t) \in Seq(Writes)
        BY <4>1 DEF MovePlan
      <4> QED
        BY <1>6, <4>2
    <3>2. CASE ~Moves
      <4>1. Plan(from, to, f, t) \in Seq(Writes)
        BY <1>1, <1>5, <1>6, <1>8, <3>2, OthersPlanned
      <4> QED
        BY <1>6, <4>1
    <3> QED
      BY <3>1, <3>2
  <2>3. /\ job' \in Jobs /\ job'.pc = "dump" /\ job'.open = FALSE /\ job'.writes = p
        /\ job'.kind = job.kind /\ job'.name = job.name /\ job'.data = job.data
    BY <1>1, <2>1, <2>2 DEF Jobs
  <2>4. Moves' = Moves /\ Source' = Source /\ Target' = Target
    BY <2>3 DEF Moves, Source, Target
  <2>5. Moves => /\ from \in Seq(Locations) /\ to \in Seq(Locations)
                 /\ from = files[f].list /\ to = files[t].list
                 /\ Found(from, job.name) \in Locations /\ Among(Found(from, job.name), from)
                 /\ Fold[Found(from, job.name).name] = Fold[job.name]
                 /\ MovePlan(p, from, to, f, t)
    <3> SUFFICES ASSUME Moves
                 PROVE /\ from \in Seq(Locations) /\ to \in Seq(Locations)
                       /\ from = files[f].list /\ to = files[t].list
                       /\ Found(from, job.name) \in Locations /\ Among(Found(from, job.name), from)
                       /\ Fold[Found(from, job.name).name] = Fold[job.name]
                       /\ MovePlan(p, from, to, f, t)
      OBVIOUS
    <3>1. /\ from \in Seq(Locations) /\ to \in Seq(Locations)
          /\ Found(from, job.name) \in Locations /\ Among(Found(from, job.name), from)
          /\ Fold[Found(from, job.name).name] = Fold[job.name]
          /\ MovePlan(p, from, to, f, t)
      BY <1>5, <1>6, <1>8, MovesPlanned
    <3>2. from # None /\ to # None
      BY <3>1, Elements
    <3> QED
      BY <1>5, <3>1, <3>2
  <2>6. ~Moves => Len(p) = 1 /\ DOMAIN p = {1} /\ p[1].file = Live
    <3> SUFFICES ASSUME ~Moves PROVE Len(p) = 1 /\ DOMAIN p = {1} /\ p[1].file = Live
      OBVIOUS
    <3>1. LET q == Plan(from, to, f, t) IN Len(q) = 1 /\ DOMAIN q = {1} /\ q[1].file = Live
      BY <1>1, <1>5, <1>6, <1>8, OthersPlanned
    <3> QED
      BY <1>6, <3>1
  <2>7. moving' \in Locations \cup {None}
    BY <2>1, <2>5
  <2>8. /\ deleted' \in [Names -> Locations \cup {None}]
        /\ \A k \in Names : deleted'[k] # None =>
             deleted'[k] = deleted[k] /\ (job.kind = "undelete" => k # Fold[job.name])
    <3>1. deleted \in [Names -> Locations \cup {None}]
      BY <1>1 DEF Types
    <3>2. CASE job.kind = "undelete"
      <4>1. PICK n \in Names : n = Fold[job.name]
        <5>1. job.name \in Names
          BY <1>1, <3>2 DEF Asked, Moves
        <5> QED
          BY <5>1, StationAssumption
      <4>2. deleted' = [deleted EXCEPT ![n] = None]
        BY <2>1, <3>2, <4>1
      <4>3. /\ deleted' \in [Names -> Locations \cup {None}]
            /\ \A k \in Names : deleted'[k] # None => deleted'[k] = deleted[k] /\ k # n
        BY <3>1, <4>2
      <4> QED
        BY <4>1, <4>3
    <3>3. CASE job.kind # "undelete"
      BY <2>1, <3>1, <3>3
    <3> QED
      BY <3>2, <3>3
  <2>9. Types'
    BY <1>1, <1>2, <2>3, <2>7, <2>8 DEF Types
  <2>10. Asked'
    BY <1>1, <2>3, <2>4 DEF Asked
  <2>11. Planned'
    <3>1. Moves => Len(p) = 2 /\ p[1].file = Target /\ p[2].file = Source
      BY <1>3, <2>5 DEF MovePlan
    <3> QED
      BY <2>3, <2>4, <2>6, <3>1 DEF Planned
  <2>12. Carried'
    <3> SUFFICES ASSUME moving' # None
                 PROVE  /\ Moves /\ Fold[moving'.name] = Fold[job.name]
                        /\ Len(p) = 2 /\ Holds(Source, moving)' /\ Among(moving', p[1].list)
      <4>1. Among(moving, job.writes[1].list)' <=> Among(moving', p[1].list)
        BY <2>3 DEF Among
      <4> QED
        BY <2>3, <2>4, <4>1 DEF Carried
    <3>1. Moves /\ ~files[f].cut /\ moving' = Found(from, job.name)
      BY <2>1
    <3>2. PICK e : e = Found(from, job.name)
      OBVIOUS
    <3>3. /\ moving' = e /\ Among(e, files[f].list) /\ Fold[e.name] = Fold[job.name]
          /\ Len(p) = 2 /\ Among(e, p[1].list)
      BY <2>5, <3>1, <3>2 DEF MovePlan
    <3>4. Holds(f, e)
      BY <3>1, <3>3 DEF Holds, Among
    <3>5. Holds(Source, moving)'
      BY <1>2, <1>3, <2>4, <3>3, <3>4 DEF Holds
    <3> QED
      BY <3>1, <3>3, <3>5
  <2>13. Retained'
    <3> SUFFICES ASSUME fails = 0, NEW k \in Names, deleted'[k] # None PROVE RetainedFor(k)'
      BY <1>2 DEF Retained, RetainedFor
    <3>1. PICK d : d = deleted[k]
      OBVIOUS
    <3>2. deleted'[k] = d /\ d # None /\ (job.kind = "undelete" => k # Fold[job.name])
      BY <2>8, <3>1
    <3>3. Fold[d.name] = k /\ Holds(Trash, d)
      <4>1. RetainedFor(k)
        BY <1>1 DEF Retained
      <4> QED
        BY <1>1, <3>1, <3>2, <4>1 DEF RetainedFor
    <3>4. Holds(Trash, deleted[k])'
      BY <1>2, <3>2, <3>3 DEF Holds
    <3>5. Among(d, files[Trash].list)
      BY <3>3 DEF Holds, Among
    <3>6. \A i \in DOMAIN p : p[i].file = Trash =>
            Among(d, p[i].list) \/ (job.kind = "delete" /\ k = Fold[job.name])
      <4>1. CASE ~Moves
        <5>1. Live # Trash
          BY DEF Live, Trash
        <5> QED
          BY <2>6, <4>1, <5>1
      <4>2. CASE job.kind = "delete"
        <5>1. f = Live /\ t = Trash /\ Live # Trash /\ Moves
          BY <1>3, <4>2 DEF Source, Target, Moves, Live, Trash
        <5>2. /\ DOMAIN p = {1, 2} /\ p[2].file = Live
              /\ Among(d, to) /\ Fold[d.name] # Fold[job.name] => Among(d, p[1].list)
          BY <2>5, <5>1 DEF MovePlan
        <5>3. Among(d, to)
          BY <2>5, <3>5, <5>1
        <5> QED
          BY <3>3, <4>2, <5>1, <5>2, <5>3
      <4>3. CASE job.kind = "undelete"
        <5>1. f = Trash /\ t = Live /\ Live # Trash /\ Moves
          BY <1>3, <4>3 DEF Source, Target, Moves, Live, Trash
        <5>2. /\ DOMAIN p = {1, 2} /\ p[1].file = Live
              /\ Among(d, from) /\ Fold[d.name] # Fold[job.name] => Among(d, p[2].list)
          BY <2>5, <5>1 DEF MovePlan
        <5>3. Among(d, from)
          BY <2>5, <3>5, <5>1
        <5> QED
          BY <3>2, <3>3, <4>3, <5>1, <5>2, <5>3
      <4> QED
        BY <4>1, <4>2, <4>3 DEF Moves
    <3>7. \A i \in DOMAIN job'.writes : job'.writes[i].file = Trash =>
            Among(deleted[k], job.writes[i].list)' \/ (job'.kind = "delete" /\ k = Fold[job'.name])
      BY <2>3, <3>2, <3>6 DEF Among
    <3>8. Fold[deleted'[k].name] = k
      BY <3>2, <3>3
    <3> QED
      BY <3>4, <3>7, <3>8 DEF RetainedFor
  <2>14. Stacked'
    BY <1>1, <1>2, <2>3, StackedSame
  <2> QED
    BY <2>9, <2>10, <2>11, <2>12, <2>13, <2>14 DEF FilesInv
<1> QED
  BY <1>7, <1>8
-----------------------------------------------------------------------------
(* The theorems.                                                           *)

LEMMA InitFiles == Init => FilesInv
<1> SUFFICES ASSUME Init PROVE FilesInv
  OBVIOUS
<1>1. /\ files = [f \in {Live, Trash} |-> [cut |-> FALSE, list |-> <<>>]]
      /\ job = Idle /\ main = None /\ DOMAIN dated = {} /\ minute = 0 /\ fails = 0
      /\ moving = None /\ deleted = [k \in Names |-> None] /\ backed = None
  BY DEF Init, Absent
<1>2. job \in Jobs /\ job.pc = "idle" /\ ~job.open
  BY <1>1, IdleJob
<1>3. Types
  <2>1. <<>> \in Seq(Locations)
    OBVIOUS
  <2>2. files \in [{Live, Trash} -> [cut : BOOLEAN, list : Seq(Locations)]]
    BY <1>1, <2>1
  <2> QED
    BY <1>1, <1>2, <2>2 DEF Types
<1>4. Asked /\ Planned
  BY <1>2 DEF Asked, Planned
<1>5. Carried /\ Retained
  BY <1>1 DEF Carried, Retained, RetainedFor
<1>6. Stacked
  BY <1>1, <1>2, LimitType, FS_EmptySet DEF Stacked
<1> QED
  BY <1>3, <1>4, <1>5, <1>6 DEF FilesInv

LEMMA FilesStep == FilesInv /\ [Next]_vars => FilesInv'
<1> SUFFICES ASSUME FilesInv, [Next]_vars PROVE FilesInv'
  OBVIOUS
<1>1. CASE UNCHANGED vars
  <2>1. UNCHANGED <<files, job, main, dated, minute, fails, moving, deleted, backed>>
    BY <1>1 DEF vars
  <2>2. Types'
    BY <2>1 DEF FilesInv, Types
  <2>3. Asked'
    BY <2>1 DEF FilesInv, Asked, Moves
  <2>4. Planned'
    BY <2>1 DEF FilesInv, Planned, Moves, Source, Target
  <2>5. Carried'
    BY <2>1 DEF FilesInv, Carried, Moves, Source, Target, Holds, Among
  <2>6. Retained'
    BY <2>1 DEF FilesInv, Retained, RetainedFor, Holds, Among
  <2>7. Stacked'
    BY <2>1 DEF FilesInv, Stacked, Good
  <2> QED
    BY <2>2, <2>3, <2>4, <2>5, <2>6, <2>7 DEF FilesInv
<1>2. CASE \/ \E n \in Names : OnLocDelete(n) \/ OnLocUndelete(n)
           \/ \E n \in Names, d \in Contents : RunStationWizard(n, d) \/ SaveEmpty(n, d)
           \/ CancelWizard
  BY <1>2, OperationsKeep
<1>3. CASE OnLoadConfig(main) \/ \E m \in DOMAIN dated : OnLoadConfig(dated[m])
  BY <1>3, OnLoadConfigKeeps
<1>4. CASE Load \/ DumpOpen \/ DumpClose \/ DumpFails
  BY <1>4, LoadKeeps, DumpOpenKeeps, DumpCloseKeeps, DumpFailsKeeps
<1>5. CASE BuildTree \/ SaveOldBackups \/ BackupBusy \/ BackupOpen \/ BackupClose \/ BackupFails
  BY <1>5, BuildTreeKeeps, SaveOldBackupsKeeps, BackupBusyKeeps, BackupOpenKeeps,
     BackupCloseKeeps, BackupFailsKeeps
<1>6. CASE Crash \/ Tick
  BY <1>6, CrashKeeps, TickKeeps
<1>7. CASE Done
  BY <1>1, <1>7 DEF Done
<1> QED
  BY <1>1, <1>2, <1>3, <1>4, <1>5, <1>6, <1>7 DEF Next

\* The invariant of the station files and the backups, for every set of names
\* and contents and any number of operations, crashes and failures.
THEOREM FilesInvariant == Spec => []FilesInv
<1> QED
  BY InitFiles, FilesStep, PTL DEF Spec

\* A location that is deleted or restored is at every moment in one of the two
\* files, whole, as long as no write fails: tqsl_move_station_location writes the
\* file it goes to before the one it leaves.
THEOREM NeverBetweenFiles == Spec => []MovedKept
<1>1. FilesInv => MovedKept
  <2> SUFFICES ASSUME FilesInv, moving # None, fails = 0
               PROVE  Holds(Live, moving) \/ Holds(Trash, moving)
    BY DEF MovedKept
  <2>1. Carried
    BY DEF FilesInv
  <2>2. CASE job.pc = "dump"
    <3>1. PICK h \in {Live, Trash} : Holds(h, moving)
      <4>1. Source \in {Live, Trash} /\ Target \in {Live, Trash}
        BY DEF Source, Target
      <4>2. Holds(Source, moving) \/ Holds(Target, moving)
        BY <2>1, <2>2 DEF Carried
      <4> QED
        BY <4>1, <4>2
    <3> QED
      BY <3>1
  <2>3. CASE job.pc # "dump"
    BY <2>1, <2>3 DEF Carried
  <2> QED
    BY <2>2, <2>3
<1> QED
  BY <1>1, FilesInvariant, PTL

\* The location deleted last under a name stays in the trash until it is
\* restored, as long as no write fails, whatever else is done and interrupted.
THEOREM TrashRetains == Spec => []DeletedRetainedUnlessFailed
<1>1. FilesInv => DeletedRetainedUnlessFailed
  BY DEF FilesInv, Retained, RetainedFor, DeletedRetainedUnlessFailed
<1> QED
  BY <1>1, FilesInvariant, PTL

\* While backups succeed, a readable one holds the locations of the last, at
\* every step of renaming, pruning and writing; and no more than BackupVersions
\* renamed ones are kept.
THEOREM BackupsHold == Spec => []BackupHolds
<1>1. FilesInv => BackupHolds
  BY DEF FilesInv, Stacked, Good, BackupHolds
<1> QED
  BY <1>1, FilesInvariant, PTL
=============================================================================
