---------------------------- MODULE CabrilloProofs ----------------------------
(***************************************************************************)
(* Proofs about the Cabrillo reader: for every log, every definition of    *)
(* contests and every list of modes, a record is one line, and each line   *)
(* is delivered or refused.                                                *)
(***************************************************************************)
EXTENDS Cabrillo, SelectionProofs, FiniteSetTheorems, TLAPS

-----------------------------------------------------------------------------
(* The invariant.                                                          *)

IsList(s) == s \in Seq({s[i] : i \in DOMAIN s})

Reading == st \in {"open", "eof"}
Header == Start(log).at

\* The number of a field, and the record after the first k - 1 fields of a line.
Number(n) == CHOOSE i \in DOMAIN FieldNames : FieldNames[i] = n
Taken(line, k, c) ==
  [n \in DOMAIN NoRecord |-> IF Number(n) < k THEN Value(line, Number(n), c).v ELSE NoRecord[n]]

\* The line the reader is in, if it is in one.
Unfinished == live /\ ~EndOfRecord(idx)
InHand == IF Unfinished THEN {pos} ELSE {}

Place ==
  /\ st \in {"none", "open", "refused", "eof"}
  /\ IsList(out) /\ IsList(bad)
  /\ live \in BOOLEAN /\ partial \in BOOLEAN /\ saveErr \in BOOLEAN /\ idx \in 0..8
  /\ ~Reading => out = <<>> /\ bad = <<>> /\ ~live /\ ~partial /\ ~saveErr /\ pos = 0 /\ idx = 0 /\ loc = 0
  /\ Reading => /\ Len(log) \in Nat /\ DOMAIN log = 1..Len(log)
                /\ Header \in Nat /\ pos \in Header..Len(log)
  /\ live => ~partial /\ idx >= 2 /\ Tag(log[pos]) = "QSO" /\ pos > Header

\* The column the code uses: given, or guessed from one of the lines so far, or still
\* unknown.
Known(p) == CallField(contest) # 0 \/ \E i \in QSOLines(p) : Candidates(log[i]) # {}
ColumnUsed(p) ==
  IF CallField(contest) # 0 THEN CallField(contest) ELSE Min(Candidates(log[GuessedFrom(p)]))
ColumnKept ==
  Reading => IF Known(pos) THEN loc = ColumnUsed(pos) /\ loc # 0 ELSE loc = 0

\* The date or the time of line p was refused among its first k - 1 fields.
SpoiltBefore(p, k) == \E j \in 1..7 : j < k /\ Spoils(log[p], j)

\* All elements but the last are below p.
LastOnly(s, p) == \A k \in DOMAIN s : k < Len(s) => s[k] < p

\* The record in hand, and after an error in a field the complaint made.
HandKept ==
  /\ live => Known(pos) /\ rec = Taken(log[pos], idx, loc)
  /\ IF Unfinished THEN saveErr <=> SpoiltBefore(pos, idx) ELSE ~saveErr
  /\ partial => Missing(rec) /\ pos \in Refused /\ LastOnly(bad, pos)

LinesKept ==
  /\ Reading => Delivered \cup Refused = QSOLines(pos) \ InHand
  /\ st = "eof" => ~Unfinished

\* The records delivered, with the column the code uses.
Right(l, r) ==
  Tag(log[l]) = "QSO" /\ Known(l) /\ ~SpoiltBefore(l, 8) /\ r = Taken(log[l], 8, ColumnUsed(l))
RecordsKept == \A k \in DOMAIN out : Right(out[k].line, out[k].rec)

\* The complaints, and their order.
Elements(s) == {s[k] : k \in DOMAIN s}
InOrder(s) ==
  /\ \A j, k \in DOMAIN s : j < k => s[j] <= s[k]
  /\ \A j, k \in DOMAIN s : j + 1 < k => s[j] < s[k]

CabrilloInv ==
  Place /\ ColumnKept /\ HandKept /\ LinesKept /\ RecordsKept /\ EachLineAccounted
-----------------------------------------------------------------------------
(* Lemmas.                                                                 *)

\* Of two sets with the same elements up to one of them, the least is the same.
LEMMA MinOfMore ==
  ASSUME NEW S, NEW T, S \subseteq T, T \subseteq Nat, S # {},
         \A t \in T : t \in S \/ \A s \in S : s <= t
  PROVE  Min(S) = Min(T)
<1>1. S \subseteq Nat /\ T # {}
  OBVIOUS
<1>2. Min(S) \in S /\ \A j \in S : Min(S) <= j
  BY <1>1, MinIsLeast
<1>3. Min(T) \in T /\ \A j \in T : Min(T) <= j
  BY <1>1, MinIsLeast
<1>4. Min(T) <= Min(S)
  BY <1>2, <1>3
<1>5. Min(S) <= Min(T)
  BY <1>2, <1>3
<1>6. Min(S) \in Nat /\ Min(T) \in Nat
  BY <1>1, <1>2, <1>3
<1> QED
  BY <1>4, <1>5, <1>6

LEMMA Appended ==
  ASSUME NEW s, IsList(s), NEW e
  PROVE  /\ IsList(Append(s, e))
         /\ Len(s) \in Nat /\ DOMAIN s = 1..Len(s)
         /\ Len(Append(s, e)) = Len(s) + 1
         /\ DOMAIN Append(s, e) = 1..(Len(s) + 1)
         /\ \A i \in 1..Len(s) : Append(s, e)[i] = s[i]
         /\ Append(s, e)[Len(s) + 1] = e
<1> DEFINE S == {s[i] : i \in DOMAIN s}
           t == Append(s, e)
<1>1. s \in Seq(S)
  BY DEF IsList
<1>2. s \in Seq(S \cup {e})
  BY <1>1
<1>3. /\ Len(s) \in Nat /\ DOMAIN s = 1..Len(s)
      /\ Len(t) = Len(s) + 1 /\ DOMAIN t = 1..(Len(s) + 1)
      /\ \A i \in 1..Len(s) : t[i] = s[i]
      /\ t[Len(s) + 1] = e
      /\ t \in Seq(S \cup {e})
  BY <1>2
<1> HIDE DEF t, S
<1>4. \A i \in 1..Len(t) : t[i] \in {t[j] : j \in DOMAIN t}
  BY <1>3
<1>5. t \in Seq({t[j] : j \in DOMAIN t})
  BY <1>3, <1>4
<1>6. IsList(t)
  BY <1>5 DEF IsList
<1> QED
  BY <1>3, <1>6 DEF t

\* The fields are numbered from one to seven, each name once.
LEMMA FieldsNumbered ==
  /\ DOMAIN FieldNames = 1..7 /\ Len(FieldNames) = 7
  /\ \A i \in 1..7 : FieldNames[i] \in DOMAIN NoRecord /\ Number(FieldNames[i]) = i
  /\ \A n \in DOMAIN NoRecord : Number(n) \in 1..7 /\ FieldNames[Number(n)] = n
<1>1. DOMAIN FieldNames = 1..7 /\ Len(FieldNames) = 7
  BY DEF FieldNames
<1>2. DOMAIN NoRecord = {"CALL", "BAND", "MODE", "QSO_DATE", "TIME_ON", "FREQ", "MYCALL"}
  BY DEF NoRecord
<1>3. \A i, j \in 1..7 : FieldNames[i] = FieldNames[j] => i = j
  BY DEF FieldNames
<1>4. \A n \in DOMAIN NoRecord : \E i \in 1..7 : FieldNames[i] = n
  BY <1>2 DEF FieldNames
<1>5. \A i \in 1..7 : FieldNames[i] \in DOMAIN NoRecord
  BY <1>2 DEF FieldNames
<1>6. ASSUME NEW i \in 1..7 PROVE Number(FieldNames[i]) = i
  BY <1>1, <1>3 DEF Number
<1>7. ASSUME NEW n \in DOMAIN NoRecord PROVE Number(n) \in 1..7 /\ FieldNames[Number(n)] = n
  BY <1>1, <1>4 DEF Number
<1> QED
  BY <1>1, <1>5, <1>6, <1>7

\* What has been read so far: the shape of the log that is open.
Opened == Len(log) \in Nat /\ DOMAIN log = 1..Len(log) /\ Header \in Nat

\* Reading on does not change the column once it is known.
LEMMA ColumnStays ==
  ASSUME Opened, NEW p \in Nat, NEW q \in Nat, p <= q, Known(p)
  PROVE  Known(q) /\ ColumnUsed(q) = ColumnUsed(p)
<1> DEFINE S == {i \in QSOLines(p) : Candidates(log[i]) # {}}
           T == {i \in QSOLines(q) : Candidates(log[i]) # {}}
<1>0. PICK h \in Nat : h = Header
  BY DEF Opened
<1>1. QSOLines(p) = {i \in (h + 1)..p : Tag(log[i]) = "QSO"}
      /\ QSOLines(q) = {i \in (h + 1)..q : Tag(log[i]) = "QSO"}
  BY <1>0 DEF QSOLines, Header
<1>2. S \subseteq T /\ T \subseteq Nat
  BY <1>1
<1>3. \A t \in T : t \in S \/ \A s \in S : s <= t
  BY <1>1
<1>4. Known(q)
  BY <1>2 DEF Known
<1>5. CASE CallField(contest) # 0
  BY <1>4, <1>5 DEF ColumnUsed
<1>6. CASE CallField(contest) = 0
  <2>1. S # {}
    BY <1>6 DEF Known
  <2> HIDE DEF S, T
  <2>2. Min(S) = Min(T)
    BY <2>1, <1>2, <1>3, MinOfMore
  <2> QED
    BY <2>2, <1>4 DEF ColumnUsed, GuessedFrom, S, T
<1> QED
  BY <1>5, <1>6

\* NextLine finds the first such line, if there is one.
LEMMA NextLineIsFirst ==
  ASSUME Opened, NEW p \in Nat, NEW tags
  PROVE  LET n == NextLine(p, tags) IN
         \/ n = 0 /\ \A i \in 1..Len(log) : i > p => Tag(log[i]) \notin tags
         \/ /\ n \in 1..Len(log) /\ n > p /\ Tag(log[n]) \in tags
            /\ \A i \in 1..Len(log) : p < i /\ i < n => Tag(log[i]) \notin tags
<1> DEFINE found == {i \in DOMAIN log : i > p /\ Tag(log[i]) \in tags}
<1>1. found = {i \in 1..Len(log) : i > p /\ Tag(log[i]) \in tags}
  BY DEF Opened
<1>2. CASE found = {}
  BY <1>1, <1>2 DEF NextLine
<1>3. CASE found # {}
  <2>1. found \subseteq Nat
    BY <1>1 DEF Opened
  <2>2. NextLine(p, tags) = Min(found)
    BY <1>3 DEF NextLine
  <2> HIDE DEF found
  <2>3. Min(found) \in found /\ \A j \in found : Min(found) <= j
    BY <2>1, <1>3, MinIsLeast
  <2>4. PICK n \in Nat : n = Min(found)
    BY <2>1, <2>3
  <2>5. n \in 1..Len(log) /\ n > p /\ Tag(log[n]) \in tags
    BY <2>3, <2>4, <1>1
  <2>6. ASSUME NEW i \in 1..Len(log), p < i, i < n PROVE Tag(log[i]) \notin tags
    BY <2>3, <2>4, <1>1, <2>6
  <2> QED
    BY <2>2, <2>4, <2>5, <2>6
<1> QED
  BY <1>2, <1>3

\* The QSO lines up to the next one are those so far and that one.
LEMMA OneMore ==
  ASSUME Opened, NEW p \in Nat, NEW n \in 1..Len(log), Header <= p, p < n, Tag(log[n]) = "QSO",
         \A i \in 1..Len(log) : p < i /\ i < n => Tag(log[i]) # "QSO"
  PROVE  QSOLines(n) = QSOLines(p) \cup {n} /\ n \notin QSOLines(p)
<1>0. PICK h \in Nat : h = Header
  BY DEF Opened
<1>1. QSOLines(p) = {i \in (h + 1)..p : Tag(log[i]) = "QSO"}
      /\ QSOLines(n) = {i \in (h + 1)..n : Tag(log[i]) = "QSO"}
  BY <1>0 DEF QSOLines, Header
<1>2. h <= p /\ Len(log) \in Nat
  BY <1>0 DEF Opened
<1>3. \A i \in (h + 1)..n : i \in (h + 1)..p \/ i = n \/ Tag(log[i]) # "QSO"
  BY <1>2
<1>4. \A i \in (h + 1)..p : i \in (h + 1)..n /\ i # n
  BY <1>2
<1>5. n \in (h + 1)..n
  BY <1>2
<1> QED
  BY <1>1, <1>3, <1>4, <1>5

\* A field not taken yet is empty; taking one fills it.
LEMMA NothingTaken == ASSUME NEW line, NEW c PROVE Taken(line, 1, c) = NoRecord
<1>1. \A n \in DOMAIN NoRecord : ~(Number(n) < 1)
  BY FieldsNumbered
<1>2. NoRecord = [n \in DOMAIN NoRecord |-> NoRecord[n]]
  BY DEF NoRecord
<1> QED
  BY <1>1, <1>2 DEF Taken

LEMMA OneTaken ==
  ASSUME NEW line, NEW c, NEW i \in 1..7
  PROVE  [Taken(line, i, c) EXCEPT ![FieldNames[i]] = Value(line, i, c).v] = Taken(line, i + 1, c)
<1> DEFINE a == Taken(line, i, c)
           b == Taken(line, i + 1, c)
           d == [a EXCEPT ![FieldNames[i]] = Value(line, i, c).v]
<1>1. d = [n \in DOMAIN NoRecord |-> IF n = FieldNames[i] THEN Value(line, i, c).v ELSE a[n]]
  BY DEF Taken
<1>2. ASSUME NEW n \in DOMAIN NoRecord
      PROVE  (IF n = FieldNames[i] THEN Value(line, i, c).v ELSE a[n]) = b[n]
  <2>1. PICK k \in 1..7 : k = Number(n) /\ n = FieldNames[k]
    BY FieldsNumbered
  <2>2. n = FieldNames[i] <=> k = i
    BY <2>1, FieldsNumbered
  <2>3. /\ a[n] = IF k < i THEN Value(line, k, c).v ELSE NoRecord[n]
        /\ b[n] = IF k < i + 1 THEN Value(line, k, c).v ELSE NoRecord[n]
    BY <2>1 DEF Taken
  <2>4. CASE k = i
    BY <2>2, <2>3, <2>4
  <2>5. CASE k # i
    <3>1. k < i + 1 <=> k < i
      BY <2>5
    <3> QED
      BY <2>2, <2>3, <2>5, <3>1
  <2> QED
    BY <2>4, <2>5
<1>3. b = [n \in DOMAIN NoRecord |-> b[n]]
  BY DEF Taken
<1> HIDE DEF a, b
<1> QED
  BY <1>1, <1>2, <1>3 DEF a, b

LEMMA AllTaken ==
  ASSUME NEW line, NEW c
  PROVE  Taken(line, 8, c) =
           [n \in DOMAIN NoRecord |->
              Value(line, CHOOSE i \in DOMAIN FieldNames : FieldNames[i] = n, c).v]
<1>1. \A n \in DOMAIN NoRecord : Number(n) < 8
  BY FieldsNumbered
<1>2. Taken(line, 8, c) = [n \in DOMAIN NoRecord |-> Value(line, Number(n), c).v]
  BY <1>1 DEF Taken
<1> QED
  BY <1>2 DEF Number

\* A record whose reading stopped misses something a contact must have: only the
\* call, the band, the mode and the time are ever refused, each before it is taken.
LEMMA StoppedIsMissing ==
  ASSUME NEW line, NEW c, NEW i \in 1..7, ~Value(line, i, c).ok \/ i = 1
  PROVE  Missing(Taken(line, i, c))
<1>0. /\ FieldNames[1] = "CALL" /\ FieldNames[2] = "BAND" /\ FieldNames[3] = "MODE"
      /\ FieldNames[4] = "QSO_DATE" /\ FieldNames[5] = "TIME_ON" /\ FieldNames[6] = "FREQ"
      /\ FieldNames[7] = "MYCALL"
  BY DEF FieldNames
<1>1. /\ NoRecord["CALL"] = "" /\ NoRecord["BAND"] = "" /\ NoRecord["FREQ"] = -2
      /\ NoRecord["MODE"] = "" /\ NoRecord["TIME_ON"] = -1
  BY DEF NoRecord
<1>2. \A k \in 1..7 : k >= i => Taken(line, i, c)[FieldNames[k]] = NoRecord[FieldNames[k]]
  BY FieldsNumbered DEF Taken
<1>3. i \notin {4, 6, 7}
  <2>1. Value(line, 4, c).ok
    BY <1>0 DEF Value
  <2>2. Value(line, 6, c).ok
    BY <1>0 DEF Value
  <2>3. Value(line, 7, c).ok
    BY <1>0 DEF Value
  <2> QED
    BY <2>1, <2>2, <2>3
<1> PICK r : r = Taken(line, i, c)
  OBVIOUS
<1>8. \A k \in 1..7 : k >= i => r[FieldNames[k]] = NoRecord[FieldNames[k]]
  BY <1>2
<1>4. CASE i = 1
  <2>1. r[FieldNames[1]] = NoRecord[FieldNames[1]]
    BY <1>4, <1>8
  <2>2. r.CALL = ""
    BY <2>1, <1>0, <1>1
  <2> QED
    BY <2>2 DEF Missing
<1>5. CASE i = 2
  <2>1. r[FieldNames[2]] = NoRecord[FieldNames[2]] /\ r[FieldNames[6]] = NoRecord[FieldNames[6]]
    BY <1>5, <1>8
  <2>2. r.BAND = "" /\ r.FREQ = -2
    BY <2>1, <1>0, <1>1
  <2> QED
    BY <2>2 DEF Missing
<1>6. CASE i = 3
  <2>1. r[FieldNames[3]] = NoRecord[FieldNames[3]]
    BY <1>6, <1>8
  <2>2. r.MODE = ""
    BY <2>1, <1>0, <1>1
  <2> QED
    BY <2>2 DEF Missing
<1>7. CASE i = 5
  <2>1. r[FieldNames[5]] = NoRecord[FieldNames[5]]
    BY <1>7, <1>8
  <2>2. r.TIME_ON = -1
    BY <2>1, <1>0, <1>1
  <2> QED
    BY <2>2 DEF Missing
<1> QED
  BY <1>3, <1>4, <1>5, <1>6, <1>7

-----------------------------------------------------------------------------
(* Every step keeps the invariant.                                         *)

LEMMA NothingBetween == \A h \in Nat : (h + 1)..h = {}
<1> SUFFICES ASSUME NEW h \in Nat, NEW i \in (h + 1)..h PROVE FALSE
  OBVIOUS
<1>1. h + 1 <= i /\ i <= h /\ i \in Int
  OBVIOUS
<1> QED
  BY <1>1

LEMMA NothingListed == Len(<<>>) = 0 /\ DOMAIN <<>> = {} /\ IsList(<<>>)
<1>1. <<>> \in Seq({})
  OBVIOUS
<1>2. Len(<<>>) = 0
  OBVIOUS
<1>3. DOMAIN <<>> = 1..0
  BY <1>1, <1>2
<1>4. DOMAIN <<>> = {}
  BY <1>3
<1> QED
  BY <1>2, <1>4 DEF IsList

LEMMA InitKeeps == Init => CabrilloInv
<1> SUFFICES ASSUME Init PROVE CabrilloInv
  OBVIOUS
<1>1. out = <<>> /\ bad = <<>> /\ Len(out) = 0 /\ Len(bad) = 0 /\ DOMAIN out = {} /\ DOMAIN bad = {}
  BY NothingListed DEF Init
<1>2. IsList(out) /\ IsList(bad)
  BY <1>1, NothingListed
<1>3. Delivered \cup Refused = {}
  BY <1>1 DEF Delivered, Refused
<1>4. Place
  <2>1. ~Reading /\ st = "none"
    BY DEF Init, Reading
  <2>2. /\ pos = 0 /\ idx = 0 /\ loc = 0 /\ ~live /\ ~partial /\ ~saveErr
        /\ live \in BOOLEAN /\ partial \in BOOLEAN /\ saveErr \in BOOLEAN
    BY DEF Init
  <2>3. idx \in 0..8
    BY <2>2
  <2> QED
    BY <1>1, <1>2, <2>1, <2>2, <2>3 DEF Place
<1>5. ColumnKept /\ HandKept
  BY DEF Init, ColumnKept, HandKept, Reading, Unfinished
<1>6. LinesKept
  BY DEF Init, LinesKept, Reading
<1>7. RecordsKept
  BY <1>1 DEF RecordsKept
<1>8. EachLineAccounted
  BY <1>1 DEF Init, EachLineAccounted, Delivered
<1> QED
  BY <1>4, <1>5, <1>6, <1>7, <1>8 DEF CabrilloInv

LEMMA BeginKeeps == CabrilloInv /\ BeginCabrillo => CabrilloInv'
<1> SUFFICES ASSUME CabrilloInv, BeginCabrillo PROVE CabrilloInv'
  OBVIOUS
<1>1. PICK f \in Logs :
        /\ log' = f
        /\ IF Start(f).err # "" THEN st' = "refused" /\ UNCHANGED <<contest, pos, loc>>
           ELSE /\ st' = "open" /\ pos' = Start(f).at /\ contest' = f[pos'].name
                /\ loc' = CallField(contest')
  BY DEF BeginCabrillo
<1>2. st = "none" /\ UNCHANGED <<idx, live, rec, partial, saveErr, out, bad>>
  BY DEF BeginCabrillo
<1>3. out = <<>> /\ bad = <<>> /\ ~live /\ ~partial /\ ~saveErr /\ pos = 0 /\ idx = 0 /\ loc = 0
  BY <1>2 DEF CabrilloInv, Place, Reading
<1>4. out' = <<>> /\ bad' = <<>> /\ Len(out') = 0 /\ Len(bad') = 0
      /\ DOMAIN out' = {} /\ DOMAIN bad' = {}
  BY <1>2, <1>3
<1>5. (Delivered \cup Refused)' = {}
  BY <1>4 DEF Delivered, Refused
<1>6. Len(f) \in Nat /\ DOMAIN f = 1..Len(f)
  BY LogsAssumption
<1>7. st' \in {"refused", "open"}
  BY <1>1
<1>8. ASSUME st' = "open"
      PROVE  /\ Header' \in Nat /\ pos' = Header' /\ Header' <= Len(f)
             /\ loc' = CallField(contest')
  <2>1. /\ Start(f).err = "" /\ pos' = Start(f).at /\ loc' = CallField(contest')
    BY <1>1, <1>8
  <2> DEFINE s == {i \in DOMAIN f : Tag(f[i]) = "START-OF-LOG"}
             c == {i \in DOMAIN f : i > Min(s) /\ Tag(f[i]) = "CONTEST" /\ f[i].name # ""}
  <2>2. Start(f) = IF s = {} THEN [err |-> "NO_START_RECORD", at |-> 0]
                   ELSE IF c = {} THEN [err |-> "NO_CONTEST_RECORD", at |-> 0]
                   ELSE [err |-> "", at |-> Min(c)]
    BY DEF Start
  <2>8. \A i \in c : i \in DOMAIN f
    OBVIOUS
  <2> HIDE DEF s, c
  <2>3. c \subseteq Nat /\ c \subseteq 1..Len(f)
    BY <2>8, <1>6
  <2>9. s # {}
    <3>1. s = {} => Start(f).err = "NO_START_RECORD"
      BY <2>2
    <3> QED
      BY <2>1, <3>1
  <2>10. c # {}
    <3>1. c = {} => Start(f).err = "NO_CONTEST_RECORD"
      BY <2>2, <2>9
    <3> QED
      BY <2>1, <3>1
  <2>4. c # {} /\ Start(f).at = Min(c)
    <3>1. Start(f) = [err |-> "", at |-> Min(c)]
      BY <2>2, <2>9, <2>10
    <3>2. PICK m : m = Min(c)
      OBVIOUS
    <3>4. PICK r : r = Start(f)
      OBVIOUS
    <3>5. r = [err |-> "", at |-> m]
      BY <3>1, <3>2, <3>4
    <3>6. r.at = m
      BY <3>5
    <3>3. Start(f).at = m
      BY <3>4, <3>6
    <3> QED
      BY <2>10, <3>2, <3>3
  <2>5. Min(c) \in c
    BY <2>3, <2>4, MinIsLeast
  <2>6. Header' = Start(f).at
    BY <1>1 DEF Header
  <2>7. PICK h \in 1..Len(f) : h = Min(c)
    BY <2>3, <2>5
  <2>11. Header' = h /\ pos' = h
    BY <2>1, <2>4, <2>6, <2>7
  <2>12. h \in Nat /\ h <= Len(f)
    BY <1>6
  <2> QED
    BY <2>1, <2>11, <2>12
<1>9. Place'
  <2>1. IsList(out)' /\ IsList(bad)'
    BY <1>2 DEF CabrilloInv, Place, IsList
  <2>2. /\ live' \in BOOLEAN /\ partial' \in BOOLEAN /\ saveErr' \in BOOLEAN /\ idx' \in 0..8
        /\ ~live' /\ ~partial' /\ ~saveErr'
    BY <1>2, <1>3 DEF CabrilloInv, Place
  <2>3. CASE st' = "open"
    <3>1. Reading'
      BY <2>3 DEF Reading
    <3>2. pos' \in Header'..Len(log')
      <4>1. PICK h \in Nat : h = Header' /\ pos' = h /\ h <= Len(f)
        BY <1>8, <2>3
      <4>2. Len(log') = Len(f)
        BY <1>1
      <4>3. h \in h..Len(f)
        BY <4>1, <1>6
      <4> QED
        BY <4>1, <4>2, <4>3
    <3> QED
      BY <2>1, <2>2, <2>3, <3>1, <3>2, <1>8, <1>6, <1>1 DEF Place
  <2>4. CASE st' = "refused"
    <3>1. ~Reading'
      BY <2>4 DEF Reading
    <3>2. pos' = 0 /\ loc' = 0 /\ idx' = 0
      BY <1>1, <1>2, <1>3, <2>4
    <3> QED
      BY <2>1, <2>2, <2>4, <3>1, <3>2, <1>4 DEF Place
  <2> QED
    BY <1>7, <2>3, <2>4
<1>10. st' = "open" => QSOLines(pos)' = {}
  <2> SUFFICES ASSUME st' = "open" PROVE QSOLines(pos)' = {}
    OBVIOUS
  <2>1. PICK h \in Nat : h = Header'
    BY <1>8
  <2>2. QSOLines(pos)' = {i \in (h + 1)..h : Tag(log'[i]) = "QSO"}
    BY <1>8, <2>1 DEF QSOLines, Header
  <2>3. (h + 1)..h = {}
    BY NothingBetween
  <2> QED
    BY <2>2, <2>3
<1>11. Reading' => st' = "open"
  BY <1>7 DEF Reading
<1>12. ColumnKept'
  <2> SUFFICES ASSUME st' = "open"
               PROVE  IF Known(pos)' THEN loc' = ColumnUsed(pos)' /\ loc' # 0 ELSE loc' = 0
    BY <1>11 DEF ColumnKept
  <2>1. Known(pos)' <=> CallField(contest') # 0
    BY <1>10 DEF Known
  <2>2. CallField(contest') # 0 => ColumnUsed(pos)' = CallField(contest')
    BY DEF ColumnUsed
  <2> QED
    BY <1>8, <2>1, <2>2
<1>13. HandKept'
  BY <1>2, <1>3 DEF HandKept, Unfinished
<1>14. LinesKept'
  <2>1. st' # "eof"
    BY <1>7
  <2> QED
    BY <1>5, <1>10, <1>11, <2>1 DEF LinesKept
<1>15. RecordsKept'
  BY <1>4 DEF RecordsKept
<1>16. EachLineAccounted'
  <2>1. st' # "eof"
    BY <1>7
  <2> QED
    BY <1>4, <2>1 DEF EachLineAccounted, Delivered
<1> QED
  BY <1>9, <1>12, <1>13, <1>14, <1>15, <1>16 DEF CabrilloInv

\* Reading goes on: what does not change with the line read.
LEMMA SameColumns ==
  ASSUME log' = log, contest' = contest
  PROVE  \A q : ColumnUsed(q)' = ColumnUsed(q) /\ (Known(q)' <=> Known(q)) /\ QSOLines(q)' = QSOLines(q)
BY DEF ColumnUsed, GuessedFrom, Known, QSOLines

\* The records delivered stay right.
LEMMA RecordsStay ==
  ASSUME log' = log, contest' = contest
  PROVE  /\ \A l, r : Right(l, r)' <=> Right(l, r)
         /\ RecordsKept /\ out' = out => RecordsKept'
<1>1. \A q : ColumnUsed(q)' = ColumnUsed(q) /\ (Known(q)' <=> Known(q))
  BY SameColumns
<1>2. \A l, r : Right(l, r)' <=> Right(l, r)
  BY <1>1 DEF Right, SpoiltBefore
<1> QED
  BY <1>2 DEF RecordsKept

\* One more element.
LEMMA Longer ==
  ASSUME NEW s, NEW e, NEW t, IsList(s), t = Append(s, e)
  PROVE  /\ IsList(t) /\ Len(s) \in Nat /\ Len(t) = Len(s) + 1
         /\ DOMAIN t = DOMAIN s \cup {Len(s) + 1} /\ Len(s) + 1 \notin DOMAIN s
         /\ t[Len(s) + 1] = e
         /\ \A j \in DOMAIN s : t[j] = s[j]
<1>1. /\ IsList(t) /\ Len(s) \in Nat /\ DOMAIN s = 1..Len(s) /\ Len(t) = Len(s) + 1
      /\ DOMAIN t = 1..(Len(s) + 1)
      /\ \A i \in 1..Len(s) : t[i] = s[i]
      /\ t[Len(s) + 1] = e
  BY Appended
<1>2. PICK n \in Nat : n = Len(s)
  BY <1>1
<1>3. 1..(n + 1) = (1..n) \cup {n + 1} /\ n + 1 \notin 1..n
  OBVIOUS
<1> QED
  BY <1>1, <1>2, <1>3

\* One more complaint, about the line of the last one at the earliest.
LEMMA Complained ==
  ASSUME NEW s, NEW t, IsList(s), InOrder(s), NEW p \in Nat, t = Append(s, p),
         Elements(s) \subseteq 0..p, LastOnly(s, p)
  PROVE  /\ IsList(t) /\ InOrder(t)
         /\ Elements(t) = Elements(s) \cup {p}
         /\ p \notin Elements(s) => LastOnly(t, p)
<1>1. /\ IsList(t) /\ Len(s) \in Nat /\ Len(t) = Len(s) + 1
      /\ DOMAIN t = DOMAIN s \cup {Len(s) + 1} /\ Len(s) + 1 \notin DOMAIN s
      /\ t[Len(s) + 1] = p
      /\ \A j \in DOMAIN s : t[j] = s[j]
  <2>1. IsList(t) /\ Len(s) \in Nat
    BY Longer
  <2>2. /\ Len(t) = Len(s) + 1
        /\ DOMAIN t = DOMAIN s \cup {Len(s) + 1} /\ Len(s) + 1 \notin DOMAIN s
        /\ t[Len(s) + 1] = p
        /\ \A j \in DOMAIN s : t[j] = s[j]
    BY Longer
  <2> QED
    BY <2>1, <2>2
<1>2. DOMAIN s = 1..Len(s)
  BY Appended
<1>3. PICK n \in Nat : n = Len(s)
  BY <1>1
<1>4. /\ DOMAIN s = 1..n /\ DOMAIN t = 1..(n + 1) /\ Len(t) = n + 1 /\ t[n + 1] = p
      /\ \A j \in 1..n : t[j] = s[j] /\ s[j] \in Nat /\ s[j] <= p /\ (j < n => s[j] < p)
  <2>1. \A j \in DOMAIN s : s[j] \in 0..p
    BY DEF Elements
  <2> QED
    BY <1>1, <1>2, <1>3, <2>1 DEF LastOnly
<1>5. ASSUME NEW j \in 1..(n + 1), NEW k \in 1..(n + 1), j < k
      PROVE  t[j] <= t[k] /\ (j + 1 < k => t[j] < t[k])
  <2>1. j \in 1..n
    BY <1>5
  <2>2. CASE k = n + 1
    <3>1. t[k] = p /\ t[j] = s[j]
      BY <2>1, <2>2, <1>4
    <3>2. j + 1 < k => j < n
      BY <2>2
    <3> QED
      BY <2>1, <3>1, <3>2, <1>4
  <2>3. CASE k \in 1..n
    BY <1>4, <1>5, <2>1, <2>3 DEF InOrder
  <2>4. k = n + 1 \/ k \in 1..n
    OBVIOUS
  <2> QED
    BY <2>2, <2>3, <2>4
<1>6. InOrder(t)
  <2>1. \A j, k \in DOMAIN t : j < k => t[j] <= t[k]
    BY <1>4, <1>5
  <2>2. \A j, k \in DOMAIN t : j + 1 < k => t[j] < t[k]
    BY <1>4, <1>5
  <2> QED
    BY <2>1, <2>2 DEF InOrder
<1>7. p \notin Elements(s) => LastOnly(t, p)
  <2>1. ASSUME p \notin Elements(s), NEW k \in 1..n PROVE t[k] < p
    <3>1. s[k] # p
      BY <2>1, <1>4 DEF Elements
    <3> QED
      BY <3>1, <1>4
  <2> QED
    BY <2>1, <1>4 DEF LastOnly
<1>8. Elements(t) = Elements(s) \cup {p}
  BY <1>1 DEF Elements
<1> QED
  BY <1>1, <1>6, <1>7, <1>8

\* The record that was given up is not a contact: the next call complains of what it
\* lacks.
LEMMA TakePartialKeeps == CabrilloInv /\ TakePartial => CabrilloInv'
<1> SUFFICES ASSUME CabrilloInv, TakePartial PROVE CabrilloInv'
  OBVIOUS
<1>1. st = "open" /\ partial /\ partial' = FALSE
      /\ UNCHANGED <<log, st, contest, pos, idx, live, loc, rec, saveErr>>
  BY DEF TakePartial
<1>2. Missing(rec) /\ pos \in Refused /\ ~live /\ LastOnly(bad, pos)
  BY <1>1 DEF CabrilloInv, HandKept, Place
<1>3. out' = out /\ bad' = Append(bad, pos)
  BY <1>2 DEF TakePartial
<1>4. Reading
  BY <1>1 DEF Reading
<1>11. PICK h \in Nat : h = Header /\ pos \in Nat
  BY <1>4 DEF CabrilloInv, Place
<1>12. Elements(bad) \subseteq 0..pos
  <2>1. Elements(bad) \subseteq QSOLines(pos)
    BY <1>4 DEF CabrilloInv, LinesKept, Refused, Elements
  <2>2. QSOLines(pos) \subseteq (h + 1)..pos
    BY <1>11 DEF QSOLines, Header
  <2> QED
    BY <2>1, <2>2, <1>11
<1>13. IsList(bad) /\ InOrder(bad)
  BY DEF CabrilloInv, Place, EachLineAccounted, InOrder
<1>14. IsList(bad') /\ InOrder(bad') /\ Refused' = Refused
  <2>1. PICK s, t : s = bad /\ t = bad'
    OBVIOUS
  <2>2. IsList(s) /\ InOrder(s) /\ t = Append(s, pos) /\ Elements(s) \subseteq 0..pos /\ LastOnly(s, pos)
    BY <1>2, <1>3, <1>12, <1>13, <2>1
  <2>3. pos \in Nat
    BY <1>11
  <2>4. IsList(t) /\ InOrder(t) /\ Elements(t) = Elements(s) \cup {pos}
    BY <2>2, <2>3, Complained
  <2>5. Elements(s) = Refused /\ Elements(t) = Refused'
    BY <2>1 DEF Elements, Refused
  <2> QED
    BY <1>2, <2>1, <2>4, <2>5
<1>5. Place'
  BY <1>1, <1>3, <1>4, <1>14 DEF CabrilloInv, Place, Reading, Header, IsList
<1>6. ColumnKept'
  BY <1>1, SameColumns DEF CabrilloInv, ColumnKept, Reading, Known, ColumnUsed, GuessedFrom, QSOLines
<1>7. HandKept'
  BY <1>1, <1>2 DEF CabrilloInv, HandKept, Unfinished
<1>15. Delivered' = Delivered
  BY <1>3 DEF Delivered
<1>8. LinesKept'
  BY <1>1, <1>14, <1>15 DEF CabrilloInv, LinesKept, QSOLines, InHand, Unfinished, Reading
<1>9. RecordsKept'
  BY <1>1, <1>3, RecordsStay DEF CabrilloInv
<1>10. EachLineAccounted'
  BY <1>1, <1>3, <1>14, <1>15 DEF CabrilloInv, EachLineAccounted, InOrder
<1> QED
  BY <1>5, <1>6, <1>7, <1>8, <1>9, <1>10 DEF CabrilloInv

\* The file ends, or END-OF-LOG is read: no QSO line was left unread.
LEMMA EndKeeps ==
  ASSUME CabrilloInv, st = "open", ~Unfinished,
         st' = "eof",
         UNCHANGED <<log, contest, pos, idx, live, loc, rec, partial, saveErr, out, bad>>,
         NEW p, p = NextLine(pos, {"QSO", "END-OF-LOG"}), p = 0 \/ Tag(log[p]) = "END-OF-LOG"
  PROVE  CabrilloInv'
<1>1. Reading /\ Reading'
  BY DEF Reading
<1>2. Opened /\ pos \in Nat /\ Header <= pos /\ pos <= Len(log)
  BY <1>1 DEF CabrilloInv, Place, Opened
<1>3. \/ p = 0 /\ \A i \in 1..Len(log) : i > pos => Tag(log[i]) \notin {"QSO", "END-OF-LOG"}
      \/ /\ p \in 1..Len(log) /\ p > pos
         /\ \A i \in 1..Len(log) : pos < i /\ i < p => Tag(log[i]) \notin {"QSO", "END-OF-LOG"}
  BY <1>2, NextLineIsFirst
<1>4. ASSUME NEW i \in QSOLines(Len(log)), i > pos
      PROVE  \E e \in pos+1..i : Tag(log[e]) = "END-OF-LOG"
  <2>1. PICK h \in Nat : h = Header
    BY <1>2 DEF Opened
  <2>2. i \in (h + 1)..Len(log) /\ Tag(log[i]) = "QSO"
    BY <1>4, <2>1 DEF QSOLines, Header
  <2>3. i \in 1..Len(log)
    BY <2>2, <1>2 DEF Opened
  <2>4. p # 0
    BY <1>3, <1>4, <2>2, <2>3
  <2>5. p \in 1..Len(log) /\ p > pos /\ ~(i < p) /\ Tag(log[p]) = "END-OF-LOG"
    BY <1>3, <1>4, <2>2, <2>3, <2>4
  <2>6. p \in pos+1..i
    BY <2>3, <2>5, <1>2
  <2> QED
    BY <2>5, <2>6
<1>5. Delivered \cup Refused = QSOLines(pos)
  BY <1>1 DEF CabrilloInv, LinesKept, InHand
<1>6. Place'
  <2>1. IsList(out)' /\ IsList(bad)'
    BY DEF CabrilloInv, Place, IsList
  <2>2. Header' = Header
    BY DEF Header
  <2> QED
    BY <1>1, <2>1, <2>2 DEF CabrilloInv, Place
<1>7. ColumnKept'
  BY <1>1, SameColumns DEF CabrilloInv, ColumnKept
<1>9. Delivered' = Delivered /\ Refused' = Refused
  BY DEF Delivered, Refused
<1>8. HandKept'
  BY <1>9, SameColumns DEF CabrilloInv, HandKept, Unfinished, SpoiltBefore
<1>10. LinesKept'
  BY <1>1, <1>5, <1>9, SameColumns DEF CabrilloInv, LinesKept, InHand, Unfinished
<1>11. RecordsKept'
  BY RecordsStay DEF CabrilloInv
<1>12. EachLineAccounted'
  <2>1. QSOLines(pos)' = QSOLines(pos) /\ QSOLines(Len(log))' = QSOLines(Len(log))
    BY SameColumns
  <2> QED
    BY <1>4, <1>5, <1>9, <2>1 DEF CabrilloInv, EachLineAccounted
<1> QED
  BY <1>6, <1>7, <1>8, <1>10, <1>11, <1>12 DEF CabrilloInv

\* One call reads field i of line p, with g for the column: a new line, or the next
\* field of the line in hand.
Reads(p, i, g) ==
  \/ /\ ~Unfinished /\ i = 1 /\ g = Guess(log[p])
     /\ p = NextLine(pos, {"QSO", "END-OF-LOG"}) /\ p # 0 /\ Tag(log[p]) # "END-OF-LOG"
  \/ Unfinished /\ i = idx /\ p = pos /\ g = [loc |-> loc, err |-> ""]

\* What holds of them: the line is neither delivered nor refused yet, the column is
\* the one to use, and the record holds the fields before i.
LEMMA WhatIsRead ==
  ASSUME CabrilloInv, st = "open", NEW p, NEW i, NEW g, Reads(p, i, g)
  PROVE  /\ Opened /\ p \in 1..Len(log) /\ Header < p /\ Tag(log[p]) = "QSO" /\ i \in 1..7
         /\ p \in QSOLines(p) /\ Delivered \cup Refused = QSOLines(p) \ {p}
         /\ IF Known(p) THEN g.loc = ColumnUsed(p) /\ g.loc # 0 ELSE g.loc = 0
         /\ g.err # "" => i = 1
         /\ g.err = "" => Known(p)
         /\ (IF i = 1 THEN NoRecord ELSE rec) = Taken(log[p], i, g.loc)
         /\ saveErr <=> SpoiltBefore(p, i)
<1>1. Reading
  BY DEF Reading
<1>2. Opened /\ pos \in Nat /\ Header <= pos /\ pos <= Len(log)
  BY <1>1 DEF CabrilloInv, Place, Opened
<1>3. Delivered \cup Refused = QSOLines(pos) \ InHand
  BY <1>1 DEF CabrilloInv, LinesKept
<1>4. IF Known(pos) THEN loc = ColumnUsed(pos) /\ loc # 0 ELSE loc = 0
  BY <1>1 DEF CabrilloInv, ColumnKept
<1>5. CASE Unfinished
  <2>1. i = idx /\ p = pos /\ g = [loc |-> loc, err |-> ""]
    BY <1>5 DEF Reads
  <2>2. live /\ Tag(log[pos]) = "QSO"
    BY <1>5 DEF Unfinished, CabrilloInv, Place
  <2>9. idx >= 2 /\ pos > Header
    BY <2>2 DEF CabrilloInv, Place
  <2>10. idx \in 0..8 /\ ~(idx > 7)
    BY <1>5, FieldsNumbered DEF Unfinished, EndOfRecord, CabrilloInv, Place
  <2>11. idx \in 1..7 /\ idx # 1
    BY <2>9, <2>10
  <2>3. Known(pos) /\ rec = Taken(log[pos], idx, loc)
    BY <2>2 DEF CabrilloInv, HandKept
  <2>4. i \in 1..7 /\ i # 1
    BY <2>1, <2>11
  <2>5. p \in 1..Len(log) /\ Header < p
    <3>1. PICK h \in Nat : h = Header
      BY <1>2 DEF Opened
    <3>2. PICK q \in Nat : q = pos
      BY <1>2
    <3>3. q \in 1..Len(log) /\ h < q
      BY <3>1, <3>2, <2>9, <1>2 DEF Opened
    <3> QED
      BY <3>1, <3>2, <3>3, <2>1
  <2>6. p \in QSOLines(p)
    <3>1. PICK h \in Nat : h = Header
      BY <1>2 DEF Opened
    <3>3. PICK q \in Nat : q = pos
      BY <1>2
    <3>4. q \in (h + 1)..q
      BY <3>1, <3>3, <2>9
    <3>2. p \in (h + 1)..p
      BY <3>3, <3>4, <2>1
    <3> QED
      BY <3>1, <3>2, <2>1, <2>2 DEF QSOLines, Header
  <2>7. InHand = {p}
    BY <1>5, <2>1 DEF InHand
  <2>8. g.loc = loc /\ g.err = ""
    BY <2>1
  <2>12. saveErr <=> SpoiltBefore(p, i)
    BY <1>5, <2>1 DEF CabrilloInv, HandKept
  <2> QED
    BY <1>2, <1>3, <1>4, <2>1, <2>2, <2>3, <2>4, <2>5, <2>6, <2>7, <2>8, <2>12
<1>6. CASE ~Unfinished
  <2>1. /\ i = 1 /\ g = Guess(log[p])
        /\ p = NextLine(pos, {"QSO", "END-OF-LOG"}) /\ p # 0 /\ Tag(log[p]) # "END-OF-LOG"
    BY <1>6 DEF Reads
  <2>2. /\ p \in 1..Len(log) /\ p > pos /\ Tag(log[p]) \in {"QSO", "END-OF-LOG"}
        /\ \A j \in 1..Len(log) : pos < j /\ j < p => Tag(log[j]) \notin {"QSO", "END-OF-LOG"}
    BY <1>2, <2>1, NextLineIsFirst
  <2>3. Tag(log[p]) = "QSO"
    BY <2>1, <2>2
  <2>4. \A j \in 1..Len(log) : pos < j /\ j < p => Tag(log[j]) # "QSO"
    BY <2>2
  <2>5. QSOLines(p) = QSOLines(pos) \cup {p} /\ p \notin QSOLines(pos)
    BY <1>2, <2>2, <2>3, <2>4, OneMore
  <2>6. Delivered \cup Refused = QSOLines(p) \ {p} /\ p \in QSOLines(p)
    BY <1>3, <1>6, <2>5 DEF InHand
  <2>7. Header < p
    <3>1. PICK h \in Nat : h = Header
      BY <1>2 DEF Opened
    <3> QED
      BY <3>1, <2>2, <1>2 DEF Opened
  <2>11. /\ IF Known(p) THEN g.loc = ColumnUsed(p) /\ g.loc # 0 ELSE g.loc = 0
         /\ g.err = "" => Known(p)
    <3>8. CASE Known(pos)
      <4>1. Known(p) /\ ColumnUsed(p) = ColumnUsed(pos)
        BY <1>2, <2>2, <3>8, ColumnStays
      <4>2. g = [loc |-> loc, err |-> ""]
        BY <2>1, <3>8, <1>4 DEF Guess
      <4>3. g.loc = loc /\ g.err = ""
        BY <4>2
      <4> QED
        BY <4>1, <4>3, <1>4, <3>8
    <3>9. CASE ~Known(pos)
      <4>1. loc = 0 /\ CallField(contest) = 0 /\ \A j \in QSOLines(pos) : Candidates(log[j]) = {}
        BY <1>4, <3>9 DEF Known
      <4>2. CASE Candidates(log[p]) = {}
        <5>1. ~Known(p)
          BY <4>1, <4>2, <2>5 DEF Known
        <5>2. g = [loc |-> 0, err |-> "UNKNOWN_CONTEST"]
          BY <2>1, <4>1, <4>2 DEF Guess
        <5>3. g.loc = 0 /\ g.err # ""
          BY <5>2
        <5> QED
          BY <5>1, <5>3
      <4>3. CASE Candidates(log[p]) # {}
        <5>1. Known(p)
          BY <4>3, <2>6 DEF Known
        <5>2. {j \in QSOLines(p) : Candidates(log[j]) # {}} = {p}
          BY <4>1, <4>3, <2>5
        <5>3. Min({p}) = p
          BY <2>2 DEF Min
        <5>4. ColumnUsed(p) = Min(Candidates(log[p]))
          BY <4>1, <5>2, <5>3 DEF ColumnUsed, GuessedFrom
        <5>5. PICK C \in SUBSET (7..12) : C = Candidates(log[p])
          BY DEF Candidates, Looking, MAX_FIELDS
        <5>6. Min(C) \in C
          BY <4>3, <5>5, MinIsLeast
        <5>7. Min(C) # 0
          BY <5>5, <5>6
        <5>8. g = [loc |-> Min(Candidates(log[p])),
                   err |-> IF Cardinality(Candidates(log[p])) > 1 THEN "UNKNOWN_CONTEST" ELSE ""]
          BY <2>1, <4>1, <4>3 DEF Guess
        <5>9. g.loc = Min(Candidates(log[p]))
          BY <5>8
        <5> QED
          BY <5>1, <5>4, <5>5, <5>7, <5>9
      <4> QED
        BY <4>2, <4>3
    <3> QED
      BY <3>8, <3>9
  <2>10. (IF i = 1 THEN NoRecord ELSE rec) = Taken(log[p], i, g.loc)
    BY <2>1, NothingTaken
  <2>12. Opened /\ p \in 1..Len(log) /\ i = 1
    BY <1>2, <2>1, <2>2
  <2>13. i \in 1..7
    BY <2>12
  <2>14. saveErr <=> SpoiltBefore(p, i)
    <3>1. ~saveErr
      BY <1>6 DEF CabrilloInv, HandKept
    <3>2. \A j \in 1..7 : ~(j < 1)
      OBVIOUS
    <3> QED
      BY <3>1, <3>2, <2>12 DEF SpoiltBefore
  <2> QED
    BY <2>12, <2>13, <2>14, <2>3, <2>6, <2>7, <2>10, <2>11
<1> QED
  BY <1>5, <1>6

\* What a call then does.
Stops(p, i, g) ==
  /\ g.err # "" \/ ~Value(log[p], i, g.loc).ok
  /\ live' = FALSE /\ idx' = i /\ bad' = Append(bad, p) /\ saveErr' = FALSE /\ partial' = TRUE
  /\ rec' = (IF i = 1 THEN NoRecord ELSE rec)
  /\ out' = out

Takes(p, i, g) ==
  LET spoilt == saveErr \/ Spoils(log[p], i)
  IN  /\ g.err = ""
      /\ live' = TRUE /\ idx' = i + 1 /\ partial' = partial
      /\ rec' = [(IF i = 1 THEN NoRecord ELSE rec) EXCEPT ![FieldNames[i]] = Value(log[p], i, g.loc).v]
      /\ saveErr' = (spoilt /\ ~EndOfRecord(i + 1))
      /\ out' = IF EndOfRecord(i + 1) /\ ~spoilt THEN Append(out, [line |-> p, rec |-> rec']) ELSE out
      /\ bad' = IF EndOfRecord(i + 1) /\ spoilt THEN Append(bad, p) ELSE bad

Moves(p, g) == pos' = p /\ loc' = g.loc /\ UNCHANGED <<log, contest, st>>

\* What is delivered or refused so far is above the line that is read.
LEMMA AllBefore ==
  ASSUME CabrilloInv, st = "open", NEW p, NEW i, NEW g, Reads(p, i, g)
  PROVE  p \in Nat /\ \A l \in Delivered \cup Refused : l \in Nat /\ l < p
<1>1. Opened /\ p \in 1..Len(log) /\ Delivered \cup Refused = QSOLines(p) \ {p}
  BY WhatIsRead
<1>2. PICK h \in Nat : h = Header /\ p \in Nat
  BY <1>1 DEF Opened
<1>3. QSOLines(p) \subseteq (h + 1)..p
  BY <1>2 DEF QSOLines, Header
<1>4. \A l \in (h + 1)..p : l \in Nat /\ (l # p => l < p)
  BY <1>2
<1> QED
  BY <1>1, <1>2, <1>3, <1>4

\* The first complaint about a line.
LEMMA FirstComplaint ==
  ASSUME CabrilloInv, st = "open", NEW p, NEW i, NEW g, Reads(p, i, g), bad' = Append(bad, p)
  PROVE  IsList(bad') /\ InOrder(bad') /\ LastOnly(bad', p) /\ Refused' = Refused \cup {p}
<1>1. p \in Nat /\ \A l \in Delivered \cup Refused : l \in Nat /\ l < p
  BY AllBefore
<1>2. PICK s, t : s = bad /\ t = bad'
  OBVIOUS
<1>3. Elements(s) = Refused /\ Elements(t) = Refused'
  BY <1>2 DEF Elements, Refused
<1>4. IsList(s) /\ InOrder(s) /\ t = Append(s, p)
  BY <1>2 DEF CabrilloInv, Place, EachLineAccounted, InOrder
<1>5. Elements(s) \subseteq 0..p /\ p \notin Elements(s)
  BY <1>1, <1>3
<1>6. LastOnly(s, p)
  <2>1. \A k \in DOMAIN s : s[k] \in Elements(s)
    BY DEF Elements
  <2> QED
    BY <2>1, <1>1, <1>3 DEF LastOnly
<1>7. IsList(t) /\ InOrder(t) /\ LastOnly(t, p) /\ Elements(t) = Elements(s) \cup {p}
  BY <1>1, <1>4, <1>5, <1>6, Complained
<1> QED
  BY <1>2, <1>3, <1>7

\* The line is given up: it is complained about, and its record is not a contact.
LEMMA StopKeeps ==
  ASSUME CabrilloInv, st = "open", NEW p, NEW i, NEW g, Reads(p, i, g), Moves(p, g), Stops(p, i, g)
  PROVE  CabrilloInv'
<1>15. pos' = p /\ loc' = g.loc
  BY DEF Moves
<1>16. log' = log /\ contest' = contest /\ st' = st
  BY DEF Moves
<1>17. ~live' /\ ~saveErr' /\ live' \in BOOLEAN /\ partial' \in BOOLEAN /\ saveErr' \in BOOLEAN
  BY DEF Stops
<1>18. idx' = i /\ bad' = Append(bad, p) /\ out' = out
  BY DEF Stops
<1>19. rec' = IF i = 1 THEN NoRecord ELSE rec
  BY DEF Stops
<1>1. /\ Opened /\ p \in 1..Len(log) /\ Header < p /\ Tag(log[p]) = "QSO" /\ i \in 1..7
      /\ p \in QSOLines(p) /\ Delivered \cup Refused = QSOLines(p) \ {p}
      /\ IF Known(p) THEN g.loc = ColumnUsed(p) /\ g.loc # 0 ELSE g.loc = 0
      /\ g.err # "" => i = 1
      /\ g.err = "" => Known(p)
      /\ (IF i = 1 THEN NoRecord ELSE rec) = Taken(log[p], i, g.loc)
      /\ saveErr <=> SpoiltBefore(p, i)
  BY WhatIsRead
<1>12. i \in 1..7
  BY <1>1
<1>13. p \in 1..Len(log) /\ Len(log) \in Nat /\ Header < p /\ Header \in Nat
  BY <1>1 DEF Opened
<1>2. Reading /\ Reading'
  BY <1>16 DEF Reading
<1>14. IsList(bad) /\ IsList(out)
  BY DEF CabrilloInv, Place
<1>3. IsList(bad') /\ InOrder(bad') /\ LastOnly(bad', p) /\ Refused' = Refused \cup {p}
  BY <1>18, FirstComplaint
<1>4. Delivered' = Delivered
  BY <1>18 DEF Delivered
<1>5. (Delivered \cup Refused)' = (Delivered \cup Refused) \cup {p} /\ p \notin Delivered \cup Refused
  BY <1>1, <1>3, <1>4
<1>6. Place'
  <2>1. IsList(out)'
    BY <1>14, <1>18 DEF IsList
  <2>2. PICK h \in Nat : h = Header /\ Header' = h
    BY <1>13, <1>16 DEF Header
  <2>3. pos' \in Header'..Len(log')
    <3>1. p \in h..Len(log)
      BY <1>13, <2>2
    <3> QED
      BY <2>2, <3>1, <1>15, <1>16
  <2>4. idx' \in 0..8
    BY <1>12, <1>18
  <2>5. Len(log') \in Nat /\ DOMAIN log' = 1..Len(log') /\ Header' \in Nat
    BY <1>1, <1>16, <2>2 DEF Opened
  <2> QED
    BY <1>2, <1>3, <1>16, <1>17, <2>1, <2>3, <2>4, <2>5 DEF Place
<1>7. ColumnKept'
  <2>1. Known(p)' <=> Known(p)
    BY <1>16, SameColumns
  <2>2. ColumnUsed(p)' = ColumnUsed(p)
    BY <1>16, SameColumns
  <2>3. Known(pos)' <=> Known(p)
    BY <1>15, <2>1 DEF Known, QSOLines
  <2>4. ColumnUsed(pos)' = ColumnUsed(p)
    BY <1>15, <2>2 DEF ColumnUsed, GuessedFrom, QSOLines
  <2> QED
    BY <1>1, <1>15, <2>3, <2>4 DEF ColumnKept
<1>8. HandKept'
  <2>1. rec' = Taken(log[p], i, g.loc)
    BY <1>1, <1>19
  <2>2. ~Value(log[p], i, g.loc).ok \/ i = 1
    BY <1>1 DEF Stops
  <2>3. Missing(Taken(log[p], i, g.loc))
    BY <1>12, <2>2, StoppedIsMissing
  <2>4. Missing(rec)'
    BY <2>1, <2>3 DEF Missing
  <2>5. pos' \in Refused' /\ LastOnly(bad', pos')
    BY <1>3, <1>15
  <2> QED
    BY <1>17, <2>4, <2>5 DEF HandKept, Unfinished, LastOnly
<1>9. LinesKept'
  <2>1. InHand' = {} /\ ~Unfinished'
    BY <1>17 DEF InHand, Unfinished
  <2>2. QSOLines(pos)' = QSOLines(p)
    BY <1>15, <1>16 DEF QSOLines
  <2>3. (Delivered \cup Refused)' = QSOLines(p)
    BY <1>1, <1>5
  <2> QED
    BY <2>1, <2>2, <2>3 DEF LinesKept
<1>10. RecordsKept'
  BY <1>16, <1>18, RecordsStay DEF CabrilloInv
<1>11. EachLineAccounted'
  <2>1. st' # "eof"
    BY <1>16
  <2>2. Delivered' \cap Refused' = {}
    BY <1>3, <1>4, <1>5 DEF CabrilloInv, EachLineAccounted
  <2> QED
    BY <1>3, <1>18, <2>1, <2>2 DEF CabrilloInv, EachLineAccounted, InOrder
<1> QED
  BY <1>6, <1>7, <1>8, <1>9, <1>10, <1>11 DEF CabrilloInv

\* The field is taken; after the last one the record is delivered, or its date or time
\* is complained about.
LEMMA TakeKeeps ==
  ASSUME CabrilloInv, st = "open", NEW p, NEW i, NEW g, Reads(p, i, g), Moves(p, g), Takes(p, i, g),
         ~partial
  PROVE  CabrilloInv'
<1>18. pos' = p /\ loc' = g.loc
  BY DEF Moves
<1>19. log' = log /\ contest' = contest /\ st' = st
  BY DEF Moves
<1>20. live' /\ live' \in BOOLEAN
  BY DEF Takes
<1>21. ~partial' /\ partial' \in BOOLEAN
  BY DEF Takes, CabrilloInv, Place
<1>22. idx' = i + 1
  BY DEF Takes
<1>23. rec' = [(IF i = 1 THEN NoRecord ELSE rec) EXCEPT ![FieldNames[i]] = Value(log[p], i, g.loc).v]
  BY DEF Takes
<1> DEFINE spoilt == saveErr \/ Spoils(log[p], i)
           e == [line |-> p, rec |-> rec']
<1>24. /\ out' = IF EndOfRecord(i + 1) /\ ~spoilt THEN Append(out, e) ELSE out
       /\ bad' = IF EndOfRecord(i + 1) /\ spoilt THEN Append(bad, p) ELSE bad
       /\ saveErr' = (spoilt /\ ~EndOfRecord(i + 1))
  BY DEF Takes
<1>1. /\ Opened /\ p \in 1..Len(log) /\ Header < p /\ Tag(log[p]) = "QSO" /\ i \in 1..7
      /\ p \in QSOLines(p) /\ Delivered \cup Refused = QSOLines(p) \ {p}
      /\ Known(p) /\ g.loc = ColumnUsed(p) /\ g.loc # 0
      /\ (IF i = 1 THEN NoRecord ELSE rec) = Taken(log[p], i, g.loc)
      /\ saveErr <=> SpoiltBefore(p, i)
  <2>1. g.err = ""
    BY DEF Takes
  <2> QED
    BY <2>1, WhatIsRead
<1>15. i \in 1..7
  BY <1>1
<1>16. p \in 1..Len(log) /\ Len(log) \in Nat /\ Header < p /\ Header \in Nat
  BY <1>1 DEF Opened
<1>17. IsList(bad) /\ IsList(out)
  BY DEF CabrilloInv, Place
<1>2. Reading /\ Reading'
  BY <1>19 DEF Reading
<1>3. rec' = Taken(log[p], i + 1, g.loc)
  <2>1. (IF i = 1 THEN NoRecord ELSE rec) = Taken(log[p], i, g.loc)
    BY <1>1
  <2>2. rec' = [Taken(log[p], i, g.loc) EXCEPT ![FieldNames[i]] = Value(log[p], i, g.loc).v]
    BY <1>23, <2>1
  <2> QED
    BY <1>15, <2>2, OneTaken
<1>4. EndOfRecord(i + 1) <=> i = 7
  <2>1. Len(FieldNames) = 7
    BY FieldsNumbered
  <2>2. EndOfRecord(i + 1) <=> i + 1 > 7
    BY <2>1 DEF EndOfRecord
  <2> QED
    BY <1>15, <2>2
<1>25. spoilt <=> SpoiltBefore(p, i + 1)
  <2>1. \A j \in 1..7 : j < i + 1 <=> j < i \/ j = i
    BY <1>15
  <2> QED
    BY <1>1, <1>15, <2>1 DEF SpoiltBefore
<1> HIDE DEF e, spoilt
<1>5. IsList(Append(out, e)) /\ IsList(Append(bad, p))
  BY <1>17, Appended
<1>6. Place'
  <2>1. IsList(out') /\ IsList(bad') /\ saveErr' \in BOOLEAN
    <3>1. (out' = Append(out, e) \/ out' = out) /\ (bad' = Append(bad, p) \/ bad' = bad)
      BY <1>24
    <3>2. saveErr' \in BOOLEAN
      BY <1>24
    <3> QED
      BY <3>1, <3>2, <1>5, <1>17
  <2>2. PICK h \in Nat : h = Header /\ Header' = h
    BY <1>16, <1>19 DEF Header
  <2>3. pos' \in Header'..Len(log') /\ pos' > Header'
    <3>1. p \in h..Len(log) /\ p > h
      BY <1>16, <2>2
    <3> QED
      BY <2>2, <3>1, <1>18, <1>19
  <2>4. idx' \in 0..8 /\ idx' >= 2
    BY <1>15, <1>22
  <2>5. Len(log') \in Nat /\ DOMAIN log' = 1..Len(log') /\ Header' \in Nat
    BY <1>1, <1>19, <2>2 DEF Opened
  <2>6. Tag(log'[pos']) = "QSO"
    BY <1>1, <1>18, <1>19
  <2> QED
    BY <1>2, <1>19, <1>20, <1>21, <2>1, <2>3, <2>4, <2>5, <2>6 DEF Place
<1>7. Known(pos)' /\ ColumnUsed(pos)' = ColumnUsed(p)
  <2>1. Known(p)' /\ ColumnUsed(p)' = ColumnUsed(p)
    BY <1>1, <1>19, SameColumns
  <2>2. Known(pos)' <=> Known(p)'
    BY <1>18 DEF Known, QSOLines
  <2>3. ColumnUsed(pos)' = ColumnUsed(p)'
    BY <1>18 DEF ColumnUsed, GuessedFrom, QSOLines
  <2> QED
    BY <2>1, <2>2, <2>3
<1>8. ColumnKept'
  BY <1>1, <1>7, <1>18 DEF ColumnKept
<1>9. HandKept'
  <2>1. Taken(log[pos], idx, loc)' = Taken(log[p], i + 1, g.loc)
    BY <1>18, <1>19, <1>22 DEF Taken
  <2>2. SpoiltBefore(pos, idx)' <=> SpoiltBefore(p, i + 1)
    BY <1>18, <1>19, <1>22 DEF SpoiltBefore
  <2>3. Unfinished' <=> ~EndOfRecord(i + 1)
    BY <1>20, <1>22 DEF Unfinished, EndOfRecord
  <2>4. IF Unfinished' THEN saveErr' <=> SpoiltBefore(pos, idx)' ELSE ~saveErr'
    BY <1>24, <1>25, <2>2, <2>3
  <2> QED
    BY <1>3, <1>7, <1>21, <2>1, <2>4 DEF HandKept
<1>10. QSOLines(pos)' = QSOLines(p)
  BY <1>18, <1>19 DEF QSOLines
<1>11. Delivered \cup Refused = QSOLines(p) \ {p} /\ p \in QSOLines(p) /\ p \notin Delivered \cup Refused
  BY <1>1
<1>12. /\ p \in Nat /\ \A k \in DOMAIN out : out[k].line \in Nat /\ out[k].line < p
       /\ \A k, j \in DOMAIN out : k < j => out[k].line < out[j].line
       /\ InOrder(bad) /\ Delivered \cap Refused = {}
  BY AllBefore DEF CabrilloInv, EachLineAccounted, InOrder, Delivered
<1>26. st' # "eof"
  BY <1>19
<1>13. CASE i # 7
  <2>1. out' = out /\ bad' = bad
    BY <1>4, <1>13, <1>24
  <2>2. Delivered' = Delivered /\ Refused' = Refused
    BY <2>1 DEF Delivered, Refused
  <2>3. Unfinished' /\ InHand' = {p}
    <3>1. ~EndOfRecord(idx)'
      BY <1>4, <1>13, <1>22 DEF EndOfRecord
    <3> QED
      BY <3>1, <1>18, <1>20 DEF InHand, Unfinished
  <2>4. LinesKept'
    BY <1>10, <1>11, <1>26, <2>2, <2>3 DEF LinesKept
  <2>5. RecordsKept'
    BY <2>1, <1>19, RecordsStay DEF CabrilloInv
  <2>6. EachLineAccounted'
    BY <1>26, <2>1, <2>2 DEF CabrilloInv, EachLineAccounted
  <2> QED
    BY <1>6, <1>8, <1>9, <2>4, <2>5, <2>6 DEF CabrilloInv
<1>27. ASSUME i = 7 PROVE ~Unfinished' /\ InHand' = {}
  <2>1. EndOfRecord(idx)'
    BY <1>4, <1>27, <1>22 DEF EndOfRecord
  <2> QED
    BY <2>1 DEF InHand, Unfinished
<1>28. CASE i = 7 /\ spoilt
  <2>1. out' = out /\ bad' = Append(bad, p)
    BY <1>4, <1>28, <1>24
  <2>2. Delivered' = Delivered
    BY <2>1 DEF Delivered
  <2>3. InOrder(bad') /\ Refused' = Refused \cup {p}
    BY <2>1, FirstComplaint
  <2>4. LinesKept'
    <3>1. (Delivered \cup Refused)' = QSOLines(p)
      BY <1>11, <2>2, <2>3
    <3> QED
      BY <3>1, <1>10, <1>26, <1>27, <1>28 DEF LinesKept
  <2>5. RecordsKept'
    BY <2>1, <1>19, RecordsStay DEF CabrilloInv
  <2>6. EachLineAccounted'
    <3>1. Delivered' \cap Refused' = {}
      BY <1>11, <1>12, <2>2, <2>3
    <3> QED
      BY <3>1, <1>12, <1>26, <2>1, <2>3 DEF EachLineAccounted, InOrder
  <2> QED
    BY <1>6, <1>8, <1>9, <2>4, <2>5, <2>6 DEF CabrilloInv
<1>14. CASE i = 7 /\ ~spoilt
  <2>1. out' = Append(out, e) /\ bad' = bad
    BY <1>4, <1>14, <1>24
  <2>2. /\ Len(out) \in Nat /\ DOMAIN out' = DOMAIN out \cup {Len(out) + 1}
        /\ Len(out) + 1 \notin DOMAIN out /\ out'[Len(out) + 1] = e
        /\ \A j \in DOMAIN out : out'[j] = out[j]
    BY <1>17, <2>1, Longer
  <2>3. e.line = p /\ e.rec = rec'
    BY DEF e
  <2>4. Delivered' = Delivered \cup {p} /\ Refused' = Refused
    BY <2>1, <2>2, <2>3 DEF Delivered, Refused
  <2>8. LinesKept'
    <3>1. (Delivered \cup Refused)' = QSOLines(p)
      BY <1>11, <2>4
    <3> QED
      BY <3>1, <1>10, <1>26, <1>27, <1>14 DEF LinesKept
  <2>9. RecordsKept'
    <3>1. g.loc = ColumnUsed(p) /\ Known(p) /\ Tag(log[p]) = "QSO" /\ i + 1 = 8
      BY <1>1, <1>14
    <3>2. rec' = Taken(log[p], 8, ColumnUsed(p)) /\ ~SpoiltBefore(p, 8)
      BY <1>3, <1>14, <1>25, <3>1
    <3>3. Right(p, rec')
      BY <3>1, <3>2 DEF Right
    <3>4. \A k \in DOMAIN out : Right(out[k].line, out[k].rec)
      BY DEF CabrilloInv, RecordsKept
    <3>5. \A k \in DOMAIN out' : Right(out'[k].line, out'[k].rec)
      BY <2>2, <2>3, <3>3, <3>4
    <3>6. \A l, r : Right(l, r)' <=> Right(l, r)
      BY <1>19, RecordsStay
    <3> QED
      BY <3>5, <3>6 DEF RecordsKept
  <2>10. EachLineAccounted'
    <3>1. \A k, j \in DOMAIN out' : k < j => out'[k].line < out'[j].line
      <4>1. DOMAIN out = 1..Len(out)
        BY <1>17, Appended
      <4>2. \A k \in DOMAIN out : ~(Len(out) + 1 < k)
        BY <2>2, <4>1
      <4> QED
        BY <2>2, <2>3, <1>12, <4>2
    <3>2. Delivered' \cap Refused' = {}
      BY <1>11, <1>12, <2>4
    <3> QED
      BY <3>1, <3>2, <1>12, <1>26, <2>1 DEF EachLineAccounted, InOrder
  <2> QED
    BY <1>6, <1>8, <1>9, <2>8, <2>9, <2>10 DEF CabrilloInv
<1> QED
  BY <1>13, <1>14, <1>28

\* One call of tqsl_getCabrilloField is the end of the file, or gives up the line, or
\* takes a field.
LEMMA CallKeeps == CabrilloInv /\ GetCabrilloField => CabrilloInv'
<1> SUFFICES ASSUME CabrilloInv, GetCabrilloField PROVE CabrilloInv'
  OBVIOUS
<1> DEFINE fresh == ~live \/ idx = 0 \/ EndOfRecord(idx)
           p == IF fresh THEN NextLine(pos, {"QSO", "END-OF-LOG"}) ELSE pos
           i == IF fresh THEN 1 ELSE idx
           g == IF i = 1 THEN Guess(log[p]) ELSE [loc |-> loc, err |-> ""]
           val == Value(log[p], i, g.loc)
           took == [(IF i = 1 THEN NoRecord ELSE rec) EXCEPT ![FieldNames[i]] = val.v]
           spoilt == saveErr \/ Spoils(log[p], i)
<1>1. st = "open" /\ ~partial /\ log' = log /\ contest' = contest
  BY DEF GetCabrilloField
<1>2. IF p = 0 \/ Tag(log[p]) = "END-OF-LOG"
      THEN st' = "eof" /\ UNCHANGED <<pos, idx, live, loc, rec, partial, saveErr, out, bad>>
      ELSE /\ st' = st /\ pos' = p /\ loc' = g.loc
           /\ IF g.err # "" \/ ~val.ok
              THEN live' = FALSE /\ idx' = i /\ bad' = Append(bad, p) /\ saveErr' = FALSE
                   /\ partial' = TRUE /\ rec' = (IF i = 1 THEN NoRecord ELSE rec) /\ out' = out
              ELSE /\ live' = TRUE /\ idx' = i + 1 /\ rec' = took /\ partial' = partial
                   /\ saveErr' = (spoilt /\ ~EndOfRecord(i + 1))
                   /\ out' = IF EndOfRecord(i + 1) /\ ~spoilt
                             THEN Append(out, [line |-> p, rec |-> took]) ELSE out
                   /\ bad' = IF EndOfRecord(i + 1) /\ spoilt THEN Append(bad, p) ELSE bad
  BY DEF GetCabrilloField, LiveAfterError
<1>3. live => idx >= 2 /\ idx \in 0..8
  BY DEF CabrilloInv, Place
<1>4. fresh <=> ~Unfinished
  <2>1. live => idx # 0
    BY <1>3
  <2> QED
    BY <2>1 DEF Unfinished
<1>5. ~fresh => p = pos /\ i = idx /\ i # 1 /\ g = [loc |-> loc, err |-> ""]
  <2>1. ~fresh => live
    OBVIOUS
  <2>2. ~fresh => idx # 1
    BY <1>3, <2>1
  <2> QED
    BY <2>2
<1>6. fresh => p = NextLine(pos, {"QSO", "END-OF-LOG"}) /\ i = 1 /\ g = Guess(log[p])
  OBVIOUS
<1>7. ~fresh => p # 0 /\ Tag(log[p]) # "END-OF-LOG"
  <2> SUFFICES ASSUME ~fresh PROVE pos # 0 /\ Tag(log[pos]) # "END-OF-LOG"
    BY <1>5
  <2>1. live
    OBVIOUS
  <2>2. Tag(log[pos]) = "QSO" /\ pos > Header
    BY <2>1 DEF CabrilloInv, Place
  <2>3. Header \in Nat
    BY <1>1 DEF CabrilloInv, Place, Reading
  <2>4. pos # 0
    BY <2>2, <2>3
  <2> QED
    BY <2>2, <2>4
<1> HIDE DEF fresh, p, i, g
<1>8. CASE p = 0 \/ Tag(log[p]) = "END-OF-LOG"
  <2>1. fresh
    BY <1>7, <1>8
  <2>2. ~Unfinished /\ p = NextLine(pos, {"QSO", "END-OF-LOG"})
    BY <1>4, <1>6, <2>1
  <2>3. st' = "eof" /\ UNCHANGED <<log, contest, pos, idx, live, loc, rec, partial, saveErr, out, bad>>
    BY <1>1, <1>2, <1>8
  <2> QED
    BY <1>1, <1>8, <2>2, <2>3, EndKeeps
<1>9. CASE ~(p = 0 \/ Tag(log[p]) = "END-OF-LOG")
  <2>1. Reads(p, i, g)
    BY <1>4, <1>5, <1>6, <1>9 DEF Reads
  <2>2. Moves(p, g)
    BY <1>1, <1>2, <1>9 DEF Moves
  <2>3. CASE g.err # "" \/ ~val.ok
    <3>1. Stops(p, i, g)
      BY <1>2, <1>9, <2>3 DEF Stops
    <3> QED
      BY <1>1, <2>1, <2>2, <3>1, StopKeeps
  <2>4. CASE ~(g.err # "" \/ ~val.ok)
    <3>1. Takes(p, i, g)
      BY <1>2, <1>9, <2>4 DEF Takes
    <3> QED
      BY <1>1, <2>1, <2>2, <3>1, TakeKeeps
  <2> QED
    BY <2>3, <2>4
<1> QED
  BY <1>8, <1>9

LEMMA StepKeeps == CabrilloInv /\ [Next]_vars => CabrilloInv'
<1>1. ASSUME CabrilloInv, UNCHANGED vars PROVE CabrilloInv'
  <2>1. UNCHANGED <<log, contest, st, pos, idx, live, loc, rec, partial, saveErr, out, bad>>
    BY <1>1 DEF vars
  <2>2. Place'
    BY <1>1, <2>1 DEF CabrilloInv, Place, Reading, Header, IsList
  <2>3. ColumnKept'
    BY <1>1, <2>1 DEF CabrilloInv, ColumnKept, Reading, Known, ColumnUsed, GuessedFrom, QSOLines
  <2>4. HandKept'
    BY <1>1, <2>1 DEF CabrilloInv, HandKept, Known, QSOLines, Unfinished, SpoiltBefore, Refused, LastOnly
  <2>5. LinesKept'
    BY <1>1, <2>1 DEF CabrilloInv, LinesKept, Delivered, Refused, QSOLines, InHand, Unfinished, Reading
  <2>6. RecordsKept'
    BY <1>1, <2>1, RecordsStay DEF CabrilloInv
  <2>7. EachLineAccounted'
    BY <1>1, <2>1 DEF CabrilloInv, EachLineAccounted, Delivered, Refused, QSOLines
  <2> QED
    BY <2>2, <2>3, <2>4, <2>5, <2>6, <2>7 DEF CabrilloInv
<1> QED
  BY <1>1, BeginKeeps, CallKeeps, TakePartialKeeps DEF Next

-----------------------------------------------------------------------------
(* What the invariant gives.                                               *)

\* The column the code uses is that of the call, when no grid was taken for a call.
LEMMA ColumnsAgree ==
  ASSUME NEW p, Known(p), ~GridInGuess(p), Opened, p \in Nat
  PROVE  ColumnUsed(p) = ColumnOf(p)
<1>1. CASE CallField(contest) # 0
  BY <1>1 DEF ColumnUsed, ColumnOf
<1>2. CASE CallField(contest) = 0
  <2> DEFINE T == {i \in QSOLines(p) : Candidates(log[i]) # {}}
             U == {i \in QSOLines(p) : CallsIn(log[i]) # {}}
             l == Min(T)
  <2>1. T # {} /\ T \subseteq Nat
    <3>1. PICK h \in Nat : h = Header
      BY DEF Opened
    <3>2. QSOLines(p) \subseteq Nat
      BY <3>1 DEF QSOLines, Header
    <3> QED
      BY <1>2, <3>2 DEF Known
  <2>2. l \in T /\ \A j \in T : l <= j
    <3> HIDE DEF T
    <3> QED
      BY <2>1, MinIsLeast
  <2>3. l = GuessedFrom(p)
    BY DEF GuessedFrom
  <2>4. Looking(log[l], {"grid6"}) = {}
    BY <1>2, <2>3 DEF GridInGuess
  <2>5. CallsIn(log[l]) = Candidates(log[l])
    BY <2>4 DEF CallsIn, Candidates, Looking
  <2>6. U \subseteq T
    BY DEF CallsIn, Candidates, Looking
  <2>7. l \in U
    BY <2>2, <2>5
  <2>8. Min(U) = l
    <3> HIDE DEF T, U, l
    <3>1. Min(U) \in U /\ \A j \in U : Min(U) <= j
      BY <2>1, <2>6, <2>7, MinIsLeast
    <3>2. Min(U) <= l /\ l <= Min(U)
      BY <3>1, <2>2, <2>6, <2>7
    <3>3. Min(U) \in Nat /\ l \in Nat
      BY <3>1, <2>1, <2>2, <2>6
    <3> QED
      BY <3>2, <3>3
  <2>9. ColumnOf(p) = Min(CallsIn(log[l]))
    BY <1>2, <2>8 DEF ColumnOf
  <2> QED
    BY <1>2, <2>3, <2>5, <2>9 DEF ColumnUsed
<1> QED
  BY <1>1, <1>2

\* Only the call depends on the column.
LEMMA OneColumn ==
  ASSUME NEW line, NEW c, NEW d, NEW n \in DOMAIN NoRecord, n # "CALL"
  PROVE  Value(line, Number(n), c).v = Value(line, Number(n), d).v
<1>1. FieldNames[Number(n)] = n
  BY FieldsNumbered
<1> PICK i : i = Number(n)
  OBVIOUS
<1>2. FieldNames[i] \in {"BAND", "MODE", "QSO_DATE", "TIME_ON", "FREQ", "MYCALL"}
  BY <1>1 DEF NoRecord
<1>3. CASE FieldNames[i] = "BAND"
  BY <1>3 DEF Value
<1>4. CASE FieldNames[i] = "MODE"
  BY <1>4 DEF Value
<1>5. CASE FieldNames[i] = "QSO_DATE"
  BY <1>5 DEF Value
<1>6. CASE FieldNames[i] = "TIME_ON"
  BY <1>6 DEF Value
<1>7. CASE FieldNames[i] = "FREQ"
  BY <1>7 DEF Value
<1>8. CASE FieldNames[i] = "MYCALL"
  BY <1>8 DEF Value
<1> QED
  BY <1>2, <1>3, <1>4, <1>5, <1>6, <1>7, <1>8

\* The invariant gives what the property says.
LEMMA RightIsLine == CabrilloInv => RecordIsLine
<1> SUFFICES ASSUME CabrilloInv, NEW k \in DOMAIN out
             PROVE  /\ Tag(log[out[k].line]) = "QSO"
                    /\ \A i \in DOMAIN FieldNames : ~Spoils(log[out[k].line], i)
                    /\ \A n \in Sound(out[k].line) :
                         out[k].rec[n] = Value(log[out[k].line],
                                               CHOOSE i \in DOMAIN FieldNames : FieldNames[i] = n,
                                               ColumnOf(out[k].line)).v
  BY DEF RecordIsLine
<1> DEFINE l == out[k].line
           r == out[k].rec
<1>1. /\ Tag(log[l]) = "QSO" /\ Known(l) /\ ~SpoiltBefore(l, 8)
      /\ r = Taken(log[l], 8, ColumnUsed(l))
  BY DEF CabrilloInv, RecordsKept, Right
<1>2. Reading
  BY DEF CabrilloInv, Place
<1>3. Opened
  BY <1>2 DEF CabrilloInv, Place, Opened
<1>4. l \in Nat
  <2>1. l \in QSOLines(pos)
    BY <1>2 DEF CabrilloInv, LinesKept, Delivered
  <2>2. PICK h \in Nat : h = Header
    BY <1>3 DEF Opened
  <2>3. QSOLines(pos) \subseteq Nat
    BY <2>2 DEF QSOLines, Header
  <2> QED
    BY <2>1, <2>3
<1> HIDE DEF l, r
<1>5. \A i \in DOMAIN FieldNames : ~Spoils(log[l], i)
  <2>1. DOMAIN FieldNames = 1..7 /\ \A i \in 1..7 : i < 8
    BY FieldsNumbered
  <2> QED
    BY <1>1, <2>1 DEF SpoiltBefore
<1>6. ASSUME NEW n \in Sound(l) PROVE r[n] = Value(log[l], Number(n), ColumnOf(l)).v
  <2>1. n \in DOMAIN NoRecord
    BY <1>6 DEF Sound
  <2>2. r[n] = Value(log[l], Number(n), ColumnUsed(l)).v
    <3>1. r = [m \in DOMAIN NoRecord |-> Value(log[l], Number(m), ColumnUsed(l)).v]
      BY <1>1, AllTaken DEF Number
    <3> QED
      BY <2>1, <3>1
  <2>3. CASE ~GridInGuess(l)
    BY <1>1, <1>3, <1>4, <2>2, <2>3, ColumnsAgree
  <2>4. CASE GridInGuess(l)
    BY <2>1, <2>2, <2>4, OneColumn DEF Sound
  <2> QED
    BY <2>3, <2>4
<1> QED
  BY <1>1, <1>5, <1>6 DEF l, r, Number

-----------------------------------------------------------------------------
(* The theorems.                                                           *)

\* The inductive invariant of the reader and the loop that takes its fields, for
\* every log, every definition of contests and every list of modes.
THEOREM Reader == Spec => []CabrilloInv
BY InitKeeps, StepKeeps, PTL DEF Spec

\* Each record delivered is one line of the log with a date and a time, and nothing of
\* a line that was given up half way gets into it; its call is in the column of its
\* contest or the first that held a call, unless a grid was taken for one.
THEOREM RecordsAreLines == Spec => []RecordIsLine
BY RightIsLine, Reader, PTL

\* No QSO line below the header is lost, delivered twice, or delivered and refused,
\* wherever in the lines before it errors occur.
THEOREM LinesAccounted == Spec => []EachLineAccounted
<1>1. CabrilloInv => EachLineAccounted
  BY DEF CabrilloInv
<1> QED
  BY <1>1, Reader, PTL
=============================================================================
