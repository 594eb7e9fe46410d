--------------------------- MODULE LogEditorProofs ---------------------------
(***************************************************************************)
(* Proofs about module LogEditor: what is saved reads back, looking at a   *)
(* record keeps it, and no blank record is written.                        *)
(*                                                                         *)
(* Reader and writer are folds over sequences.  That a fold goes through a *)
(* chain of states is shown by the least index at which it would not; the  *)
(* fields of one record, then those of a list of records, are read through *)
(* such chains (RecordReads, ListReads, ReadBack).  The dialog is taken    *)
(* apart into the steps its handlers are made of; each keeps DialogInv.    *)
(***************************************************************************)
EXTENDS LogEditor, SelectionProofs, FiniteSetTheorems, TLAPS

-----------------------------------------------------------------------------
(* Records and dialogs.                                                     *)

\* The names loadQSOfile does not keep with the fields it does not know.
KnownNames == {"CALL", "BAND", "FREQ", "PROP", "SAT", "DATE", "MODE", "SUBMODE", "EOH", "EOR"}

\* Fields the editor does not know, by name.
IsExtra(extra) ==
    /\ extra = [n \in DOMAIN extra |-> extra[n]]
    /\ IsFiniteSet(DOMAIN extra)
    /\ DOMAIN extra \cap KnownNames = {}

\* A record as the reader or the editor makes it, whatever its texts are.
IsRecord(r) ==
    /\ r = [CALL |-> r.CALL, BAND |-> r.BAND, MODE |-> r.MODE, FREQ |-> r.FREQ,
            PROP |-> r.PROP, SAT |-> r.SAT, DATE |-> r.DATE, extra |-> r.extra]
    /\ IsExtra(r.extra)

IsList(list) == list \in Seq(ToSet(list)) /\ \A r \in ToSet(list) : IsRecord(r)

\* The dialog has its members.
Members == {"list", "recno", "newrec", "rec", "sel", "ctl", "down", "up", "add",
            "changed", "touched", "oob"}
IsDialog(x) ==
    /\ x = [n \in Members |-> x[n]]
    /\ IsList(x.list) /\ IsRecord(x.rec)
    /\ x.sel = [c \in Picks |-> x.sel[c]]
    /\ x.ctl = [c \in Texts \cup Picks |-> x.ctl[c]]
    /\ x.recno \in Nat /\ x.newrec \in Nat
    /\ x.touched \in BOOLEAN /\ x.oob \in BOOLEAN /\ x.changed \in BOOLEAN

\* What a choice stands for: without a selection, for none.
Chosen(v) == IF v = Unset THEN "" ELSE v

\* The controls and rec hold the record r, as far as the choices offer its values.
Mirrors(x, r) ==
    /\ x.rec.CALL = r.CALL /\ x.rec.FREQ = r.FREQ /\ x.rec.DATE = r.DATE /\ x.rec.extra = r.extra
    /\ x.ctl.CALL = r.CALL /\ x.ctl.FREQ = r.FREQ /\ x.ctl.DATE \in {"", r.DATE}
    /\ r.MODE \in ToSet(Modes) => x.ctl.MODE = r.MODE
    /\ r.BAND \in ToSet(Bands) => x.ctl.BAND = r.BAND
    /\ r.PROP \in {"", "SAT"} => Chosen(x.ctl.PROP) = r.PROP
    /\ r.SAT \in {""} \cup Sats => Chosen(x.ctl.SAT) = r.SAT

\* Untouched, an old record on display is what the list has.
Displays(x) ==
    ~x.touched /\ x.recno \in DOMAIN x.list \ {x.newrec} => Mirrors(x, x.list[x.recno])

\* A record without a call sign is the one on display, or the file had one.
HadBlank(list) == \E j \in DOMAIN list : list[j].CALL = ""
BlankHere(x, had) ==
    ~x.oob => /\ x.recno <= Len(x.list) + 1
              /\ had \/ \A i \in DOMAIN x.list : x.list[i].CALL = "" => i = x.recno

DialogInv(x, had) == IsDialog(x) /\ Displays(x) /\ BlankHere(x, had)

\* How the dialog leaves its list and the file.
Ended ==
    at = "none" /\ ended # "" =>
        /\ d.oob \in BOOLEAN /\ IsList(d.list)
        /\ ended \in {"ok", "saved"} /\ d.list # <<>> => file = Written(d.list)
        /\ ended = "ok" /\ ~d.oob => HadBlank(base) \/ ~HadBlank(d.list)

LogInv ==
    /\ at \in {"none", "edit", "gone"}
    /\ at = "edit" => DialogInv(d, HadBlank(base))
    /\ Ended

-----------------------------------------------------------------------------
(* Reading a list of fields.                                                *)

\* loadQSOfile goes from s to t over the fields.
Reads(s, fields, t) ==
    \E st : /\ st[0] = s /\ st[Len(fields)] = t
            /\ \A i \in 1..Len(fields) : st[i] = ReadField(st[i - 1], fields[i])

\* The function that FoldLeft defines, on the sets of the first m positions.
FoldsTo(iter, fields, m) ==
    iter = [S \in SUBSET (1..m) |->
              IF S = {} THEN NothingRead
              ELSE ReadField(iter[S \ {Max(S)}], fields[Max(S)])]

LEMMA MaxIsGreatest ==
  ASSUME NEW m \in Nat, NEW S \in SUBSET (1..m), m \in S
  PROVE  Max(S) = m
<1>1. m \in S /\ \A j \in S : m >= j
  OBVIOUS
<1>2. \A i \in S : (\A j \in S : i >= j) => i = m
  OBVIOUS
<1> QED
  BY <1>1, <1>2 DEF Max

LEMMA LastTaken ==
  ASSUME NEW n \in Nat, n # 0
  PROVE  n \in 1..n /\ (1..n) \ {n} = 1..(n - 1) /\ 1..n # {}
<1>1. n \in 1..n
  OBVIOUS
<1>2. \A i : i \in (1..n) \ {n} <=> i \in 1..(n - 1)
  OBVIOUS
<1> QED
  BY <1>1, <1>2

LEMMA FirstTaken ==
  ASSUME NEW N \in Nat, NEW n \in 0..N
  PROVE  1..n \in SUBSET (1..N)
<1>1. \A i \in 1..n : i \in 1..N
  OBVIOUS
<1> QED
  BY <1>1

\* That function exists.
LEMMA FoldExists ==
  ASSUME NEW fields, NEW m \in Nat
  PROVE  \E iter : FoldsTo(iter, fields, m)
<1> DEFINE Wrong == {n \in Nat : ~ \E iter : FoldsTo(iter, fields, n)}
<1> SUFFICES ASSUME Wrong # {} PROVE FALSE
  OBVIOUS
<1>1. PICK n \in Wrong : \A j \in Wrong : n <= j
  BY LeastExists
<1>2. CASE n = 0
  <2>1. \A S \in SUBSET (1..0) : S = {}
    OBVIOUS
  <2>2. FoldsTo([S \in SUBSET (1..0) |-> NothingRead], fields, 0)
    BY <2>1 DEF FoldsTo
  <2> QED
    BY <1>1, <1>2, <2>2
<1>3. CASE n # 0
  <2>1. n \in Nat /\ n - 1 \in Nat /\ n - 1 \notin Wrong
    BY <1>1, <1>3
  <2>2. PICK f : FoldsTo(f, fields, n - 1)
    BY <2>1
  <2> DEFINE g == [S \in SUBSET (1..n) |->
                     IF n \in S THEN ReadField(f[S \ {n}], fields[n]) ELSE f[S]]
  <2>3. \A S \in SUBSET (1..n) :
           g[S] = IF S = {} THEN NothingRead
                  ELSE ReadField(g[S \ {Max(S)}], fields[Max(S)])
    <3> SUFFICES ASSUME NEW S \in SUBSET (1..n)
                 PROVE  g[S] = IF S = {} THEN NothingRead
                               ELSE ReadField(g[S \ {Max(S)}], fields[Max(S)])
      OBVIOUS
    <3>1. CASE n \in S
      <4>1. Max(S) = n
        BY <2>1, <3>1, MaxIsGreatest
      <4>2. S \ {n} \in SUBSET (1..n) /\ n \notin S \ {n}
        OBVIOUS
      <4>3. g[S \ {n}] = f[S \ {n}]
        BY <4>2
      <4> QED
        BY <3>1, <4>1, <4>3
    <3>2. CASE n \notin S
      <4>1. S \in SUBSET (1..(n - 1))
        BY <2>1, <3>2
      <4>2. g[S] = f[S]
        BY <3>2
      <4>3. S \ {Max(S)} \in SUBSET (1..n) /\ n \notin S \ {Max(S)}
        BY <3>2
      <4>4. g[S \ {Max(S)}] = f[S \ {Max(S)}]
        BY <4>3
      <4>5. f[S] = IF S = {} THEN NothingRead
                   ELSE ReadField(f[S \ {Max(S)}], fields[Max(S)])
        BY <2>2, <4>1 DEF FoldsTo
      <4> QED
        BY <4>2, <4>4, <4>5
    <3> QED
      BY <3>1, <3>2
  <2>4. FoldsTo(g, fields, n)
    <3>1. g = [S \in SUBSET (1..n) |-> g[S]]
      OBVIOUS
    <3> HIDE DEF g
    <3> QED
      BY <2>3, <3>1 DEF FoldsTo
  <2> QED
    BY <1>1, <2>4
<1> QED
  BY <1>2, <1>3

\* LoadQSOfile returns the records of the state its loop ends in.
LEMMA LoadReads ==
  ASSUME NEW X, NEW fields \in Seq(X), NEW t, Reads(NothingRead, fields, t)
  PROVE  LoadQSOfile(fields) = t.recs
<1> DEFINE N == Len(fields)
<1>0. N \in Nat /\ DOMAIN fields = 1..N
  OBVIOUS
<1> DEFINE f == CHOOSE iter : FoldsTo(iter, fields, N)
<1>1. FoldsTo(f, fields, N)
  BY <1>0, FoldExists
<1>2. LoadQSOfile(fields) = f[1..N].recs
  BY <1>0 DEF LoadQSOfile, FoldLeft, MapThenFoldSet, FoldsTo
<1> HIDE DEF f
<1>3. PICK st : /\ st[0] = NothingRead /\ st[N] = t
                /\ \A i \in 1..N : st[i] = ReadField(st[i - 1], fields[i])
  BY DEF Reads
<1> DEFINE Wrong == {n \in 0..N : f[1..n] # st[n]}
<1>4. Wrong = {}
  <2> SUFFICES ASSUME Wrong # {} PROVE FALSE
    OBVIOUS
  <2>0. Wrong \subseteq Nat
    BY <1>0
  <2>1. PICK n \in Wrong : \A j \in Wrong : n <= j
    BY <2>0, LeastExists
  <2>a. n \in 0..N
    BY <2>1
  <2>2. n \in Nat /\ n \in 0..N /\ 1..n \in SUBSET (1..N)
    BY <1>0, <2>a, FirstTaken
  <2>3. CASE n = 0
    <3>1. 1..n = {}
      BY <2>3
    <3>2. f[1..n] = NothingRead
      BY <1>1, <2>2, <3>1 DEF FoldsTo
    <3> QED
      BY <1>3, <2>1, <2>3, <3>2
  <2>4. CASE n # 0
    <3>1. n - 1 \in 0..N /\ n - 1 \notin Wrong /\ n \in 1..N
      BY <1>0, <2>1, <2>2, <2>4
    <3>2. f[1..(n - 1)] = st[n - 1]
      BY <3>1
    <3>3. n \in 1..n /\ (1..n) \ {n} = 1..(n - 1) /\ 1..n # {}
      BY <2>2, <2>4, LastTaken
    <3>4. Max(1..n) = n
      BY <2>2, <3>3, MaxIsGreatest
    <3>5. f[1..n] = ReadField(f[1..(n - 1)], fields[n])
      BY <1>1, <2>2, <3>3, <3>4 DEF FoldsTo
    <3>6. st[n] = ReadField(st[n - 1], fields[n])
      BY <1>3, <3>1
    <3> QED
      BY <2>1, <3>2, <3>5, <3>6
  <2> QED
    BY <2>3, <2>4
<1>5. f[1..N] = st[N]
  <2>1. N \in 0..N
    BY <1>0
  <2> QED
    BY <1>4, <2>1
<1> QED
  BY <1>2, <1>3, <1>5

\* A list of anything.
IsSeq(s) == s \in Seq(ToSet(s))

LEMMA SeqIsSeq ==
  ASSUME NEW X, NEW s \in Seq(X)
  PROVE  IsSeq(s)
<1>1. s \in [1..Len(s) -> ToSet(s)] /\ Len(s) \in Nat
  BY DEF ToSet
<1> QED
  BY <1>1 DEF IsSeq

LEMMA OneIsSeq == ASSUME NEW f PROVE IsSeq(<<f>>)
<1>1. <<f>> \in Seq({f})
  OBVIOUS
<1> QED
  BY <1>1, SeqIsSeq

LEMMA NoneIsSeq == IsSeq(<<>>)
<1>1. <<>> \in Seq({})
  OBVIOUS
<1> QED
  BY <1>1, SeqIsSeq

LEMMA BothIsSeq ==
  ASSUME NEW a, NEW b, IsSeq(a), IsSeq(b)
  PROVE  /\ IsSeq(a \o b) /\ Len(a) \in Nat /\ Len(b) \in Nat /\ Len(a \o b) = Len(a) + Len(b)
         /\ \A i \in 1..Len(a) : (a \o b)[i] = a[i]
         /\ \A i \in 1..Len(b) : (a \o b)[Len(a) + i] = b[i]
<1> DEFINE X == ToSet(a) \cup ToSet(b)
<1>1. a \in Seq(X) /\ b \in Seq(X)
  BY DEF IsSeq
<1> HIDE DEF X
<1>2. a \o b \in Seq(X)
  BY <1>1
<1>3. IsSeq(a \o b)
  BY <1>2, SeqIsSeq
<1>4. /\ Len(a) \in Nat /\ Len(b) \in Nat /\ Len(a \o b) = Len(a) + Len(b)
      /\ \A i \in 1..Len(a) : (a \o b)[i] = a[i]
  BY <1>1
<1>5. \A i \in 1..Len(b) : (a \o b)[Len(a) + i] = b[i]
  BY <1>1
<1> QED
  BY <1>3, <1>4, <1>5

LEMMA ReadsNone == ASSUME NEW s PROVE Reads(s, <<>>, s)
<1> DEFINE st == [i \in 0..0 |-> s]
<1>1. Len(<<>>) = 0 /\ 1..0 = {} /\ st[0] = s
  OBVIOUS
<1> HIDE DEF st
<1> QED
  BY <1>1 DEF Reads

LEMMA ReadsOne == ASSUME NEW s, NEW f PROVE Reads(s, <<f>>, ReadField(s, f))
<1> DEFINE st == [i \in 0..1 |-> IF i = 0 THEN s ELSE ReadField(s, f)]
<1>1. Len(<<f>>) = 1 /\ 1..1 = {1} /\ <<f>>[1] = f /\ st[0] = s /\ st[1] = ReadField(s, f)
  OBVIOUS
<1> HIDE DEF st
<1>2. \A i \in 1..1 : st[i] = ReadField(st[i - 1], <<f>>[i])
  BY <1>1
<1> QED
  BY <1>1, <1>2 DEF Reads

LEMMA ReadsBoth ==
  ASSUME NEW a, NEW b, IsSeq(a), IsSeq(b), NEW s, NEW t, NEW u, Reads(s, a, t), Reads(t, b, u)
  PROVE  Reads(s, a \o b, u)
<1> DEFINE A == Len(a) B == Len(b) c == a \o b
<1>1. /\ A \in Nat /\ B \in Nat /\ Len(c) = A + B
      /\ \A i \in 1..A : c[i] = a[i]
      /\ \A i \in 1..B : c[A + i] = b[i]
  BY BothIsSeq
<1>2. PICK p : p[0] = s /\ p[A] = t /\ \A i \in 1..A : p[i] = ReadField(p[i - 1], a[i])
  BY DEF Reads
<1>3. PICK q : q[0] = t /\ q[B] = u /\ \A i \in 1..B : q[i] = ReadField(q[i - 1], b[i])
  BY DEF Reads
<1> HIDE DEF A, B, c
<1> DEFINE st == [i \in 0..(A + B) |-> IF i <= A THEN p[i] ELSE q[i - A]]
<1>4. st[0] = s
  BY <1>1, <1>2
<1>5. st[A + B] = u
  <2>1. CASE B = 0
    BY <1>1, <1>2, <1>3, <2>1
  <2>2. CASE B # 0
    <3>1. A + B \in 0..(A + B) /\ ~(A + B <= A) /\ (A + B) - A = B
      BY <1>1, <2>2
    <3> QED
      BY <1>3, <3>1
  <2> QED
    BY <2>1, <2>2
<1>6. \A i \in 1..(A + B) : st[i] = ReadField(st[i - 1], c[i])
  <2> SUFFICES ASSUME NEW i \in 1..(A + B) PROVE st[i] = ReadField(st[i - 1], c[i])
    OBVIOUS
  <2>1. CASE i <= A
    <3>1. i \in 1..A /\ st[i] = p[i] /\ st[i - 1] = p[i - 1]
      BY <1>1, <2>1
    <3> QED
      BY <1>1, <1>2, <3>1
  <2>2. CASE ~(i <= A)
    <3> DEFINE j == i - A
    <3>1. j \in 1..B /\ i = A + j /\ st[i] = q[j]
      BY <1>1, <2>2
    <3>2. st[i - 1] = q[j - 1]
      <4>1. CASE j = 1
        <5>1. i - 1 = A /\ i - 1 \in 0..(A + B)
          BY <1>1, <4>1
        <5> QED
          BY <1>1, <1>2, <1>3, <4>1, <5>1
      <4>2. CASE j # 1
        <5>1. i - 1 \in 0..(A + B) /\ ~(i - 1 <= A) /\ (i - 1) - A = j - 1
          BY <1>1, <3>1, <4>2
        <5> QED
          BY <5>1
      <4> QED
        BY <4>1, <4>2
    <3> HIDE DEF j, st
    <3> QED
      BY <1>1, <1>3, <3>1, <3>2
  <2> QED
    BY <2>1, <2>2
<1> HIDE DEF st
<1> QED
  BY <1>1, <1>4, <1>5, <1>6 DEF Reads, A, B, c

-----------------------------------------------------------------------------
(* Reading one record.                                                      *)

\* The state between two fields, and a record by its texts.
Reading(recs, rec) == [recs |-> recs, rec |-> rec, stop |-> FALSE]
Rec(call, band, mode, freq, prop, sat, date, extra) ==
    [CALL |-> call, BAND |-> band, MODE |-> mode, FREQ |-> freq,
     PROP |-> prop, SAT |-> sat, DATE |-> date, extra |-> extra]

\* A state of the loop, and it with its members replaced.
LEMMA ReadingMembers ==
  ASSUME NEW recs, NEW rec
  PROVE  LET r == Reading(recs, rec)
         IN  /\ r = [n \in {"recs", "rec", "stop"} |-> r[n]]
             /\ r.recs = recs /\ r.rec = rec /\ r.stop = FALSE
  BY DEF Reading

LEMMA ReadingSetsRec ==
  ASSUME NEW recs, NEW rec, NEW y
  PROVE  [Reading(recs, rec) EXCEPT !.rec = y] = Reading(recs, y)
<1> DEFINE r == Reading(recs, rec) q == Reading(recs, y) a == [r EXCEPT !.rec = y]
<1> HIDE DEF r, q
<1>1. r = [n \in {"recs", "rec", "stop"} |-> r[n]] /\ r.recs = recs /\ r.rec = rec /\ r.stop = FALSE
  BY ReadingMembers, ZenonT(60) DEF r
<1>2. q = [n \in {"recs", "rec", "stop"} |-> q[n]] /\ q.recs = recs /\ q.rec = y /\ q.stop = FALSE
  BY ReadingMembers, ZenonT(60) DEF q
<1>3. a = [n \in {"recs", "rec", "stop"} |-> a[n]] /\ a.recs = recs /\ a.rec = y /\ a.stop = FALSE
  BY <1>1
<1>4. a = q
  <2> HIDE DEF a
  <2> QED
    BY <1>2, <1>3
<1> QED
  BY <1>4 DEF r, q

\* EOR ends the record.
LEMMA EndRead ==
  ASSUME NEW recs, NEW rec
  PROVE  ReadField(Reading(recs, rec), Field("EOR", "")) = Reading(Append(recs, rec), QSORecord)
<1> DEFINE r == Reading(recs, rec) q == Reading(Append(recs, rec), QSORecord)
           a == ReadField(r, Field("EOR", ""))
<1> HIDE DEF r, q
<1>1. r = [n \in {"recs", "rec", "stop"} |-> r[n]] /\ r.recs = recs /\ r.rec = rec /\ r.stop = FALSE
  BY ReadingMembers, ZenonT(60) DEF r
<1>2. /\ q = [n \in {"recs", "rec", "stop"} |-> q[n]]
      /\ q.recs = Append(recs, rec) /\ q.rec = QSORecord /\ q.stop = FALSE
  BY ReadingMembers, ZenonT(60) DEF q
<1>3. GetField(Field("EOR", "")) = "SUCCESS" /\ Field("EOR", "").n = "EOR"
  BY ShortAssumption DEF GetField, Field
<1>4. a = [r EXCEPT !.recs = Append(r.recs, r.rec), !.rec = QSORecord]
  BY <1>1, <1>3 DEF ReadField
<1> HIDE DEF a
<1>5. /\ a = [n \in {"recs", "rec", "stop"} |-> a[n]]
      /\ a.recs = Append(recs, rec) /\ a.rec = QSORecord /\ a.stop = FALSE
  BY <1>1, <1>4
<1>6. a = q
  BY <1>2, <1>5
<1> QED
  BY <1>6 DEF a, r, q

\* Each field of a record sets what it is named for.
LEMMA FieldsRead ==
  ASSUME NEW recs, NEW c, NEW b, NEW m, NEW f, NEW p, NEW s, NEW t, NEW e, NEW v, v \notin Long
  PROVE  LET old == Reading(recs, Rec(c, b, m, f, p, s, t, e))
         IN  /\ ReadField(old, Field("CALL", v)) = Reading(recs, Rec(v, b, m, f, p, s, t, e))
             /\ ReadField(old, Field("BAND", v)) = Reading(recs, Rec(c, v, m, f, p, s, t, e))
             /\ ReadField(old, Field("FREQ", v)) = Reading(recs, Rec(c, b, m, v, p, s, t, e))
             /\ ReadField(old, Field("PROP", v)) = Reading(recs, Rec(c, b, m, f, v, s, t, e))
             /\ ReadField(old, Field("SAT", v)) = Reading(recs, Rec(c, b, m, f, p, v, t, e))
             /\ ReadField(old, Field("DATE", v)) = Reading(recs, Rec(c, b, m, f, p, s, v, e))
             /\ ReadField(old, Field("MODE", v)) =
                  Reading(recs, Rec(c, b, ADIFMode(v, v), f, p, s, t, e))
             /\ ReadField(old, Field("SUBMODE", v)) =
                  Reading(recs, Rec(c, b, ADIFMode(v, m), f, p, s, t, e))
<1> DEFINE rec == Rec(c, b, m, f, p, s, t, e) old == Reading(recs, rec)
<1>1. ASSUME NEW n PROVE GetField(Field(n, v)) = "SUCCESS" /\ Field(n, v).n = n /\ Field(n, v).v = v
  BY DEF GetField, Field
<1>2. ASSUME NEW n, n # "EOR"
      PROVE  ReadField(old, Field(n, v)) = Reading(recs, TakeField(rec, Field(n, v)))
  <2> HIDE DEF rec
  <2>1. ~old.stop /\ old.rec = rec
    BY ReadingMembers
  <2>2. ASSUME NEW x PROVE [old EXCEPT !.rec = x] = Reading(recs, x)
    BY ReadingSetsRec
  <2> HIDE DEF old
  <2> QED
    BY <1>1, <1>2, <2>1, <2>2 DEF ReadField
<1>3. DOMAIN rec = {"CALL", "BAND", "MODE", "FREQ", "PROP", "SAT", "DATE", "extra"}
  BY DEF Rec
<1>4. /\ TakeField(rec, Field("CALL", v)) = Rec(v, b, m, f, p, s, t, e)
      /\ TakeField(rec, Field("BAND", v)) = Rec(c, v, m, f, p, s, t, e)
      /\ TakeField(rec, Field("FREQ", v)) = Rec(c, b, m, v, p, s, t, e)
      /\ TakeField(rec, Field("PROP", v)) = Rec(c, b, m, f, v, s, t, e)
      /\ TakeField(rec, Field("SAT", v)) = Rec(c, b, m, f, p, v, t, e)
      /\ TakeField(rec, Field("DATE", v)) = Rec(c, b, m, f, p, s, v, e)
  <2>1. ASSUME NEW n \in {"CALL", "BAND", "FREQ", "PROP", "SAT", "DATE"}
        PROVE  TakeField(rec, Field(n, v)) = [rec EXCEPT ![n] = v]
    BY <1>1, <1>3 DEF TakeField
  <2>2. [rec EXCEPT !.CALL = v] = Rec(v, b, m, f, p, s, t, e)
    BY DEF Rec
  <2>3. [rec EXCEPT !.BAND = v] = Rec(c, v, m, f, p, s, t, e)
    BY DEF Rec
  <2>4. [rec EXCEPT !.FREQ = v] = Rec(c, b, m, v, p, s, t, e)
    BY DEF Rec
  <2>5. [rec EXCEPT !.PROP = v] = Rec(c, b, m, f, v, s, t, e)
    BY DEF Rec
  <2>6. [rec EXCEPT !.SAT = v] = Rec(c, b, m, f, p, v, t, e)
    BY DEF Rec
  <2>7. [rec EXCEPT !.DATE = v] = Rec(c, b, m, f, p, s, v, e)
    BY DEF Rec
  <2> HIDE DEF rec
  <2> QED
    BY <2>1, <2>2, <2>3, <2>4, <2>5, <2>6, <2>7
<1>5. /\ TakeField(rec, Field("MODE", v)) = Rec(c, b, ADIFMode(v, v), f, p, s, t, e)
      /\ TakeField(rec, Field("SUBMODE", v)) = Rec(c, b, ADIFMode(v, m), f, p, s, t, e)
  BY <1>1 DEF TakeField, Rec
<1> HIDE DEF rec, old
<1> QED
  BY <1>2, <1>4, <1>5 DEF old, rec

\* The same, field by field.
LEMMA CallRead ==
  ASSUME NEW recs, NEW c, NEW b, NEW m, NEW f, NEW p, NEW s, NEW t, NEW e, NEW v, v \notin Long
  PROVE  ReadField(Reading(recs, Rec(c, b, m, f, p, s, t, e)), Field("CALL", v)) =
           Reading(recs, Rec(v, b, m, f, p, s, t, e))
  BY FieldsRead

LEMMA BandRead ==
  ASSUME NEW recs, NEW c, NEW b, NEW m, NEW f, NEW p, NEW s, NEW t, NEW e, NEW v, v \notin Long
  PROVE  ReadField(Reading(recs, Rec(c, b, m, f, p, s, t, e)), Field("BAND", v)) =
           Reading(recs, Rec(c, v, m, f, p, s, t, e))
  BY FieldsRead

LEMMA FreqRead ==
  ASSUME NEW recs, NEW c, NEW b, NEW m, NEW f, NEW p, NEW s, NEW t, NEW e, NEW v, v \notin Long
  PROVE  ReadField(Reading(recs, Rec(c, b, m, f, p, s, t, e)), Field("FREQ", v)) =
           Reading(recs, Rec(c, b, m, v, p, s, t, e))
  BY FieldsRead

LEMMA PropRead ==
  ASSUME NEW recs, NEW c, NEW b, NEW m, NEW f, NEW p, NEW s, NEW t, NEW e, NEW v, v \notin Long
  PROVE  ReadField(Reading(recs, Rec(c, b, m, f, p, s, t, e)), Field("PROP", v)) =
           Reading(recs, Rec(c, b, m, f, v, s, t, e))
  BY FieldsRead

LEMMA SatRead ==
  ASSUME NEW recs, NEW c, NEW b, NEW m, NEW f, NEW p, NEW s, NEW t, NEW e, NEW v, v \notin Long
  PROVE  ReadField(Reading(recs, Rec(c, b, m, f, p, s, t, e)), Field("SAT", v)) =
           Reading(recs, Rec(c, b, m, f, p, v, t, e))
  BY FieldsRead

LEMMA DateRead ==
  ASSUME NEW recs, NEW c, NEW b, NEW m, NEW f, NEW p, NEW s, NEW t, NEW e, NEW v, v \notin Long
  PROVE  ReadField(Reading(recs, Rec(c, b, m, f, p, s, t, e)), Field("DATE", v)) =
           Reading(recs, Rec(c, b, m, f, p, s, v, e))
  BY FieldsRead

\* A field that is not known goes to the extra fields.
LEMMA OtherRead ==
  ASSUME NEW recs, NEW c, NEW b, NEW m, NEW f, NEW p, NEW s, NEW t, NEW e,
         NEW n, NEW v, n \notin KnownNames, v \notin Long
  PROVE  ReadField(Reading(recs, Rec(c, b, m, f, p, s, t, e)), Field(n, v)) =
           Reading(recs, Rec(c, b, m, f, p, s, t, SetExtra(e, n, v)))
<1> DEFINE rec == Rec(c, b, m, f, p, s, t, e) old == Reading(recs, rec)
<1>1. GetField(Field(n, v)) = "SUCCESS" /\ Field(n, v).n = n /\ Field(n, v).v = v
  BY DEF GetField, Field
<1>2. DOMAIN rec = {"CALL", "BAND", "MODE", "FREQ", "PROP", "SAT", "DATE", "extra"} /\ rec.extra = e
  BY DEF Rec
<1>3. [rec EXCEPT !.extra = SetExtra(e, n, v)] = Rec(c, b, m, f, p, s, t, SetExtra(e, n, v))
  BY DEF Rec
<1> HIDE DEF rec
<1>4. TakeField(rec, Field(n, v)) = [rec EXCEPT !.extra = SetExtra(e, n, v)]
  BY <1>1, <1>2 DEF TakeField, KnownNames
<1>5. ~old.stop /\ old.rec = rec
  BY ReadingMembers
<1>6. ASSUME NEW x PROVE [old EXCEPT !.rec = x] = Reading(recs, x)
  BY ReadingSetsRec
<1> HIDE DEF old
<1>7. ReadField(old, Field(n, v)) = Reading(recs, TakeField(rec, Field(n, v)))
  BY <1>1, <1>5, <1>6 DEF ReadField, KnownNames
<1> QED
  BY <1>3, <1>4, <1>7 DEF old, rec

\* The fields that are not known are read back, in whatever order they come.
LEMMA ExtrasRead ==
  ASSUME NEW recs, NEW c, NEW b, NEW m, NEW f, NEW p, NEW s, NEW t, NEW e, IsExtra(e)
  PROVE  LET q == SetToSeq({Field(n, e[n]) : n \in DOMAIN Unlost(e)})
         IN  /\ IsSeq(q)
             /\ Reads(Reading(recs, Rec(c, b, m, f, p, s, t, <<>>)), q,
                      Reading(recs, Rec(c, b, m, f, p, s, t, Unlost(e))))
<1> DEFINE D == DOMAIN Unlost(e)
           S == {Field(n, e[n]) : n \in D}
           N == Cardinality(S)
           q == SetToSeq(S)
<1>1. D = {n \in DOMAIN e : e[n] \notin Long} /\ D \subseteq DOMAIN e /\ IsFiniteSet(D)
  <2>1. D = {n \in DOMAIN e : e[n] \notin Long}
    BY DEF Unlost
  <2>2. IsFiniteSet(DOMAIN e)
    BY DEF IsExtra
  <2> QED
    BY <2>1, <2>2, FS_Subset
<1>2. IsFiniteSet(S)
  <2> DEFINE h == [n \in D |-> Field(n, e[n])]
  <2>1. h \in Surjection(D, S)
    BY DEF Surjection
  <2> HIDE DEF h, D, S
  <2> QED
    BY <1>1, <2>1, FS_Surjection
<1>3. N \in Nat /\ \E g : g \in Bijection(1..N, S)
  BY <1>2, FS_CardinalityType DEF ExistsBijection
<1> HIDE DEF S
<1>4. q \in [1..N -> S] /\ IsInjective(q)
  <2>1. \E g \in [1..N -> S] : IsInjective(g)
    BY <1>3 DEF Bijection, Injection
  <2> HIDE DEF N
  <2> QED
    BY <2>1 DEF SetToSeq, N
<1> HIDE DEF q
<1>5. \A x \in S : \E i \in 1..N : q[i] = x
  <2>1. IsFiniteSet(1..N) /\ Cardinality(1..N) = N
    BY <1>3, FS_Interval
  <2>2. q \in Injection(1..N, S)
    BY <1>4 DEF Injection
  <2>3. q \in Surjection(1..N, S)
    BY <1>2, <2>1, <2>2, FS_Injection
  <2> QED
    BY <2>3 DEF Surjection
<1>6. IsSeq(q) /\ Len(q) = N
  <2>1. q \in Seq(S)
    BY <1>3, <1>4
  <2> QED
    BY <1>3, <1>4, <2>1, SeqIsSeq
<1>7. \A i \in 1..N : /\ q[i] = Field(q[i].n, q[i].v) /\ q[i].v = e[q[i].n]
                      /\ q[i].n \in D /\ q[i].v \notin Long
  <2>1. \A i \in 1..N : q[i] \in S
    BY <1>4
  <2> QED
    BY <1>1, <2>1 DEF S, Field
<1> DEFINE So(i) == {q[j].n : j \in 1..i}
           Some(i) == [n \in So(i) |-> e[n]]
           st == [i \in 0..N |-> Reading(recs, Rec(c, b, m, f, p, s, t, Some(i)))]
<1>8. Some(0) = <<>>
  OBVIOUS
<1>9. Some(N) = Unlost(e)
  <2>1. \A x : x \in So(N) <=> x \in D
    <3>1. \A x \in So(N) : x \in D
      BY <1>7
    <3>2. ASSUME NEW x \in D PROVE x \in So(N)
      <4>1. Field(x, e[x]) \in S /\ Field(x, e[x]).n = x
        BY DEF S, Field
      <4>2. PICK i \in 1..N : q[i] = Field(x, e[x])
        BY <1>5, <4>1
      <4> QED
        BY <4>1, <4>2
    <3> QED
      BY <3>1, <3>2
  <2>2. So(N) = D
    BY <2>1
  <2>3. Unlost(e) = [n \in D |-> e[n]]
    BY <1>1 DEF Unlost
  <2> HIDE DEF So, D
  <2> QED
    BY <2>2, <2>3
<1>10. ASSUME NEW i \in 1..N PROVE st[i] = ReadField(st[i - 1], q[i])
  <2>1. i - 1 \in 0..N /\ i \in 0..N
    BY <1>3
  <2>2. So(i) = So(i - 1) \cup {q[i].n}
    <3>1. \A j : j \in 1..i <=> j \in 1..(i - 1) \/ j = i
      BY <1>3
    <3> QED
      BY <3>1
  <2>3. Some(i) = SetExtra(Some(i - 1), q[i].n, q[i].v)
    <3>1. DOMAIN Some(i - 1) = So(i - 1)
      OBVIOUS
    <3>2. \A n \in So(i) : (IF n = q[i].n THEN q[i].v ELSE Some(i - 1)[n]) = e[n]
      BY <1>7, <2>2
    <3> HIDE DEF So
    <3> QED
      BY <2>2, <3>1, <3>2 DEF SetExtra
  <2>4. q[i].n \notin KnownNames /\ q[i].v \notin Long /\ q[i] = Field(q[i].n, q[i].v)
    BY <1>1, <1>7 DEF IsExtra
  <2>5. st[i] = Reading(recs, Rec(c, b, m, f, p, s, t, SetExtra(Some(i - 1), q[i].n, q[i].v)))
    BY <2>1, <2>3
  <2>6. st[i - 1] = Reading(recs, Rec(c, b, m, f, p, s, t, Some(i - 1)))
    BY <2>1
  <2> HIDE DEF st, Some
  <2>7. ReadField(st[i - 1], Field(q[i].n, q[i].v)) = st[i]
    BY <2>4, <2>5, <2>6, OtherRead
  <2> QED
    BY <2>4, <2>7
<1>11. Reads(Reading(recs, Rec(c, b, m, f, p, s, t, <<>>)), q,
             Reading(recs, Rec(c, b, m, f, p, s, t, Unlost(e))))
  <2>1. st[0] = Reading(recs, Rec(c, b, m, f, p, s, t, <<>>))
    <3>1. 0 \in 0..N
      BY <1>3
    <3> HIDE DEF Some
    <3> QED
      BY <1>8, <3>1
  <2>2. st[N] = Reading(recs, Rec(c, b, m, f, p, s, t, Unlost(e)))
    <3>1. N \in 0..N
      BY <1>3
    <3> HIDE DEF Some
    <3> QED
      BY <1>9, <3>1
  <2> HIDE DEF st
  <2> QED
    BY <1>6, <1>10, <2>1, <2>2 DEF Reads
<1> QED
  BY <1>6, <1>11 DEF q, S

\* A field that is written unless its text is empty.
LEMMA OptionalReads ==
  ASSUME NEW s, NEW t, NEW n, NEW v, ReadField(s, Field(n, v)) = t, v = "" => s = t
  PROVE  IsSeq(MakeField(n, v)) /\ Reads(s, MakeField(n, v), t)
<1>1. CASE v = ""
  BY <1>1, NoneIsSeq, ReadsNone DEF MakeField
<1>2. CASE v # ""
  BY <1>2, OneIsSeq, ReadsOne DEF MakeField
<1> QED
  BY <1>1, <1>2

\* Two sequences of the same elements are the same.
LEMMA SeqsEqual ==
  ASSUME NEW X, NEW a \in Seq(X), NEW b \in Seq(X), Len(a) = Len(b), \A i \in 1..Len(a) : a[i] = b[i]
  PROVE  a = b
  OBVIOUS

LEMMA OneAndOne ==
  ASSUME NEW f, NEW g
  PROVE  <<f>> \o <<g>> = <<f, g>>
<1> DEFINE X == {f, g} a == <<f>> \o <<g>> b == <<f, g>>
<1>1. a \in Seq(X) /\ Len(a) = 2 /\ a[1] = f /\ a[2] = g
  OBVIOUS
<1>2. b \in Seq(X) /\ Len(b) = 2 /\ b[1] = f /\ b[2] = g
  OBVIOUS
<1> HIDE DEF a, b, X
<1>3. \A i \in 1..2 : i = 1 \/ i = 2
  OBVIOUS
<1>4. a = b
  BY <1>1, <1>2, <1>3, SeqsEqual
<1> QED
  BY <1>4 DEF a, b

LEMMA TwoAndOne ==
  ASSUME NEW f, NEW g, NEW h
  PROVE  <<f, g>> \o <<h>> = <<f, g, h>>
<1> DEFINE X == {f, g, h} a == <<f, g>> \o <<h>> b == <<f, g, h>>
<1>1. a \in Seq(X) /\ Len(a) = 3 /\ a[1] = f /\ a[2] = g /\ a[3] = h
  OBVIOUS
<1>2. b \in Seq(X) /\ Len(b) = 3 /\ b[1] = f /\ b[2] = g /\ b[3] = h
  OBVIOUS
<1> HIDE DEF a, b, X
<1>3. \A i \in 1..3 : i = 1 \/ i = 2 \/ i = 3
  OBVIOUS
<1>4. a = b
  BY <1>1, <1>2, <1>3, SeqsEqual
<1> QED
  BY <1>4 DEF a, b

\* Two fields in a row.
LEMMA ReadsTwo ==
  ASSUME NEW s, NEW f, NEW g
  PROVE  IsSeq(<<f, g>>) /\ Reads(s, <<f, g>>, ReadField(ReadField(s, f), g))
<1>1. <<f>> \o <<g>> = <<f, g>>
  BY OneAndOne
<1>2. IsSeq(<<f>>) /\ IsSeq(<<g>>)
  BY OneIsSeq
<1>3. Reads(s, <<f>>, ReadField(s, f)) /\ Reads(ReadField(s, f), <<g>>, ReadField(ReadField(s, f), g))
  BY ReadsOne
<1>4. IsSeq(<<f>> \o <<g>>) /\ Reads(s, <<f>> \o <<g>>, ReadField(ReadField(s, f), g))
  BY <1>2, <1>3, BothIsSeq, ReadsBoth
<1> QED
  BY <1>1, <1>4

\* The fields of a mode give the LoTW mode for it, whatever the mode was before.
LEMMA ModesRead ==
  ASSUME NEW recs, NEW c, NEW b, NEW m, NEW f, NEW p, NEW s, NEW t, NEW e, NEW v, v \notin Long
  PROVE  /\ IsSeq(ModeFields(v))
         /\ Reads(Reading(recs, Rec(c, b, m, f, p, s, t, e)), ModeFields(v),
                  Reading(recs, Rec(c, b, ADIFMode(v, v), f, p, s, t, e)))
<1> DEFINE At(mode) == Reading(recs, Rec(c, b, mode, f, p, s, t, e))
<1>1. ASSUME NEW mode, NEW w, w \notin Long
      PROVE  /\ ReadField(At(mode), Field("MODE", w)) = At(ADIFMode(w, w))
             /\ ReadField(At(mode), Field("SUBMODE", w)) = At(ADIFMode(w, mode))
  BY <1>1, FieldsRead
<1> HIDE DEF At
<1>2. CASE v \notin DOMAIN SubModeMap
  <2>1. ModeFields(v) = <<Field("MODE", v)>>
    BY <1>2 DEF ModeFields
  <2>2. ReadField(At(m), Field("MODE", v)) = At(ADIFMode(v, v))
    BY <1>1
  <2>3. IsSeq(<<Field("MODE", v)>>) /\ Reads(At(m), <<Field("MODE", v)>>, ReadField(At(m), Field("MODE", v)))
    BY OneIsSeq, ReadsOne
  <2> QED
    BY <2>1, <2>2, <2>3 DEF At
<1>3. CASE v \in DOMAIN SubModeMap
  <2> DEFINE w == SubModeMap[v][1] M == Field("MODE", w) S == Field("SUBMODE", v)
  <2>1. SubModeMap[v][2] = v /\ w \notin Long /\ v \in DOMAIN ModeMap
    BY <1>3, ModesAssumption
  <2>2. ModeFields(v) = <<M, S, S>>
    BY <1>3, <2>1 DEF ModeFields
  <2>3. \A mode : ADIFMode(v, mode) = ADIFMode(v, v)
    BY <2>1 DEF ADIFMode
  <2>4. ReadField(At(m), M) = At(ADIFMode(w, w))
    BY <1>1, <2>1
  <2>5. ASSUME NEW mode PROVE ReadField(At(mode), S) = At(ADIFMode(v, v))
    BY <1>1, <2>3
  <2> HIDE DEF w, M, S
  <2>6. IsSeq(<<M, S>>) /\ Reads(At(m), <<M, S>>, ReadField(ReadField(At(m), M), S))
    BY ReadsTwo
  <2>7. IsSeq(<<S>>) /\ Reads(At(ADIFMode(v, v)), <<S>>, ReadField(At(ADIFMode(v, v)), S))
    BY OneIsSeq, ReadsOne
  <2>8. Reads(At(m), <<M, S>>, At(ADIFMode(v, v))) /\ Reads(At(ADIFMode(v, v)), <<S>>, At(ADIFMode(v, v)))
    BY <2>4, <2>5, <2>6, <2>7
  <2>9. IsSeq(<<M, S>> \o <<S>>) /\ Reads(At(m), <<M, S>> \o <<S>>, At(ADIFMode(v, v)))
    BY <2>6, <2>7, <2>8, BothIsSeq, ReadsBoth
  <2>10. <<M, S>> \o <<S>> = <<M, S, S>>
    BY TwoAndOne
  <2> QED
    BY <2>2, <2>9, <2>10 DEF At
<1> QED
  BY <1>2, <1>3

\* The fields written of a record are read as the record, up to its mode.
LEMMA RecordReads ==
  ASSUME NEW recs, NEW r, IsRecord(r), Fits(r)
  PROVE  /\ IsSeq(RecordFields(r))
         /\ Reads(Reading(recs, QSORecord), RecordFields(r), Reading(Append(recs, Canonical(r)), QSORecord))
<1>0. /\ r.CALL \notin Long /\ r.BAND \notin Long /\ r.MODE \notin Long /\ r.FREQ \notin Long
      /\ r.PROP \notin Long /\ r.SAT \notin Long /\ r.DATE \notin Long
  <2>1. DOMAIN r = {"CALL", "BAND", "MODE", "FREQ", "PROP", "SAT", "DATE", "extra"}
    BY DEF IsRecord
  <2> QED
    BY <2>1 DEF Fits
<1>a. PICK z, b0, m0, e0 : z = "" /\ b0 = "160M" /\ m0 = "CW" /\ e0 = <<>>
  OBVIOUS
<1> DEFINE M == ADIFMode(r.MODE, r.MODE)
           X == Unlost(r.extra)
           s0 == Reading(recs, Rec(z, b0, m0, z, z, z, z, e0))
           s1 == Reading(recs, Rec(r.CALL, b0, m0, z, z, z, z, e0))
           s2 == Reading(recs, Rec(r.CALL, r.BAND, m0, z, z, z, z, e0))
           s3 == Reading(recs, Rec(r.CALL, r.BAND, M, z, z, z, z, e0))
           s4 == Reading(recs, Rec(r.CALL, r.BAND, M, z, z, z, r.DATE, e0))
           s5 == Reading(recs, Rec(r.CALL, r.BAND, M, r.FREQ, z, z, r.DATE, e0))
           s6 == Reading(recs, Rec(r.CALL, r.BAND, M, r.FREQ, r.PROP, z, r.DATE, e0))
           s7 == Reading(recs, Rec(r.CALL, r.BAND, M, r.FREQ, r.PROP, r.SAT, r.DATE, e0))
           s8 == Reading(recs, Rec(r.CALL, r.BAND, M, r.FREQ, r.PROP, r.SAT, r.DATE, X))
           f1 == <<Field("CALL", r.CALL), Field("BAND", r.BAND)>>
           f3 == ModeFields(r.MODE)
           f4 == <<Field("DATE", r.DATE)>>
           f5 == MakeField("FREQ", r.FREQ)
           f6 == MakeField("PROP", r.PROP)
           f7 == MakeField("SAT", r.SAT)
           f8 == SetToSeq({Field(n, r.extra[n]) : n \in DOMAIN X})
           f9 == <<Field("EOR", "")>>
           s9 == Reading(Append(recs, Canonical(r)), QSORecord)
<1>1. IsSeq(f1) /\ Reads(s0, f1, s2)
  <2>1. ReadField(s0, Field("CALL", r.CALL)) = s1
    BY <1>0, CallRead
  <2>2. ReadField(s1, Field("BAND", r.BAND)) = s2
    BY <1>0, BandRead
  <2> HIDE DEF s0, s1, s2
  <2> QED
    BY <2>1, <2>2, ReadsTwo
<1>3. IsSeq(f3) /\ Reads(s2, f3, s3)
  BY <1>0, ModesRead
<1>4. IsSeq(f4) /\ Reads(s3, f4, s4)
  <2>1. ReadField(s3, Field("DATE", r.DATE)) = s4
    BY <1>0, DateRead
  <2> HIDE DEF s3, s4
  <2> QED
    BY <2>1, OneIsSeq, ReadsOne
<1>5. IsSeq(f5) /\ Reads(s4, f5, s5)
  <2>1. ReadField(s4, Field("FREQ", r.FREQ)) = s5
    BY <1>0, FreqRead
  <2>2. r.FREQ = "" => s4 = s5
    BY <1>a
  <2> HIDE DEF s4, s5
  <2> QED
    BY <2>1, <2>2, OptionalReads
<1>6. IsSeq(f6) /\ Reads(s5, f6, s6)
  <2>1. ReadField(s5, Field("PROP", r.PROP)) = s6
    BY <1>0, PropRead
  <2>2. r.PROP = "" => s5 = s6
    BY <1>a
  <2> HIDE DEF s5, s6
  <2> QED
    BY <2>1, <2>2, OptionalReads
<1>7. IsSeq(f7) /\ Reads(s6, f7, s7)
  <2>1. ReadField(s6, Field("SAT", r.SAT)) = s7
    BY <1>0, SatRead
  <2>2. r.SAT = "" => s6 = s7
    BY <1>a
  <2> HIDE DEF s6, s7
  <2> QED
    BY <2>1, <2>2, OptionalReads
<1>8. IsSeq(f8) /\ Reads(s7, f8, s8)
  BY <1>a, ExtrasRead DEF IsRecord
<1>9. IsSeq(f9) /\ Reads(s8, f9, s9)
  <2> DEFINE R == Rec(r.CALL, r.BAND, M, r.FREQ, r.PROP, r.SAT, r.DATE, X)
  <2>1. Canonical(r) = R
    <3>1. r = Rec(r.CALL, r.BAND, r.MODE, r.FREQ, r.PROP, r.SAT, r.DATE, r.extra)
      BY DEF IsRecord, Rec
    <3>2. Canonical(r) = [r EXCEPT !.MODE = M, !.extra = X]
      BY DEF Canonical
    <3> HIDE DEF M, X
    <3> QED
      BY <3>1, <3>2 DEF Rec
  <2> HIDE DEF R
  <2>2. ReadField(Reading(recs, R), Field("EOR", "")) = s9
    BY <2>1, EndRead
  <2>3. ReadField(s8, Field("EOR", "")) = s9
    BY <2>2 DEF R
  <2> HIDE DEF s8, s9
  <2> QED
    BY <2>3, OneIsSeq, ReadsOne
<1>10. s0 = Reading(recs, QSORecord)
  BY <1>a DEF Rec, QSORecord
<1>11. RecordFields(r) = f1 \o f3 \o f4 \o f5 \o f6 \o f7 \o f8 \o f9
  BY DEF RecordFields
<1> HIDE DEF s0, s1, s2, s3, s4, s5, s6, s7, s8, s9, f1, f3, f4, f5, f6, f7, f8, f9
<1>13. IsSeq(f1 \o f3) /\ Reads(s0, f1 \o f3, s3)
  BY <1>1, <1>3, BothIsSeq, ReadsBoth
<1>14. IsSeq(f1 \o f3 \o f4) /\ Reads(s0, f1 \o f3 \o f4, s4)
  BY <1>13, <1>4, BothIsSeq, ReadsBoth
<1>15. IsSeq(f1 \o f3 \o f4 \o f5) /\ Reads(s0, f1 \o f3 \o f4 \o f5, s5)
  BY <1>14, <1>5, BothIsSeq, ReadsBoth
<1>16. IsSeq(f1 \o f3 \o f4 \o f5 \o f6) /\ Reads(s0, f1 \o f3 \o f4 \o f5 \o f6, s6)
  BY <1>15, <1>6, BothIsSeq, ReadsBoth
<1>17. IsSeq(f1 \o f3 \o f4 \o f5 \o f6 \o f7) /\ Reads(s0, f1 \o f3 \o f4 \o f5 \o f6 \o f7, s7)
  BY <1>16, <1>7, BothIsSeq, ReadsBoth
<1>18. /\ IsSeq(f1 \o f3 \o f4 \o f5 \o f6 \o f7 \o f8)
       /\ Reads(s0, f1 \o f3 \o f4 \o f5 \o f6 \o f7 \o f8, s8)
  BY <1>17, <1>8, BothIsSeq, ReadsBoth
<1>19. /\ IsSeq(f1 \o f3 \o f4 \o f5 \o f6 \o f7 \o f8 \o f9)
       /\ Reads(s0, f1 \o f3 \o f4 \o f5 \o f6 \o f7 \o f8 \o f9, s9)
  BY <1>18, <1>9, BothIsSeq, ReadsBoth
<1> QED
  BY <1>10, <1>11, <1>19 DEF s9

-----------------------------------------------------------------------------
(* Reading what was written.                                                *)

\* The function that FlattenSeq defines, on the first m positions.
Flattens(flat, seqs, m) ==
    flat = [i \in 1..m |-> IF i = 1 THEN seqs[i] ELSE flat[i - 1] \o seqs[i]]

LEMMA FlattenExists ==
  ASSUME NEW seqs, NEW m \in Nat
  PROVE  \E flat : Flattens(flat, seqs, m)
<1> DEFINE Wrong == {n \in Nat : ~ \E flat : Flattens(flat, seqs, n)}
<1> SUFFICES ASSUME Wrong # {} PROVE FALSE
  OBVIOUS
<1>1. PICK n \in Wrong : \A j \in Wrong : n <= j
  BY LeastExists
<1>2. CASE n = 0
  <2>1. 1..0 = {}
    OBVIOUS
  <2>2. Flattens([i \in 1..0 |-> seqs], seqs, 0)
    BY <2>1 DEF Flattens
  <2> QED
    BY <1>1, <1>2, <2>2
<1>3. CASE n # 0
  <2>1. n \in Nat /\ n - 1 \in Nat /\ n - 1 \notin Wrong
    BY <1>1, <1>3
  <2>2. PICK f : Flattens(f, seqs, n - 1)
    BY <2>1
  <2> DEFINE g == [i \in 1..n |-> IF i = n
                                  THEN IF n = 1 THEN seqs[n] ELSE f[n - 1] \o seqs[n]
                                  ELSE f[i]]
  <2>3. ASSUME NEW i \in 1..n
        PROVE  g[i] = IF i = 1 THEN seqs[i] ELSE g[i - 1] \o seqs[i]
    <3>1. CASE i = n
      <4>1. n # 1 => n - 1 \in 1..n /\ n - 1 # n
        BY <2>1
      <4> QED
        BY <3>1, <4>1
    <3>2. CASE i # n
      <4>1. i \in 1..(n - 1) /\ (i # 1 => i - 1 \in 1..n /\ i - 1 # n)
        BY <2>1, <3>2
      <4>2. f[i] = IF i = 1 THEN seqs[i] ELSE f[i - 1] \o seqs[i]
        BY <2>2, <4>1 DEF Flattens
      <4> QED
        BY <3>2, <4>1, <4>2
    <3> QED
      BY <3>1, <3>2
  <2>4. Flattens(g, seqs, n)
    <3>1. g = [i \in 1..n |-> g[i]]
      OBVIOUS
    <3> HIDE DEF g
    <3> QED
      BY <2>3, <3>1 DEF Flattens
  <2> QED
    BY <1>1, <2>4
<1> QED
  BY <1>2, <1>3

\* A list whose texts fit is read as it was written, each record up to its mode.
LEMMA ListReads ==
  ASSUME NEW list, IsList(list), \A r \in ToSet(list) : Fits(r)
  PROVE  LoadQSOfile(FlattenSeq([i \in DOMAIN list |-> RecordFields(list[i])]))
           = [i \in DOMAIN list |-> Canonical(list[i])]
<1> DEFINE N == Len(list) seqs == [i \in DOMAIN list |-> RecordFields(list[i])]
           out(k) == [i \in 1..k |-> Canonical(list[i])]
<1>0. N \in Nat /\ DOMAIN list = 1..N /\ \A i \in 1..N : list[i] \in ToSet(list)
  BY DEF IsList, ToSet
<1>a. NothingRead = Reading(out(0), QSORecord)
  <2>1. out(0) = <<>>
    OBVIOUS
  <2> HIDE DEF out
  <2> QED
    BY <2>1 DEF NothingRead, Reading
<1>b. Len(seqs) = N /\ DOMAIN seqs = 1..N
  BY <1>0
<1>c. \A i \in 1..N : seqs[i] = RecordFields(list[i])
  BY <1>0
<1>1. CASE N = 0
  <2>1. seqs = <<>>
    <3>1. DOMAIN list = 1..0
      BY <1>0, <1>1
    <3>2. [i \in 1..0 |-> RecordFields(list[i])] = <<>>
      OBVIOUS
    <3> QED
      BY <3>1, <3>2
  <2>2. FlattenSeq(seqs) = <<>>
    BY <1>b, <1>1, <2>1 DEF FlattenSeq
  <2>3. LoadQSOfile(<<>>) = out(0)
    <3>1. Reads(NothingRead, <<>>, NothingRead)
      BY ReadsNone
    <3>2. <<>> \in Seq({})
      OBVIOUS
    <3>3. LoadQSOfile(<<>>) = NothingRead.recs
      BY <3>1, <3>2, LoadReads
    <3> HIDE DEF out
    <3> QED
      BY <1>a, <3>3, ReadingMembers
  <2>4. out(0) = [i \in DOMAIN list |-> Canonical(list[i])]
    BY <1>0, <1>1
  <2> HIDE DEF out, seqs
  <2>5. LoadQSOfile(FlattenSeq(seqs)) = [i \in DOMAIN list |-> Canonical(list[i])]
    BY <2>2, <2>3, <2>4
  <2> QED
    BY <2>5 DEF seqs
<1>2. CASE N # 0
  <2> DEFINE f == CHOOSE flat : Flattens(flat, seqs, N)
  <2>1. Flattens(f, seqs, N)
    BY <1>0, FlattenExists
  <2>2. FlattenSeq(seqs) = f[N]
    BY <1>b, <1>2 DEF FlattenSeq, Flattens
  <2> HIDE DEF f, seqs
  <2>3. ASSUME NEW k \in 1..N
        PROVE  IsSeq(RecordFields(list[k])) /\
               Reads(Reading(out(k - 1), QSORecord), seqs[k], Reading(out(k), QSORecord))
    <3>1. IsRecord(list[k]) /\ Fits(list[k])
      BY <1>0 DEF IsList
    <3>2. Append(out(k - 1), Canonical(list[k])) = out(k)
      <4> DEFINE X == {Canonical(list[i]) : i \in 1..N}
      <4>1. k - 1 \in Nat /\ k \in Nat /\ \A i \in 1..k : i \in 1..N
        BY <1>0
      <4>2. out(k - 1) \in Seq(X) /\ out(k) \in Seq(X) /\ Len(out(k - 1)) = k - 1 /\ Len(out(k)) = k
        BY <4>1
      <4>3. \A i \in 1..k : out(k)[i] = Append(out(k - 1), Canonical(list[k]))[i]
        BY <4>1, <4>2
      <4>4. Canonical(list[k]) \in X
        OBVIOUS
      <4>5. Append(out(k - 1), Canonical(list[k])) \in Seq(X)
            /\ Len(Append(out(k - 1), Canonical(list[k]))) = k
        BY <4>1, <4>2, <4>4
      <4> HIDE DEF out, X
      <4> QED
        BY <4>2, <4>3, <4>5, SeqsEqual
    <3> HIDE DEF out
    <3> QED
      BY <1>c, <3>1, <3>2, RecordReads
  <2> HIDE DEF out
  <2> DEFINE Wrong == {k \in 1..N : ~(IsSeq(f[k]) /\ Reads(NothingRead, f[k], Reading(out(k), QSORecord)))}
  <2>4. Wrong = {}
    <3> SUFFICES ASSUME Wrong # {} PROVE FALSE
      OBVIOUS
    <3>1. Wrong \subseteq Nat
      BY <1>0
    <3>2. PICK k \in Wrong : \A j \in Wrong : k <= j
      BY <3>1, LeastExists
    <3>3. k \in 1..N
      BY <3>2
    <3>4. CASE k = 1
      <4>1. f[k] = RecordFields(list[k]) /\ k - 1 = 0
        BY <1>c, <2>1, <3>3, <3>4 DEF Flattens
      <4> QED
        BY <1>a, <1>c, <2>3, <3>2, <3>3, <4>1
    <3>5. CASE k # 1
      <4>1. k - 1 \in 1..N /\ k - 1 \notin Wrong
        BY <1>0, <3>2, <3>3, <3>5
      <4>2. IsSeq(f[k - 1]) /\ Reads(NothingRead, f[k - 1], Reading(out(k - 1), QSORecord))
        BY <4>1
      <4>3. f[k] = f[k - 1] \o seqs[k]
        BY <2>1, <3>3, <3>5 DEF Flattens
      <4>4. IsSeq(seqs[k]) /\ Reads(Reading(out(k - 1), QSORecord), seqs[k], Reading(out(k), QSORecord))
        BY <1>c, <2>3, <3>3
      <4>5. IsSeq(f[k]) /\ Reads(NothingRead, f[k], Reading(out(k), QSORecord))
        BY <4>2, <4>3, <4>4, BothIsSeq, ReadsBoth
      <4> QED
        BY <3>2, <4>5
    <3> QED
      BY <3>4, <3>5
  <2>5. N \in 1..N
    BY <1>0, <1>2
  <2>6. IsSeq(f[N]) /\ Reads(NothingRead, f[N], Reading(out(N), QSORecord))
    BY <2>4, <2>5
  <2>7. LoadQSOfile(f[N]) = out(N)
    <3>1. f[N] \in Seq(ToSet(f[N]))
      BY <2>6 DEF IsSeq
    <3>2. LoadQSOfile(f[N]) = Reading(out(N), QSORecord).recs
      BY <2>6, <3>1, LoadReads
    <3> QED
      BY <3>2, ReadingMembers
  <2>8. LoadQSOfile(FlattenSeq(seqs)) = out(N)
    BY <2>2, <2>7
  <2>9. out(N) = [i \in DOMAIN list |-> Canonical(list[i])]
    BY <1>0 DEF out
  <2>10. LoadQSOfile(FlattenSeq(seqs)) = [i \in DOMAIN list |-> Canonical(list[i])]
    BY <2>8, <2>9
  <2> QED
    BY <2>10 DEF seqs
<1> QED
  BY <1>1, <1>2

\* What is kept of a list is records of it.
LEMMA KeptIsList ==
  ASSUME NEW list, IsList(list)
  PROVE  IsList(Kept(list)) /\ ToSet(Kept(list)) \subseteq ToSet(list)
<1> DEFINE T == {i \in DOMAIN list : list[i].CALL # NONE} k == Kept(list)
<1>1. list \in Seq(ToSet(list)) /\ T \subseteq DOMAIN list
  BY DEF IsList
<1>2. k \in Seq(ToSet(list))
  BY <1>1, OnlyLists DEF Kept
<1> HIDE DEF k
<1>3. ToSet(k) \subseteq ToSet(list) /\ IsSeq(k)
  <2>1. \A i \in DOMAIN k : k[i] \in ToSet(list)
    BY <1>2
  <2> QED
    BY <1>2, <2>1, SeqIsSeq DEF ToSet
<1> QED
  BY <1>3 DEF k, IsList, IsSeq

\* What is written of a list is read as what it keeps.
LEMMA ReadBack ==
  ASSUME NEW list, IsList(list), \A i \in DOMAIN list : Fits(list[i])
  PROVE  LoadQSOfile(Written(list)) = [i \in DOMAIN Kept(list) |-> Canonical(Kept(list)[i])]
<1>1. IsList(Kept(list)) /\ ToSet(Kept(list)) \subseteq ToSet(list)
  BY KeptIsList
<1>2. \A r \in ToSet(Kept(list)) : Fits(r)
  BY <1>1 DEF ToSet
<1> QED
  BY <1>1, <1>2, ListReads DEF Written

-----------------------------------------------------------------------------
(* Whatever is in a file, what is read are records.                         *)

\* The state of the loop has its members.
IsReading(s) ==
    /\ s = [n \in {"recs", "rec", "stop"} |-> s[n]]
    /\ IsList(s.recs) /\ IsRecord(s.rec) /\ s.stop \in BOOLEAN

LEMMA NoExtra == IsExtra(<<>>)
<1>1. <<>> = [n \in {} |-> <<>>[n]] /\ DOMAIN <<>> = {}
  OBVIOUS
<1> QED
  BY <1>1, FS_EmptySet DEF IsExtra

LEMMA ExtraSets ==
  ASSUME NEW e, IsExtra(e), NEW n, NEW v, n \notin KnownNames
  PROVE  IsExtra(SetExtra(e, n, v))
<1> DEFINE D == DOMAIN e \cup {n} x == SetExtra(e, n, v)
<1>1. x = [m \in D |-> x[m]] /\ DOMAIN x = D
  BY DEF SetExtra
<1>2. IsFiniteSet(DOMAIN e) /\ DOMAIN e \cap KnownNames = {}
  BY DEF IsExtra
<1>3. IsFiniteSet(D)
  BY <1>2, FS_AddElement
<1> HIDE DEF x
<1>4. D \cap KnownNames = {}
  BY <1>2
<1>5. IsExtra(x)
  BY <1>1, <1>3, <1>4 DEF IsExtra
<1> QED
  BY <1>5 DEF x

LEMMA RecIsRecord ==
  ASSUME NEW c, NEW b, NEW m, NEW f, NEW p, NEW s, NEW t, NEW e, IsExtra(e)
  PROVE  IsRecord(Rec(c, b, m, f, p, s, t, e))
<1> DEFINE r == Rec(c, b, m, f, p, s, t, e)
<1>1. /\ r = [CALL |-> r.CALL, BAND |-> r.BAND, MODE |-> r.MODE, FREQ |-> r.FREQ,
              PROP |-> r.PROP, SAT |-> r.SAT, DATE |-> r.DATE, extra |-> r.extra]
      /\ r.extra = e
  BY DEF Rec
<1> HIDE DEF r
<1>2. IsRecord(r)
  BY <1>1 DEF IsRecord
<1> QED
  BY <1>2 DEF r

\* A record with a member replaced is a record.
LEMMA RecordSets ==
  ASSUME NEW r, IsRecord(r), NEW v
  PROVE  /\ IsRecord([r EXCEPT !.CALL = v]) /\ IsRecord([r EXCEPT !.BAND = v])
         /\ IsRecord([r EXCEPT !.MODE = v]) /\ IsRecord([r EXCEPT !.FREQ = v])
         /\ IsRecord([r EXCEPT !.PROP = v]) /\ IsRecord([r EXCEPT !.SAT = v])
         /\ IsRecord([r EXCEPT !.DATE = v])
         /\ IsExtra(v) => IsRecord([r EXCEPT !.extra = v])
<1>1. PICK c, b, m, f, p, s, t, e : r = Rec(c, b, m, f, p, s, t, e) /\ IsExtra(e)
  <2>1. r = Rec(r.CALL, r.BAND, r.MODE, r.FREQ, r.PROP, r.SAT, r.DATE, r.extra) /\ IsExtra(r.extra)
    BY DEF IsRecord, Rec
  <2> QED
    BY <2>1
<1>2. [r EXCEPT !.CALL = v] = Rec(v, b, m, f, p, s, t, e)
  BY <1>1 DEF Rec
<1>3. [r EXCEPT !.BAND = v] = Rec(c, v, m, f, p, s, t, e)
  BY <1>1 DEF Rec
<1>4. [r EXCEPT !.MODE = v] = Rec(c, b, v, f, p, s, t, e)
  BY <1>1 DEF Rec
<1>5. [r EXCEPT !.FREQ = v] = Rec(c, b, m, v, p, s, t, e)
  BY <1>1 DEF Rec
<1>6. [r EXCEPT !.PROP = v] = Rec(c, b, m, f, v, s, t, e)
  BY <1>1 DEF Rec
<1>7. [r EXCEPT !.SAT = v] = Rec(c, b, m, f, p, v, t, e)
  BY <1>1 DEF Rec
<1>8. [r EXCEPT !.DATE = v] = Rec(c, b, m, f, p, s, v, e)
  BY <1>1 DEF Rec
<1>9. [r EXCEPT !.extra = v] = Rec(c, b, m, f, p, s, t, v)
  BY <1>1 DEF Rec
<1> QED
  BY <1>1, <1>2, <1>3, <1>4, <1>5, <1>6, <1>7, <1>8, <1>9, RecIsRecord

LEMMA RecordTakes ==
  ASSUME NEW rec, IsRecord(rec), NEW f, f.n # "EOR"
  PROVE  IsRecord(TakeField(rec, f))
<1>1. DOMAIN rec = {"CALL", "BAND", "MODE", "FREQ", "PROP", "SAT", "DATE", "extra"} /\ IsExtra(rec.extra)
  BY DEF IsRecord
<1>2. CASE f.n = "MODE"
  <2> DEFINE v == ADIFMode(f.v, f.v)
  <2>1. TakeField(rec, f) = [rec EXCEPT !.MODE = v]
    BY <1>1, <1>2 DEF TakeField
  <2> HIDE DEF v
  <2>2. IsRecord([rec EXCEPT !.MODE = v])
    BY RecordSets
  <2> QED
    BY <2>1, <2>2
<1>3. CASE f.n = "SUBMODE"
  <2> DEFINE v == ADIFMode(f.v, rec.MODE)
  <2>1. TakeField(rec, f) = [rec EXCEPT !.MODE = v]
    BY <1>1, <1>3 DEF TakeField
  <2> HIDE DEF v
  <2>2. IsRecord([rec EXCEPT !.MODE = v])
    BY RecordSets
  <2> QED
    BY <2>1, <2>2
<1>4. CASE f.n = "EOH"
  <2>1. TakeField(rec, f) = [rec EXCEPT !.extra = <<>>]
    BY <1>1, <1>4 DEF TakeField
  <2>2. PICK e : e = <<>> /\ IsExtra(e)
    BY NoExtra
  <2>3. IsRecord([rec EXCEPT !.extra = e])
    BY <2>2, RecordSets
  <2> QED
    BY <2>1, <2>2, <2>3
<1>5. CASE f.n \in {"CALL", "BAND", "FREQ", "PROP", "SAT", "DATE"}
  <2>1. TakeField(rec, f) = [rec EXCEPT ![f.n] = f.v]
    BY <1>1, <1>5 DEF TakeField
  <2>2. IsRecord([rec EXCEPT ![f.n] = f.v])
    <3>1. CASE f.n = "CALL"
      BY <3>1, RecordSets
    <3>2. CASE f.n = "BAND"
      BY <3>2, RecordSets
    <3>3. CASE f.n = "FREQ"
      BY <3>3, RecordSets
    <3>4. CASE f.n = "PROP"
      BY <3>4, RecordSets
    <3>5. CASE f.n = "SAT"
      BY <3>5, RecordSets
    <3>6. CASE f.n = "DATE"
      BY <3>6, RecordSets
    <3> QED
      BY <1>5, <3>1, <3>2, <3>3, <3>4, <3>5, <3>6
  <2> QED
    BY <2>1, <2>2
<1>6. CASE f.n \notin KnownNames
  <2> DEFINE v == SetExtra(rec.extra, f.n, f.v)
  <2>1. TakeField(rec, f) = [rec EXCEPT !.extra = v]
    BY <1>1, <1>6 DEF TakeField, KnownNames
  <2>2. IsExtra(v)
    BY <1>1, <1>6, ExtraSets
  <2> HIDE DEF v
  <2>3. IsRecord([rec EXCEPT !.extra = v])
    BY <2>2, RecordSets
  <2> QED
    BY <2>1, <2>3
<1> QED
  BY <1>2, <1>3, <1>4, <1>5, <1>6 DEF KnownNames

LEMMA BlankIsRecord == IsRecord(QSORecord)
<1>1. QSORecord = Rec("", "160M", "CW", "", "", "", "", <<>>)
  BY DEF QSORecord, Rec
<1>2. PICK z, b0, m0, e0 : z = "" /\ b0 = "160M" /\ m0 = "CW" /\ e0 = <<>>
  OBVIOUS
<1>3. IsRecord(Rec(z, b0, m0, z, z, z, z, e0))
  BY <1>2, NoExtra, RecIsRecord
<1> QED
  BY <1>1, <1>2, <1>3

\* Lists of records.
LEMMA ListAppends ==
  ASSUME NEW list, IsList(list), NEW r, IsRecord(r)
  PROVE  /\ IsList(Append(list, r)) /\ Len(list) \in Nat /\ Len(Append(list, r)) = Len(list) + 1
         /\ DOMAIN list = 1..Len(list)
         /\ \A i \in 1..Len(list) : Append(list, r)[i] = list[i]
         /\ Append(list, r)[Len(list) + 1] = r
<1> DEFINE X == ToSet(list) \cup {r} a == Append(list, r)
<1>1. list \in Seq(X) /\ r \in X
  BY DEF IsList
<1>2. \A x \in X : IsRecord(x)
  BY DEF IsList
<1> HIDE DEF X
<1>3. /\ a \in Seq(X) /\ Len(list) \in Nat /\ Len(a) = Len(list) + 1
      /\ DOMAIN list = 1..Len(list)
      /\ \A i \in 1..Len(list) : a[i] = list[i]
      /\ a[Len(list) + 1] = r
  BY <1>1
<1> HIDE DEF a
<1>4. IsSeq(a) /\ ToSet(a) \subseteq X
  <2>1. \A i \in DOMAIN a : a[i] \in X
    BY <1>3
  <2> QED
    BY <1>3, <2>1, SeqIsSeq DEF ToSet
<1>5. IsList(a)
  BY <1>2, <1>4 DEF IsList, IsSeq
<1> QED
  BY <1>3, <1>5 DEF a

LEMMA NoList == IsList(<<>>)
<1>1. ToSet(<<>>) = {}
  BY DEF ToSet
<1> QED
  BY <1>1, NoneIsSeq DEF IsList, IsSeq

LEMMA ReadKeeps ==
  ASSUME NEW s, IsReading(s), NEW f
  PROVE  IsReading(ReadField(s, f))
<1> DEFINE t == ReadField(s, f)
<1>0. /\ s = [n \in {"recs", "rec", "stop"} |-> s[n]]
      /\ IsList(s.recs) /\ IsRecord(s.rec) /\ s.stop \in BOOLEAN
  BY DEF IsReading
<1>1. CASE s.stop \/ GetField(f) # "SUCCESS"
  <2>1. t = [s EXCEPT !.stop = TRUE]
    BY <1>1 DEF ReadField
  <2> HIDE DEF t
  <2>2. t = [n \in {"recs", "rec", "stop"} |-> t[n]] /\ t.recs = s.recs /\ t.rec = s.rec /\ t.stop = TRUE
    BY <1>0, <2>1
  <2>3. IsReading(t)
    BY <1>0, <2>2 DEF IsReading
  <2> QED
    BY <2>3 DEF t
<1>2. CASE ~(s.stop \/ GetField(f) # "SUCCESS") /\ f.n = "EOR"
  <2>1. t = [s EXCEPT !.recs = Append(s.recs, s.rec), !.rec = QSORecord]
    BY <1>2 DEF ReadField
  <2> HIDE DEF t
  <2>2. /\ t = [n \in {"recs", "rec", "stop"} |-> t[n]]
        /\ t.recs = Append(s.recs, s.rec) /\ t.rec = QSORecord /\ t.stop = s.stop
    BY <1>0, <2>1
  <2>3. IsList(Append(s.recs, s.rec)) /\ IsRecord(QSORecord)
    BY <1>0, BlankIsRecord, ListAppends
  <2>4. IsReading(t)
    BY <1>0, <2>2, <2>3 DEF IsReading
  <2> QED
    BY <2>4 DEF t
<1>3. CASE ~(s.stop \/ GetField(f) # "SUCCESS") /\ f.n # "EOR"
  <2>1. t = [s EXCEPT !.rec = TakeField(s.rec, f)]
    BY <1>3 DEF ReadField
  <2> HIDE DEF t
  <2>2. /\ t = [n \in {"recs", "rec", "stop"} |-> t[n]]
        /\ t.recs = s.recs /\ t.rec = TakeField(s.rec, f) /\ t.stop = s.stop
    BY <1>0, <2>1
  <2>3. IsReading(t)
    BY <1>0, <1>3, <2>2, RecordTakes DEF IsReading
  <2> QED
    BY <2>3 DEF t
<1> QED
  BY <1>1, <1>2, <1>3

\* The states of the loop over the first m fields.
Runs(st, fields, m) ==
    st[0] = NothingRead /\ \A i \in 1..m : st[i] = ReadField(st[i - 1], fields[i])

LEMMA RunExists ==
  ASSUME NEW fields, NEW m \in Nat
  PROVE  \E st : Runs(st, fields, m)
<1> DEFINE Wrong == {n \in Nat : ~ \E st : Runs(st, fields, n)}
<1> SUFFICES ASSUME Wrong # {} PROVE FALSE
  OBVIOUS
<1>1. PICK n \in Wrong : \A j \in Wrong : n <= j
  BY LeastExists
<1>2. CASE n = 0
  <2> DEFINE g == [i \in 0..0 |-> NothingRead]
  <2>1. g[0] = NothingRead /\ 1..0 = {}
    OBVIOUS
  <2> HIDE DEF g
  <2>2. Runs(g, fields, 0)
    BY <2>1 DEF Runs
  <2> QED
    BY <1>1, <1>2, <2>2
<1>3. CASE n # 0
  <2>1. n \in Nat /\ n - 1 \in Nat /\ n - 1 \notin Wrong
    BY <1>1, <1>3
  <2>2. PICK f : Runs(f, fields, n - 1)
    BY <2>1
  <2> DEFINE g == [i \in 0..n |-> IF i = n THEN ReadField(f[n - 1], fields[n]) ELSE f[i]]
  <2>3. g[0] = NothingRead
    BY <1>3, <2>1, <2>2 DEF Runs
  <2>4. ASSUME NEW i \in 1..n PROVE g[i] = ReadField(g[i - 1], fields[i])
    <3>1. i \in 0..n /\ i - 1 \in 0..n /\ i - 1 # n /\ (i # n => i \in 1..(n - 1))
      BY <2>1
    <3>2. g[i - 1] = f[i - 1]
      BY <3>1
    <3>3. i # n => f[i] = ReadField(f[i - 1], fields[i])
      BY <2>2, <3>1 DEF Runs
    <3>4. g[i] = IF i = n THEN ReadField(f[n - 1], fields[n]) ELSE f[i]
      BY <3>1
    <3> HIDE DEF g
    <3> QED
      BY <3>2, <3>3, <3>4
  <2> HIDE DEF g
  <2>5. Runs(g, fields, n)
    BY <2>3, <2>4 DEF Runs
  <2> QED
    BY <1>1, <2>5
<1> QED
  BY <1>2, <1>3

LEMMA LoadIsList ==
  ASSUME NEW X, NEW fields \in Seq(X)
  PROVE  IsList(LoadQSOfile(fields))
<1> DEFINE N == Len(fields)
<1>0. N \in Nat
  OBVIOUS
<1>1. PICK st : Runs(st, fields, N)
  BY <1>0, RunExists
<1>2. IsReading(NothingRead)
  <2>0. PICK e, r : e = <<>> /\ r = QSORecord
    OBVIOUS
  <2> DEFINE z == Reading(e, r)
  <2>1. NothingRead = z
    BY <2>0 DEF NothingRead, Reading
  <2>2. z = [n \in {"recs", "rec", "stop"} |-> z[n]] /\ z.recs = e /\ z.rec = r /\ z.stop = FALSE
    BY ReadingMembers, ZenonT(60)
  <2> HIDE DEF z
  <2>3. IsReading(z)
    BY <2>0, <2>2, NoList, BlankIsRecord DEF IsReading
  <2> QED
    BY <2>1, <2>3
<1> DEFINE Wrong == {i \in 0..N : ~IsReading(st[i])}
<1>3. Wrong = {}
  <2> SUFFICES ASSUME Wrong # {} PROVE FALSE
    OBVIOUS
  <2>1. Wrong \subseteq Nat
    BY <1>0
  <2>2. PICK k \in Wrong : \A j \in Wrong : k <= j
    BY <2>1, LeastExists
  <2>3. k \in 0..N /\ k # 0
    BY <1>1, <1>2, <2>2 DEF Runs
  <2>4. k - 1 \in 0..N /\ k - 1 \notin Wrong /\ k \in 1..N
    BY <1>0, <2>2, <2>3
  <2>5. st[k] = ReadField(st[k - 1], fields[k]) /\ IsReading(st[k - 1])
    BY <1>1, <2>4 DEF Runs
  <2> QED
    BY <2>2, <2>5, ReadKeeps
<1>4. IsReading(st[N])
  <2>1. N \in 0..N
    BY <1>0
  <2> QED
    BY <1>3, <2>1
<1>5. Reads(NothingRead, fields, st[N])
  BY <1>1 DEF Runs, Reads
<1>6. LoadQSOfile(fields) = st[N].recs
  BY <1>5, LoadReads
<1> QED
  BY <1>4, <1>6 DEF IsReading

-----------------------------------------------------------------------------
(* What the parts of the handlers do to the dialog.                         *)

SameList(x, y) == y.list = x.list /\ y.recno = x.recno /\ y.newrec = x.newrec /\ y.oob = x.oob
SameFlags(x, y) == y.touched = x.touched /\ y.changed = x.changed

\* A record by its texts, and with the ones that are typed replaced.
LEMMA RecordIs ==
  ASSUME NEW r, IsRecord(r)
  PROVE  r = Rec(r.CALL, r.BAND, r.MODE, r.FREQ, r.PROP, r.SAT, r.DATE, r.extra) /\ IsExtra(r.extra)
  BY DEF IsRecord, Rec

LEMMA RecMembers ==
  ASSUME NEW c, NEW b, NEW m, NEW f, NEW p, NEW s, NEW t, NEW e
  PROVE  LET r == Rec(c, b, m, f, p, s, t, e)
         IN  /\ r.CALL = c /\ r.BAND = b /\ r.MODE = m /\ r.FREQ = f
             /\ r.PROP = p /\ r.SAT = s /\ r.DATE = t /\ r.extra = e
  BY DEF Rec

LEMMA RecordTyped ==
  ASSUME NEW r, IsRecord(r), NEW u, NEW v, NEW w
  PROVE  /\ [r EXCEPT !.CALL = u, !.FREQ = v, !.DATE = w]
               = Rec(u, r.BAND, r.MODE, v, r.PROP, r.SAT, w, r.extra)
         /\ IsRecord(Rec(u, r.BAND, r.MODE, v, r.PROP, r.SAT, w, r.extra))
<1>1. PICK c, b, m, f, p, s, t, e : r = Rec(c, b, m, f, p, s, t, e) /\ IsExtra(e)
  <2>1. r = Rec(r.CALL, r.BAND, r.MODE, r.FREQ, r.PROP, r.SAT, r.DATE, r.extra) /\ IsExtra(r.extra)
    BY RecordIs
  <2> QED
    BY <2>1
<1>2. [r EXCEPT !.CALL = u, !.FREQ = v, !.DATE = w] = Rec(u, b, m, v, p, s, w, e)
  <2>1. [r EXCEPT !.CALL = u] = Rec(u, b, m, f, p, s, t, e)
    BY <1>1 DEF Rec
  <2>2. [Rec(u, b, m, f, p, s, t, e) EXCEPT !.FREQ = v] = Rec(u, b, m, v, p, s, t, e)
    BY DEF Rec
  <2>3. [Rec(u, b, m, v, p, s, t, e) EXCEPT !.DATE = w] = Rec(u, b, m, v, p, s, w, e)
    BY DEF Rec
  <2> QED
    BY <2>1, <2>2, <2>3
<1>3. r.BAND = b /\ r.MODE = m /\ r.PROP = p /\ r.SAT = s /\ r.extra = e
  BY <1>1, RecMembers
<1>4. IsRecord(Rec(u, b, m, v, p, s, w, e))
  BY <1>1, RecIsRecord
<1> QED
  BY <1>2, <1>3, <1>4

\* The controls go to rec and the selections.
LEMMA Pulls ==
  ASSUME NEW x, IsDialog(x)
  PROVE  LET y == PullTexts(x)
         IN  /\ IsDialog(y) /\ SameList(x, y) /\ SameFlags(x, y) /\ y.ctl = x.ctl
             /\ y.sel = [c \in Picks |-> x.ctl[c]]
             /\ y.rec = Rec(x.ctl.CALL, x.rec.BAND, x.rec.MODE, x.ctl.FREQ, x.rec.PROP, x.rec.SAT,
                            IF x.ctl.DATE = "" THEN x.rec.DATE ELSE x.ctl.DATE, x.rec.extra)
<1> DEFINE y == PullTexts(x)
           date == IF x.ctl.DATE = "" THEN x.rec.DATE ELSE x.ctl.DATE
           rec == [x.rec EXCEPT !.CALL = x.ctl.CALL, !.FREQ = x.ctl.FREQ, !.DATE = date]
           sel == [c \in Picks |-> x.ctl[c]]
<1>0. x = [n \in Members |-> x[n]]
  BY DEF IsDialog
<1>1. y = [x EXCEPT !.rec = rec, !.sel = sel]
  BY <1>0 DEF PullTexts, Members, IsDialog, IsRecord
<1>2. rec = Rec(x.ctl.CALL, x.rec.BAND, x.rec.MODE, x.ctl.FREQ, x.rec.PROP, x.rec.SAT, date, x.rec.extra)
  <2>1. IsRecord(x.rec)
    BY DEF IsDialog
  <2> HIDE DEF date
  <2> QED
    BY <2>1, RecordTyped
<1> HIDE DEF y, rec, sel, date
<1>3. /\ y = [n \in Members |-> y[n]] /\ y.rec = rec /\ y.sel = sel /\ y.ctl = x.ctl
      /\ SameList(x, y) /\ SameFlags(x, y)
  BY <1>0, <1>1 DEF SameList, SameFlags, Members
<1>4. IsRecord(rec)
  BY <1>2, RecordTyped DEF IsDialog
<1>5. sel = [c \in Picks |-> sel[c]]
  BY DEF sel
<1>6. IsDialog(y)
  BY <1>3, <1>4, <1>5 DEF IsDialog, SameList, SameFlags
<1> QED
  BY <1>2, <1>3, <1>6 DEF y, sel, date

\* A change of a text keeps the list, and anything but which buttons are enabled
\* unless the record on display is being added.
LEMMA FieldChanges ==
  ASSUME NEW x, IsDialog(x)
  PROVE  LET y == OnFieldChanged(x)
         IN  /\ IsDialog(y) /\ SameList(x, y) /\ SameFlags(x, y)
             /\ x.recno = x.newrec \/ (y.rec = x.rec /\ y.sel = x.sel /\ y.ctl = x.ctl)
<1> DEFINE y == OnFieldChanged(x)
<1>0. x = [n \in Members |-> x[n]]
  BY DEF IsDialog
<1>1. CASE x.newrec # x.recno \/ x.newrec = 0
  <2>1. PICK add : y = [x EXCEPT !.add = add]
    BY <1>1 DEF OnFieldChanged
  <2> HIDE DEF y
  <2>2. /\ y = [n \in Members |-> y[n]] /\ y.rec = x.rec /\ y.sel = x.sel /\ y.ctl = x.ctl
        /\ SameList(x, y) /\ SameFlags(x, y)
    BY <1>0, <2>1 DEF SameList, SameFlags, Members
  <2>3. IsDialog(y)
    BY <2>2 DEF IsDialog, SameList, SameFlags
  <2> QED
    BY <2>2, <2>3 DEF y
<1>2. CASE ~(x.newrec # x.recno \/ x.newrec = 0)
  <2> DEFINE p == PullTexts(x)
             band == IF p.rec.FREQ \in DOMAIN FreqBand THEN FreqBand[p.rec.FREQ] ELSE p.sel.BAND
             sel == [p.sel EXCEPT !.BAND = band] ctl == [p.ctl EXCEPT !.BAND = band]
  <2>1. IsDialog(p) /\ SameList(x, p) /\ SameFlags(x, p)
    BY Pulls
  <2>2. PICK add : y = [p EXCEPT !.sel = sel, !.ctl = ctl, !.add = add]
    BY <1>2 DEF OnFieldChanged
  <2>3. sel = [c \in Picks |-> sel[c]] /\ ctl = [c \in Texts \cup Picks |-> ctl[c]]
    <3>1. p.sel = [c \in Picks |-> p.sel[c]] /\ p.ctl = [c \in Texts \cup Picks |-> p.ctl[c]]
      BY <2>1 DEF IsDialog
    <3> HIDE DEF band, p
    <3> QED
      BY <3>1
  <2> HIDE DEF y, p, sel, ctl
  <2>4. p = [n \in Members |-> p[n]]
    BY <2>1 DEF IsDialog
  <2>5. /\ y = [n \in Members |-> y[n]] /\ y.rec = p.rec /\ y.sel = sel /\ y.ctl = ctl
        /\ SameList(p, y) /\ SameFlags(p, y)
    BY <2>2, <2>4 DEF SameList, SameFlags, Members
  <2>6. IsDialog(y)
    BY <2>1, <2>3, <2>5 DEF IsDialog, SameList, SameFlags
  <2>7. SameList(x, y) /\ SameFlags(x, y)
    BY <2>1, <2>5 DEF SameList, SameFlags
  <2> QED
    BY <1>2, <2>6, <2>7 DEF y
<1> QED
  BY <1>1, <1>2

\* A record on display is displayed as it is.
LEMMA WindowShows ==
  ASSUME NEW x, IsDialog(x), x.recno \in DOMAIN x.list => x.rec = x.list[x.recno]
  PROVE  LET y == TransferDataToWindow(x)
         IN  IsDialog(y) /\ Displays(y) /\ SameList(x, y)
<1> DEFINE sel == [c \in Picks |-> SelectedFor(x, c)]
           band == [x.ctl EXCEPT !.BAND = IF x.rec.BAND \in ToSet(Bands) THEN x.rec.BAND ELSE @]
           a == [x EXCEPT !.sel = sel, !.touched = FALSE, !.ctl = band]
           b == [a EXCEPT !.ctl = [band EXCEPT !.CALL = x.rec.CALL]]
           call == OnFieldChanged(b)
           ctl == [c \in Texts \cup Picks |-> IF c \in Texts THEN Shown(c, call.rec[c]) ELSE call.sel[c]]
           rest == [call EXCEPT !.ctl = ctl]
           y == OnFieldChanged(rest)
<1>0. x = [n \in Members |-> x[n]]
  BY DEF IsDialog
<1>1. TransferDataToWindow(x) = y
  <2>1. [x EXCEPT !.sel = sel, !.touched = FALSE,
                  !.ctl.BAND = IF x.rec.BAND \in ToSet(Bands) THEN x.rec.BAND ELSE @] = a
    BY <1>0 DEF Members
  <2>2. [a EXCEPT !.ctl.CALL = x.rec.CALL] = b
    BY <1>0 DEF Members
  <2> QED
    BY <2>1, <2>2 DEF TransferDataToWindow
<1>2. /\ sel = [c \in Picks |-> sel[c]]
      /\ \A u : [band EXCEPT !.CALL = u] = [c \in Texts \cup Picks |-> [band EXCEPT !.CALL = u][c]]
  BY DEF IsDialog
<1>3. /\ b = [n \in Members |-> b[n]] /\ b.rec = x.rec /\ b.sel = sel /\ b.touched = FALSE
      /\ b.ctl = [band EXCEPT !.CALL = x.rec.CALL] /\ SameList(x, b) /\ b.changed = x.changed
  <2> HIDE DEF sel, band
  <2> QED
    BY <1>0 DEF SameList, Members
<1> HIDE DEF sel, band, a, b
<1>4. IsDialog(b)
  BY <1>2, <1>3 DEF IsDialog, SameList
<1>5. /\ IsDialog(call) /\ SameList(b, call) /\ SameFlags(b, call)
      /\ b.recno = b.newrec \/ (call.rec = b.rec /\ call.sel = b.sel)
  BY <1>4, FieldChanges
<1> HIDE DEF call
<1>6. call = [n \in Members |-> call[n]]
  BY <1>5 DEF IsDialog
<1>7. ctl = [c \in Texts \cup Picks |-> ctl[c]]
  OBVIOUS
<1> HIDE DEF ctl
<1>8. /\ rest = [n \in Members |-> rest[n]] /\ rest.rec = call.rec /\ rest.sel = call.sel /\ rest.ctl = ctl
      /\ SameList(call, rest) /\ SameFlags(call, rest)
  BY <1>6 DEF SameList, SameFlags, Members
<1> HIDE DEF rest
<1>9. IsDialog(rest)
  BY <1>5, <1>7, <1>8 DEF IsDialog, SameList, SameFlags
<1>10. /\ IsDialog(y) /\ SameList(rest, y) /\ SameFlags(rest, y)
       /\ rest.recno = rest.newrec \/ (y.rec = rest.rec /\ y.ctl = rest.ctl)
  BY <1>9, FieldChanges
<1> HIDE DEF y
<1>11. SameList(x, y)
  BY <1>3, <1>5, <1>8, <1>10 DEF SameList
<1>12. ASSUME y.recno \in DOMAIN y.list \ {y.newrec}
       PROVE  Mirrors(y, y.list[y.recno])
  <2> DEFINE r == x.rec
  <2>1. y.list[y.recno] = r /\ x.recno # x.newrec
    BY <1>11, <1>12 DEF SameList
  <2>2. y.rec = r /\ y.ctl = ctl /\ call.rec = r /\ call.sel = sel
    BY <1>3, <1>5, <1>8, <1>10, <2>1 DEF SameList
  <2>3. /\ ctl.CALL = r.CALL /\ ctl.FREQ = r.FREQ /\ ctl.DATE \in {"", r.DATE}
        /\ \A c \in Picks : ctl[c] = sel[c]
    BY <2>2 DEF ctl, Shown, Texts, Picks
  <2>4. /\ r.MODE \in ToSet(Modes) => ctl.MODE = r.MODE
        /\ r.BAND \in ToSet(Bands) => ctl.BAND = r.BAND
        /\ r.PROP \in {"", "SAT"} => ctl.PROP = r.PROP
        /\ r.SAT \in {""} \cup Sats => ctl.SAT = r.SAT
    BY <2>3 DEF sel, SelectedFor, Picks
  <2>5. /\ r.PROP \in {"", "SAT"} => Chosen(ctl.PROP) = r.PROP
        /\ r.SAT \in {""} \cup Sats => Chosen(ctl.SAT) = r.SAT
    BY <2>4, SatsAssumption DEF Chosen, Unset
  <2> HIDE DEF r
  <2> QED
    BY <2>1, <2>2, <2>3, <2>4, <2>5 DEF Mirrors
<1>13. Displays(y)
  BY <1>12 DEF Displays
<1>14. IsDialog(y) /\ Displays(y) /\ SameList(x, y)
  BY <1>10, <1>11, <1>13
<1> QED
  BY <1>1, <1>14

\* A record is given by its texts.
LEMMA RecordBuilt ==
  ASSUME NEW r, r = [n \in {"CALL", "BAND", "MODE", "FREQ", "PROP", "SAT", "DATE", "extra"} |-> r[n]]
  PROVE  r = Rec(r.CALL, r.BAND, r.MODE, r.FREQ, r.PROP, r.SAT, r.DATE, r.extra)
  BY DEF Rec

\* A list with a record replaced.
LEMMA ListSets ==
  ASSUME NEW list, IsList(list), NEW i \in DOMAIN list, NEW r, IsRecord(r)
  PROVE  LET new == [list EXCEPT ![i] = r]
         IN  /\ IsList(new) /\ Len(new) = Len(list) /\ DOMAIN new = DOMAIN list
             /\ new[i] = r /\ \A j \in DOMAIN list : j # i => new[j] = list[j]
<1> DEFINE X == ToSet(list) \cup {r} a == [list EXCEPT ![i] = r]
<1>1. list \in Seq(X) /\ r \in X
  BY DEF IsList
<1>2. \A y \in X : IsRecord(y)
  BY DEF IsList
<1> HIDE DEF X
<1>3. /\ a \in Seq(X) /\ Len(a) = Len(list) /\ DOMAIN a = DOMAIN list
      /\ a[i] = r /\ \A j \in DOMAIN list : j # i => a[j] = list[j]
  BY <1>1
<1> HIDE DEF a
<1>4. IsSeq(a) /\ ToSet(a) \subseteq X
  <2>1. \A j \in DOMAIN a : a[j] \in X
    BY <1>3
  <2> QED
    BY <1>3, <2>1, SeqIsSeq DEF ToSet
<1>5. IsList(a)
  BY <1>2, <1>4 DEF IsList, IsSeq
<1> QED
  BY <1>3, <1>5 DEF a

\* The controls are taken over.  Accepted, the list has what they show; refused, it is
\* as before.
LEMMA WindowTakes ==
  ASSUME NEW x, IsDialog(x), Displays(x), NEW isend
  PROVE  LET t == TransferDataFromWindow(x, isend) y == t.x
         IN  /\ IsDialog(y) /\ Displays(y)
             /\ y.recno = x.recno /\ y.newrec = x.newrec /\ y.ctl = x.ctl
             /\ ~t.ok => y.list = x.list /\ y.oob = x.oob
             /\ t.ok /\ x.recno \in DOMAIN x.list =>
                  /\ y.list = [x.list EXCEPT ![x.recno] = y.rec] /\ y.oob = x.oob
                  /\ isend \/ y.rec.CALL # ""
             /\ t.ok /\ x.recno \notin DOMAIN x.list => y.list = x.list /\ y.oob
<1> DEFINE p == PullTexts(x)
           date == IF x.ctl.DATE = "" THEN x.rec.DATE ELSE x.ctl.DATE
           typed == Rec(x.ctl.CALL, x.rec.BAND, x.rec.MODE, x.ctl.FREQ, x.rec.PROP, x.rec.SAT, date, x.rec.extra)
           rec == Rec(x.ctl.CALL, x.ctl.BAND, x.ctl.MODE, x.ctl.FREQ,
                      Chosen(x.ctl.PROP), Chosen(x.ctl.SAT), date, x.rec.extra)
           changed == x.changed \/ p.rec # x.rec
           ch == [p EXCEPT !.changed = changed]
           left == [ch EXCEPT !.rec.MODE = p.sel.MODE]
           moded == [typed EXCEPT !.MODE = x.ctl.MODE]
           done == [ch EXCEPT !.rec = rec]
           stored == IF x.recno \in DOMAIN x.list THEN [done EXCEPT !.list[x.recno] = rec]
                     ELSE [done EXCEPT !.oob = TRUE]
           t == TransferDataFromWindow(x, isend)
<1>1. /\ IsDialog(p) /\ SameList(x, p) /\ SameFlags(x, p) /\ p.ctl = x.ctl
      /\ p.sel = [c \in Picks |-> x.ctl[c]] /\ p.rec = typed
  BY Pulls
<1>2. /\ p.sel.MODE = x.ctl.MODE /\ p.sel.BAND = x.ctl.BAND
      /\ p.sel.PROP = x.ctl.PROP /\ p.sel.SAT = x.ctl.SAT
  BY <1>1 DEF Picks
<1>3. [p.rec EXCEPT !.MODE = p.sel.MODE, !.BAND = p.sel.BAND,
                    !.PROP = IF p.sel.PROP = Unset THEN "" ELSE p.sel.PROP,
                    !.SAT = IF p.sel.SAT = Unset THEN "" ELSE p.sel.SAT] = rec
  <2> DEFINE u == Chosen(x.ctl.PROP) v == Chosen(x.ctl.SAT)
  <2>1. u = (IF p.sel.PROP = Unset THEN "" ELSE p.sel.PROP) /\ v = (IF p.sel.SAT = Unset THEN "" ELSE p.sel.SAT)
    BY <1>2 DEF Chosen
  <2> HIDE DEF u, v, p, date
  <2> DEFINE a == [typed EXCEPT !.MODE = x.ctl.MODE, !.BAND = x.ctl.BAND, !.PROP = u, !.SAT = v]
             N == {"CALL", "BAND", "MODE", "FREQ", "PROP", "SAT", "DATE", "extra"}
  <2>2. /\ typed = [n \in N |-> typed[n]]
        /\ typed.CALL = x.ctl.CALL /\ typed.FREQ = x.ctl.FREQ /\ typed.DATE = date
        /\ typed.extra = x.rec.extra
    BY DEF Rec
  <2> HIDE DEF typed
  <2>3. /\ a = [n \in N |-> a[n]]
        /\ a.CALL = x.ctl.CALL /\ a.BAND = x.ctl.BAND /\ a.MODE = x.ctl.MODE /\ a.FREQ = x.ctl.FREQ
        /\ a.PROP = u /\ a.SAT = v /\ a.DATE = date /\ a.extra = x.rec.extra
    BY <2>2
  <2>4. a = [p.rec EXCEPT !.MODE = p.sel.MODE, !.BAND = p.sel.BAND, !.PROP = u, !.SAT = v]
    BY <1>1, <1>2
  <2> HIDE DEF a
  <2>5. a = Rec(x.ctl.CALL, x.ctl.BAND, x.ctl.MODE, x.ctl.FREQ, u, v, date, x.rec.extra)
    BY <2>3, RecordBuilt
  <2>6. a = rec
    BY <2>5 DEF u, v
  <2> HIDE DEF rec
  <2> QED
    BY <2>1, <2>4, <2>6
<1>4. t = IF p.sel.BAND = Unset THEN [ok |-> FALSE, x |-> left]
          ELSE IF ~Accepts(rec, isend) THEN [ok |-> FALSE, x |-> done]
          ELSE [ok |-> TRUE, x |-> stored]
  <2> HIDE DEF rec, p
  <2> QED
    BY <1>3 DEF TransferDataFromWindow, p
<1>5. IsRecord(typed) /\ IsRecord(rec)
  <2>1. IsExtra(x.rec.extra)
    BY RecordIs DEF IsDialog
  <2> HIDE DEF date
  <2> QED
    BY <2>1, RecIsRecord
<1>6. /\ typed.CALL = x.ctl.CALL /\ typed.FREQ = x.ctl.FREQ /\ typed.DATE = date /\ typed.extra = x.rec.extra
      /\ rec.CALL = x.ctl.CALL /\ rec.FREQ = x.ctl.FREQ /\ rec.DATE = date /\ rec.extra = x.rec.extra
      /\ rec.MODE = x.ctl.MODE /\ rec.BAND = x.ctl.BAND
      /\ rec.PROP = Chosen(x.ctl.PROP) /\ rec.SAT = Chosen(x.ctl.SAT)
  <2> HIDE DEF date
  <2> QED
    BY DEF Rec
<1>15. /\ IsRecord(moded) /\ moded.CALL = typed.CALL /\ moded.FREQ = typed.FREQ
       /\ moded.DATE = typed.DATE /\ moded.extra = typed.extra
  <2>1. moded = Rec(x.ctl.CALL, x.rec.BAND, x.ctl.MODE, x.ctl.FREQ, x.rec.PROP, x.rec.SAT, date, x.rec.extra)
    <3> HIDE DEF date
    <3> QED
      BY DEF Rec
  <2>2. IsExtra(x.rec.extra)
    BY RecordIs DEF IsDialog
  <2>3. IsRecord(moded)
    <3> HIDE DEF date, moded
    <3> QED
      BY <2>1, <2>2, RecIsRecord
  <2>4. /\ moded.CALL = x.ctl.CALL /\ moded.FREQ = x.ctl.FREQ /\ moded.DATE = date
        /\ moded.extra = x.rec.extra
    <3> HIDE DEF date, moded
    <3> QED
      BY <2>1 DEF Rec
  <2> HIDE DEF date, moded, typed
  <2> QED
    BY <1>6, <2>3, <2>4
<1> HIDE DEF p, typed, rec, moded
<1>7. p = [n \in Members |-> p[n]]
  BY <1>1 DEF IsDialog
<1>8. /\ ch = [n \in Members |-> ch[n]] /\ SameList(x, ch) /\ ch.touched = x.touched
      /\ ch.rec = typed /\ ch.ctl = x.ctl /\ ch.sel = p.sel /\ ch.changed = changed
  <2> HIDE DEF changed
  <2> QED
    BY <1>1, <1>7 DEF SameList, SameFlags, Members
<1>9. /\ done = [n \in Members |-> done[n]] /\ SameList(x, done) /\ done.touched = x.touched
      /\ done.rec = rec /\ done.ctl = x.ctl /\ done.sel = p.sel /\ done.changed = changed
  <2> HIDE DEF ch
  <2> QED
    BY <1>8 DEF SameList, Members
<1>16. /\ left = [n \in Members |-> left[n]] /\ SameList(x, left) /\ left.touched = x.touched
       /\ left.rec = moded /\ left.ctl = x.ctl /\ left.sel = p.sel /\ left.changed = changed
  <2> HIDE DEF ch
  <2>1. left.rec = [ch.rec EXCEPT !.MODE = p.sel.MODE]
    BY <1>8 DEF Members
  <2>2. left.rec = moded
    BY <1>2, <1>8, <2>1 DEF moded
  <2> QED
    BY <1>8, <2>2 DEF SameList, Members
<1>10. IsDialog(left) /\ IsDialog(done)
  <2>1. changed \in BOOLEAN
    BY DEF IsDialog
  <2> HIDE DEF ch, left, done, changed
  <2> QED
    BY <1>1, <1>5, <1>9, <1>15, <1>16, <2>1 DEF IsDialog, SameList
<1> HIDE DEF ch, left, changed
<1>11. ASSUME NEW y \in {left, done} PROVE Displays(y)
  <2>1. SameList(x, y) /\ y.touched = x.touched /\ y.ctl = x.ctl
    BY <1>9, <1>16
  <2>2. y.rec.CALL = x.ctl.CALL /\ y.rec.FREQ = x.ctl.FREQ /\ y.rec.DATE = date /\ y.rec.extra = x.rec.extra
    BY <1>6, <1>9, <1>15, <1>16
  <2>3. ASSUME NEW r, Mirrors(x, r) PROVE Mirrors(y, r)
    BY <2>1, <2>2, <2>3 DEF Mirrors
  <2> QED
    BY <2>1, <2>3 DEF Displays, SameList
<1>12. CASE p.sel.BAND = Unset
  <2>1. t.x = left /\ t.ok = FALSE
    BY <1>4, <1>12
  <2> HIDE DEF t
  <2> QED
    BY <1>10, <1>11, <1>16, <2>1 DEF SameList, t
<1>13. CASE p.sel.BAND # Unset /\ ~Accepts(rec, isend)
  <2>1. t.x = done /\ t.ok = FALSE
    BY <1>4, <1>13
  <2> HIDE DEF t, done
  <2>a. done \in {left, done}
    OBVIOUS
  <2>b. Displays(done)
    BY <1>11, <2>a
  <2>2. IsDialog(done) /\ Displays(done) /\ SameList(x, done) /\ done.ctl = x.ctl
    BY <1>9, <1>10, <2>b
  <2> QED
    BY <2>1, <2>2 DEF SameList, t
<1>14. CASE p.sel.BAND # Unset /\ Accepts(rec, isend)
  <2>1. t.x = stored /\ t.ok = TRUE /\ (isend \/ rec.CALL # "")
    <3>1. isend \/ rec.CALL # ""
      BY <1>14 DEF Accepts
    <3> HIDE DEF stored, t
    <3>2. t = [ok |-> TRUE, x |-> stored]
      BY <1>4, <1>14
    <3> QED
      BY <3>1, <3>2
  <2> HIDE DEF t, done
  <2>2. CASE x.recno \in DOMAIN x.list
    <3> DEFINE new == [x.list EXCEPT ![x.recno] = rec] y == [done EXCEPT !.list = new]
    <3>1. stored = y
      <4>1. done.list = x.list
        BY <1>9 DEF SameList
      <4> QED
        BY <2>2, <4>1
    <3>2. IsList(new) /\ new[x.recno] = rec
      BY <1>5, <2>2, ListSets DEF IsDialog
    <3> HIDE DEF new
    <3>3. /\ y = [n \in Members |-> y[n]] /\ y.list = new /\ y.recno = x.recno /\ y.newrec = x.newrec
          /\ y.oob = x.oob /\ y.touched = x.touched /\ y.rec = rec /\ y.ctl = x.ctl
          /\ y.sel = done.sel /\ y.changed = done.changed
      BY <1>9 DEF SameList, Members
    <3> HIDE DEF y
    <3>4. IsDialog(y)
      BY <1>9, <1>10, <3>2, <3>3 DEF IsDialog, SameList
    <3>5. Mirrors(y, rec)
      BY <1>6, <3>3 DEF Mirrors
    <3>6. Displays(y)
      BY <3>2, <3>3, <3>5 DEF Displays
    <3>7. y.list = [x.list EXCEPT ![x.recno] = y.rec]
      BY <3>3 DEF new
    <3> HIDE DEF stored
    <3> QED
      BY <2>1, <2>2, <3>1, <3>3, <3>4, <3>6, <3>7 DEF t
  <2>3. CASE x.recno \notin DOMAIN x.list
    <3> DEFINE y == [done EXCEPT !.oob = TRUE]
    <3>1. stored = y
      BY <2>3
    <3>2. /\ y = [n \in Members |-> y[n]] /\ y.list = x.list /\ y.recno = x.recno /\ y.newrec = x.newrec
          /\ y.oob = TRUE /\ y.touched = x.touched /\ y.rec = rec /\ y.ctl = x.ctl
          /\ y.sel = done.sel /\ y.changed = done.changed
      BY <1>9 DEF SameList, Members
    <3> HIDE DEF y
    <3>3. IsDialog(y)
      BY <1>9, <1>10, <3>2 DEF IsDialog, SameList
    <3>4. Displays(y)
      BY <2>3, <3>2 DEF Displays
    <3> HIDE DEF stored
    <3> QED
      BY <2>1, <2>3, <3>1, <3>2, <3>3, <3>4 DEF t
  <2> QED
    BY <2>2, <2>3
<1> QED
  BY <1>12, <1>13, <1>14

-----------------------------------------------------------------------------
(* Lists with a record removed.                                             *)

LEMMA ListIs ==
  ASSUME NEW list, IsList(list)
  PROVE  Len(list) \in Nat /\ DOMAIN list = 1..Len(list) /\ \A i \in DOMAIN list : IsRecord(list[i])
<1>1. list \in Seq(ToSet(list)) /\ \A i \in DOMAIN list : list[i] \in ToSet(list)
  BY DEF IsList, ToSet
<1> QED
  BY <1>1 DEF IsList

\* A list of some of the records of a list.
LEMMA PartIsList ==
  ASSUME NEW list, IsList(list), NEW X, NEW new \in Seq(X),
         \A j \in DOMAIN new : \E k \in DOMAIN list : new[j] = list[k]
  PROVE  IsList(new)
<1>1. IsSeq(new)
  BY SeqIsSeq
<1>2. \A r \in ToSet(new) : IsRecord(r)
  BY ListIs DEF ToSet
<1> QED
  BY <1>1, <1>2 DEF IsList, IsSeq

LEMMA FrontOfList ==
  ASSUME NEW list, IsList(list)
  PROVE  /\ IsList(Front(list))
         /\ list # <<>> =>
              /\ Len(Front(list)) = Len(list) - 1
              /\ \A i \in DOMAIN Front(list) : i \in DOMAIN list /\ i # Len(list) /\ Front(list)[i] = list[i]
<1> DEFINE X == ToSet(list) new == Front(list)
<1>0. list \in Seq(X) /\ Len(list) \in Nat /\ DOMAIN list = 1..Len(list)
  BY ListIs DEF IsList
<1> HIDE DEF X
<1>1. CASE list = <<>>
  <2>1. new \in Seq(X) /\ Len(new) = 0
    BY <1>0, <1>1 DEF Front
  <2> HIDE DEF new
  <2>2. DOMAIN new = {}
    BY <2>1
  <2>3. IsList(new)
    BY <2>1, <2>2, PartIsList
  <2> QED
    BY <1>1, <2>3 DEF new
<1>2. CASE list # <<>>
  <2>1. Len(list) # 0
    BY <1>0, <1>2
  <2>2. /\ new \in Seq(X) /\ Len(new) = Len(list) - 1
        /\ \A i \in 1..(Len(list) - 1) : new[i] = list[i]
    BY <1>0, <2>1 DEF Front
  <2> HIDE DEF new
  <2>3. \A i \in DOMAIN new : i \in DOMAIN list /\ i # Len(list) /\ new[i] = list[i]
    BY <1>0, <2>1, <2>2
  <2>4. IsList(new)
    BY <2>2, <2>3, PartIsList
  <2> QED
    BY <2>2, <2>3, <2>4 DEF new
<1> QED
  BY <1>1, <1>2

LEMMA RemovedFromList ==
  ASSUME NEW list, IsList(list), NEW i \in DOMAIN list
  PROVE  LET new == RemoveAt(list, i)
         IN  /\ IsList(new) /\ Len(new) = Len(list) - 1
             /\ \A j \in DOMAIN new : \E k \in DOMAIN list : k # i /\ new[j] = list[k]
<1> DEFINE X == ToSet(list) new == RemoveAt(list, i) N == Len(list)
           a == SubSeq(list, 1, i - 1) b == SubSeq(list, i + 1, N)
<1>0. list \in Seq(X) /\ N \in Nat /\ DOMAIN list = 1..N /\ i \in 1..N
  BY ListIs DEF IsList
<1> HIDE DEF X
<1>1. a \in Seq(X) /\ Len(a) = i - 1 /\ \A j \in 1..(i - 1) : a[j] = list[j]
  BY <1>0
<1>2. b \in Seq(X) /\ Len(b) = N - i /\ \A j \in 1..(N - i) : b[j] = list[i + j]
  BY <1>0
<1>3. new = a \o b
  BY DEF RemoveAt
<1> HIDE DEF a, b, new
<1>a. /\ Len(new) = Len(a) + Len(b)
      /\ \A j \in 1..Len(a) : new[j] = a[j]
      /\ \A j \in 1..Len(b) : new[Len(a) + j] = b[j]
  <2>1. IsSeq(a)
    BY <1>1, SeqIsSeq
  <2>2. IsSeq(b)
    BY <1>2, SeqIsSeq
  <2> QED
    BY <1>3, <2>1, <2>2, BothIsSeq
<1>4. new \in Seq(X) /\ Len(new) = N - 1
  <2>1. new \in Seq(X)
    BY <1>1, <1>2, <1>3
  <2> QED
    BY <1>0, <1>1, <1>2, <1>a, <2>1
<1>5. ASSUME NEW j \in DOMAIN new PROVE \E k \in DOMAIN list : k # i /\ new[j] = list[k]
  <2>1. j \in 1..(N - 1)
    BY <1>4
  <2>2. CASE j < i
    <3>1. new[j] = list[j] /\ j \in DOMAIN list /\ j # i
      BY <1>0, <1>1, <1>a, <2>1, <2>2
    <3> QED
      BY <3>1
  <2>3. CASE ~(j < i)
    <3> DEFINE m == j - (i - 1)
    <3>1. m \in 1..(N - i) /\ (i - 1) + m = j /\ i + m = j + 1
      BY <1>0, <2>1, <2>3
    <3> HIDE DEF m
    <3>2. new[j] = list[j + 1]
      <4>1. m \in 1..Len(b) /\ Len(a) + m = j
        BY <1>1, <1>2, <3>1
      <4>2. new[j] = b[m]
        BY <1>a, <4>1
      <4> QED
        BY <1>2, <3>1, <4>2
    <3>3. j + 1 \in DOMAIN list /\ j + 1 # i
      BY <1>0, <2>1, <2>3
    <3> QED
      BY <3>2, <3>3
  <2> QED
    BY <2>2, <2>3
<1>6. IsList(new)
  BY <1>4, <1>5, PartIsList
<1> QED
  BY <1>4, <1>5, <1>6 DEF new

-----------------------------------------------------------------------------
(* The parts of the handlers keep the invariant of the dialog.              *)

\* The records without a call sign, but for the one on display.
OneBlank(x, had) == had \/ \A i \in DOMAIN x.list : x.list[i].CALL = "" => i = x.recno

LEMMA WindowKeeps ==
  ASSUME NEW x, NEW had \in BOOLEAN, DialogInv(x, had), NEW isend
  PROVE  LET t == TransferDataFromWindow(x, isend) y == t.x
         IN  /\ DialogInv(y, had) /\ y.recno = x.recno /\ y.newrec = x.newrec /\ y.ctl = x.ctl
             /\ t.ok /\ ~y.oob => /\ y.recno \in DOMAIN y.list
                                  /\ isend \/ had \/ ~HadBlank(y.list)
<1> DEFINE t == TransferDataFromWindow(x, isend) y == t.x
<1>1. /\ IsDialog(y) /\ Displays(y)
      /\ y.recno = x.recno /\ y.newrec = x.newrec /\ y.ctl = x.ctl
      /\ ~t.ok => y.list = x.list /\ y.oob = x.oob
      /\ t.ok /\ x.recno \in DOMAIN x.list =>
           /\ y.list = [x.list EXCEPT ![x.recno] = y.rec] /\ y.oob = x.oob
           /\ isend \/ y.rec.CALL # ""
      /\ t.ok /\ x.recno \notin DOMAIN x.list => y.list = x.list /\ y.oob
  BY WindowTakes DEF DialogInv
<1> HIDE DEF t
<1>2. BlankHere(x, had)
  BY DEF DialogInv
<1>3. CASE ~t.ok
  BY <1>1, <1>2, <1>3 DEF BlankHere, DialogInv, t
<1>4. CASE t.ok /\ x.recno \notin DOMAIN x.list
  BY <1>1, <1>4 DEF BlankHere, DialogInv, t
<1>5. CASE t.ok /\ x.recno \in DOMAIN x.list
  <2> HIDE DEF y
  <2>1. /\ Len(y.list) = Len(x.list) /\ DOMAIN y.list = DOMAIN x.list /\ y.list[x.recno] = y.rec
        /\ \A j \in DOMAIN x.list : j # x.recno => y.list[j] = x.list[j]
    <3>1. IsList(x.list) /\ IsRecord(y.rec)
      BY <1>1 DEF IsDialog, DialogInv
    <3>2. y.list = [x.list EXCEPT ![x.recno] = y.rec]
      BY <1>1, <1>5
    <3> QED
      BY <1>5, <3>1, <3>2, ListSets
  <2>2. BlankHere(y, had)
    BY <1>1, <1>2, <1>5, <2>1 DEF BlankHere
  <2>3. ~y.oob => isend \/ had \/ ~HadBlank(y.list)
    BY <1>1, <1>2, <1>5, <2>1 DEF BlankHere, HadBlank
  <2> QED
    BY <1>1, <1>5, <2>1, <2>2, <2>3 DEF DialogInv, y, t
<1> QED
  BY <1>3, <1>4, <1>5

LEMMA ControlsKeep ==
  ASSUME NEW x, NEW had, DialogInv(x, had)
  PROVE  DialogInv(UpdateControls(x), had)
<1> DEFINE y == UpdateControls(x)
<1>1. PICK down, up, add : y = [x EXCEPT !.down = down, !.up = up, !.add = add]
  BY DEF UpdateControls
<1>2. IsDialog(x) /\ x = [n \in Members |-> x[n]]
  BY DEF DialogInv, IsDialog
<1> HIDE DEF y
<1>3. /\ y = [n \in Members |-> y[n]] /\ y.rec = x.rec /\ y.sel = x.sel /\ y.ctl = x.ctl
      /\ SameList(x, y) /\ SameFlags(x, y)
  BY <1>1, <1>2 DEF SameList, SameFlags, Members
<1>4. IsDialog(y)
  BY <1>2, <1>3 DEF IsDialog, SameList, SameFlags
<1>5. Displays(y)
  <2>1. ASSUME NEW r, Mirrors(x, r) PROVE Mirrors(y, r)
    BY <1>3, <2>1 DEF Mirrors
  <2> QED
    BY <1>3, <2>1 DEF Displays, DialogInv, SameList, SameFlags
<1>6. BlankHere(y, had)
  BY <1>3 DEF BlankHere, DialogInv, SameList
<1> QED
  BY <1>4, <1>5, <1>6 DEF DialogInv, y

\* The record at recno is fetched and displayed.
LEMMA FetchShows ==
  ASSUME NEW x, NEW had, IsDialog(x), ~x.oob /\ x.recno \in DOMAIN x.list => OneBlank(x, had)
  PROVE  LET y == TransferDataToWindow(Fetched(x))
         IN  /\ DialogInv(y, had) /\ y.list = x.list /\ y.recno = x.recno /\ y.newrec = x.newrec
             /\ ~y.oob <=> ~x.oob /\ x.recno \in DOMAIN x.list
<1> DEFINE inside == x.recno \in DOMAIN x.list
           rec == IF inside THEN x.list[x.recno] ELSE x.rec
           oob == x.oob \/ ~inside
           f == Fetched(x)
<1>0. x = [n \in Members |-> x[n]] /\ oob \in BOOLEAN
  BY DEF IsDialog
<1>1. f = [x EXCEPT !.rec = rec, !.oob = oob]
  BY <1>0 DEF Fetched, Members
<1>2. IsRecord(rec)
  BY ListIs DEF IsDialog
<1>3. (inside => rec = x.list[x.recno]) /\ (~oob <=> ~x.oob /\ inside)
  BY DEF IsDialog
<1> HIDE DEF f, rec, oob
<1>4. /\ f = [n \in Members |-> f[n]] /\ f.rec = rec /\ f.sel = x.sel /\ f.ctl = x.ctl /\ f.oob = oob
      /\ f.list = x.list /\ f.recno = x.recno /\ f.newrec = x.newrec /\ SameFlags(x, f)
  BY <1>0, <1>1 DEF SameFlags, Members
<1>5. IsDialog(f)
  BY <1>0, <1>2, <1>4 DEF IsDialog, SameFlags
<1>6. f.recno \in DOMAIN f.list => f.rec = f.list[f.recno]
  BY <1>3, <1>4
<1> DEFINE y == TransferDataToWindow(f)
<1>7. IsDialog(y) /\ Displays(y) /\ SameList(f, y)
  BY <1>5, <1>6, WindowShows
<1> HIDE DEF y
<1>8. BlankHere(y, had)
  <2>1. Len(x.list) \in Nat /\ DOMAIN x.list = 1..Len(x.list)
    BY ListIs DEF IsDialog
  <2>2. y.list = x.list /\ y.recno = x.recno /\ y.oob = oob
    BY <1>4, <1>7 DEF SameList
  <2>3. ASSUME ~oob
        PROVE  x.recno <= Len(x.list) + 1 /\ (had \/ \A i \in DOMAIN x.list : x.list[i].CALL = "" => i = x.recno)
    <3>1. ~x.oob /\ inside
      BY <1>3, <2>3
    <3>2. OneBlank(x, had)
      BY <3>1
    <3>3. x.recno <= Len(x.list) + 1
      BY <2>1, <3>1
    <3> QED
      BY <3>2, <3>3 DEF OneBlank
  <2> HIDE DEF inside
  <2> QED
    BY <2>2, <2>3 DEF BlankHere
<1>9. /\ DialogInv(y, had) /\ y.list = x.list /\ y.recno = x.recno /\ y.newrec = x.newrec
      /\ ~y.oob <=> ~x.oob /\ x.recno \in DOMAIN x.list
  BY <1>3, <1>4, <1>7, <1>8 DEF SameList, DialogInv
<1> QED
  BY <1>9 DEF y, f

LEMMA AppendKeeps ==
  ASSUME NEW list, IsList(list), NEW r, NEW j \in 1..Len(list)
  PROVE  Append(list, r)[j] = list[j]
<1> DEFINE X == ToSet(list) \cup {r}
<1>1. list \in Seq(X) /\ r \in X
  BY DEF IsList
<1> HIDE DEF X
<1> QED
  BY <1>1

LEMMA NextOnly ==
  ASSUME NEW k \in Nat, NEW i \in 1..(k + 1), i > k \/ i \notin 1..k
  PROVE  i = k + 1
  OBVIOUS

LEMMA SetKeeps ==
  ASSUME NEW x, NEW had \in BOOLEAN, DialogInv(x, had), NEW n \in Nat
  PROVE  DialogInv(SetRecno(x, n), had)
<1> DEFINE t == TransferDataFromWindow(x, FALSE)
           a == t.x
           grow == n > Len(a.list)
           new == IF x.recno \in DOMAIN a.list THEN [a.list[x.recno] EXCEPT !.CALL = ""]
                  ELSE [a.rec EXCEPT !.CALL = ""]
           y == IF grow THEN [a EXCEPT !.newrec = Len(a.list) + 1, !.list = Append(@, new)] ELSE a
           z == [y EXCEPT !.recno = n]
<1>1. /\ DialogInv(a, had) /\ a.recno = x.recno /\ a.newrec = x.newrec
      /\ t.ok /\ ~a.oob => a.recno \in DOMAIN a.list /\ (had \/ ~HadBlank(a.list))
  BY WindowKeeps
<1>2. SetRecno(x, n) = IF ~Validate(x) THEN x ELSE IF ~t.ok THEN a
                       ELSE UpdateControls(TransferDataToWindow(Fetched(z)))
  BY DEF SetRecno
<1>3. CASE ~Validate(x) \/ ~t.ok
  <2> HIDE DEF z, a, t
  <2> QED
    BY <1>1, <1>2, <1>3
<1>4. CASE Validate(x) /\ t.ok
  <2>0. IsDialog(a) /\ a = [m \in Members |-> a[m]] /\ Len(a.list) \in Nat /\ DOMAIN a.list = 1..Len(a.list)
    BY <1>1, ListIs DEF DialogInv, IsDialog
  <2>1. IsRecord(new) /\ new.CALL = ""
    <3>1. IsRecord(a.rec) /\ \A i \in DOMAIN a.list : IsRecord(a.list[i])
      BY <2>0, ListIs DEF IsDialog
    <3>2. PICK e : e = ""
      OBVIOUS
    <3>3. ASSUME NEW r, IsRecord(r)
          PROVE  IsRecord([r EXCEPT !.CALL = e]) /\ [r EXCEPT !.CALL = e].CALL = e
      <4>1. IsRecord([r EXCEPT !.CALL = e])
        BY <3>3, RecordSets
      <4>2. [r EXCEPT !.CALL = e].CALL = e
        BY <3>3 DEF IsRecord
      <4> QED
        BY <4>1, <4>2
    <3> HIDE DEF a
    <3>4. CASE x.recno \in DOMAIN a.list
      BY <3>1, <3>2, <3>3, <3>4
    <3>5. CASE x.recno \notin DOMAIN a.list
      BY <3>1, <3>2, <3>3, <3>5
    <3> QED
      BY <3>4, <3>5
  <2> HIDE DEF new, t, a
  <2>2. IsDialog(z) /\ z.recno = n /\ z.oob = a.oob
        /\ z.list = IF grow THEN Append(a.list, new) ELSE a.list
    <3>1. CASE grow
      <4> DEFINE list == Append(a.list, new) num == Len(a.list) + 1
      <4>1. IsList(list) /\ num \in Nat
        <5>1. IsList(a.list)
          BY <2>0 DEF IsDialog
        <5>2. IsList(list)
          BY <2>1, <5>1, ListAppends
        <5> QED
          BY <2>0, <5>2
      <4>2. z = [a EXCEPT !.newrec = num, !.list = list, !.recno = n]
        BY <2>0, <3>1 DEF Members
      <4> HIDE DEF z, list, num
      <4>3. /\ z = [m \in Members |-> z[m]] /\ z.list = list /\ z.newrec = num /\ z.recno = n
            /\ z.rec = a.rec /\ z.sel = a.sel /\ z.ctl = a.ctl /\ z.oob = a.oob /\ SameFlags(a, z)
        BY <2>0, <4>2 DEF Members, SameFlags
      <4>4. IsDialog(z)
        BY <2>0, <4>1, <4>3 DEF IsDialog, SameFlags
      <4> QED
        BY <3>1, <4>3, <4>4 DEF list
    <3>2. CASE ~grow
      <4>1. z = [a EXCEPT !.recno = n]
        BY <3>2
      <4> HIDE DEF z
      <4>3. /\ z = [m \in Members |-> z[m]] /\ z.list = a.list /\ z.newrec = a.newrec /\ z.recno = n
            /\ z.rec = a.rec /\ z.sel = a.sel /\ z.ctl = a.ctl /\ z.oob = a.oob /\ SameFlags(a, z)
        BY <2>0, <4>1 DEF Members, SameFlags
      <4>4. IsDialog(z)
        BY <2>0, <4>3 DEF IsDialog, SameFlags
      <4> QED
        BY <3>2, <4>3, <4>4
    <3> QED
      BY <3>1, <3>2
  <2> HIDE DEF z
  <2>3. ~z.oob /\ z.recno \in DOMAIN z.list => OneBlank(z, had)
    <3> SUFFICES ASSUME ~a.oob, n \in DOMAIN z.list, ~had, NEW i \in DOMAIN z.list, z.list[i].CALL = ""
                 PROVE  i = n
      BY <2>2 DEF OneBlank
    <3>1. ~HadBlank(a.list)
      BY <1>1, <1>4
    <3>2. CASE grow
      <4>1. /\ z.list = Append(a.list, new) /\ DOMAIN z.list = 1..(Len(a.list) + 1)
            /\ \A j \in 1..Len(a.list) : z.list[j] = a.list[j]
        <5>1. IsList(a.list)
          BY <2>0 DEF IsDialog
        <5>a. PICK l, r : l = a.list /\ r = new /\ IsList(l) /\ IsRecord(r)
          BY <2>1, <5>1
        <5>b. IsList(Append(l, r)) /\ Len(Append(l, r)) = Len(l) + 1
          BY <5>a, ListAppends
        <5>c. ASSUME NEW j \in 1..Len(l) PROVE Append(l, r)[j] = l[j]
          BY <5>a, AppendKeeps
        <5>2. /\ IsList(Append(a.list, new)) /\ Len(Append(a.list, new)) = Len(a.list) + 1
              /\ \A j \in 1..Len(a.list) : Append(a.list, new)[j] = a.list[j]
          BY <5>a, <5>b, <5>c
        <5>3. z.list = Append(a.list, new)
          BY <2>2, <3>2
        <5>4. DOMAIN z.list = 1..Len(z.list)
          BY <5>2, <5>3, ListIs
        <5> QED
          BY <5>2, <5>3, <5>4
      <4>2. n = Len(a.list) + 1
        <5>1. n \in 1..(Len(a.list) + 1)
          BY <4>1
        <5> QED
          BY <2>0, <3>2, <5>1, NextOnly
      <4>3. i \notin 1..Len(a.list)
        BY <2>0, <3>1, <4>1 DEF HadBlank
      <4>4. i \in 1..(Len(a.list) + 1)
        BY <4>1
      <4>5. Len(a.list) \in Nat
        BY <2>0
      <4> QED
        BY <4>2, <4>3, <4>4, <4>5, NextOnly
    <3>3. CASE ~grow
      BY <2>2, <3>1, <3>3 DEF HadBlank
    <3> QED
      BY <3>2, <3>3
  <2>4. DialogInv(TransferDataToWindow(Fetched(z)), had)
    BY <2>2, <2>3, FetchShows
  <2>5. DialogInv(UpdateControls(TransferDataToWindow(Fetched(z))), had)
    BY <2>4, ControlsKeep
  <2> QED
    BY <1>2, <1>4, <2>5
<1> QED
  BY <1>3, <1>4

\* The button that adds a record is not in the invariant.
LEMMA AddKeeps ==
  ASSUME NEW x, NEW had, DialogInv(x, had), NEW add
  PROVE  DialogInv([x EXCEPT !.add = add], had)
<1> DEFINE y == [x EXCEPT !.add = add]
<1>2. IsDialog(x) /\ x = [n \in Members |-> x[n]]
  BY DEF DialogInv, IsDialog
<1>3. /\ y = [n \in Members |-> y[n]] /\ y.rec = x.rec /\ y.sel = x.sel /\ y.ctl = x.ctl
      /\ SameList(x, y) /\ SameFlags(x, y)
  BY <1>2 DEF SameList, SameFlags, Members
<1> HIDE DEF y
<1>4. IsDialog(y)
  BY <1>2, <1>3 DEF IsDialog, SameList, SameFlags
<1>5. Displays(y)
  <2>1. ASSUME NEW r, Mirrors(x, r) PROVE Mirrors(y, r)
    BY <1>3, <2>1 DEF Mirrors
  <2> QED
    BY <1>3, <2>1 DEF Displays, DialogInv, SameList, SameFlags
<1>6. BlankHere(y, had)
  BY <1>3 DEF BlankHere, DialogInv, SameList
<1> QED
  BY <1>4, <1>5, <1>6 DEF DialogInv, y

\* Naming the record that is being added does not change the list.
LEMMA NamedKeeps ==
  ASSUME NEW x, NEW had, DialogInv(x, had), Blank(x)
  PROVE  DialogInv(NamedNone(x), had) /\ SameList(x, NamedNone(x))
<1> DEFINE rec == [x.rec EXCEPT !.CALL = NONE] ctl == [x.ctl EXCEPT !.CALL = NONE]
           a == [x EXCEPT !.rec = rec, !.ctl = ctl]
           y == OnFieldChanged(a)
<1>0. IsDialog(x) /\ x = [n \in Members |-> x[n]] /\ IsRecord(x.rec) /\ x.recno = x.newrec
  BY DEF DialogInv, IsDialog, Blank
<1>1. NamedNone(x) = y
  BY <1>0 DEF NamedNone, Members
<1>2. IsRecord(rec) /\ ctl = [c \in Texts \cup Picks |-> ctl[c]]
  <2>1. PICK v : v = NONE
    OBVIOUS
  <2>2. IsRecord([x.rec EXCEPT !.CALL = v])
    BY <1>0, RecordSets
  <2>3. ctl = [c \in Texts \cup Picks |-> ctl[c]]
    BY <1>0 DEF IsDialog
  <2> QED
    BY <2>1, <2>2, <2>3
<1> HIDE DEF rec, ctl
<1>3. /\ a = [n \in Members |-> a[n]] /\ a.rec = rec /\ a.sel = x.sel /\ a.ctl = ctl
      /\ SameList(x, a) /\ SameFlags(x, a)
  BY <1>0 DEF SameList, SameFlags, Members
<1> HIDE DEF a
<1>4. IsDialog(a)
  BY <1>0, <1>2, <1>3 DEF IsDialog, SameList, SameFlags
<1>5. IsDialog(y) /\ SameList(a, y)
  BY <1>4, FieldChanges
<1> HIDE DEF y
<1>6. SameList(x, y)
  BY <1>3, <1>5 DEF SameList
<1>7. Displays(y)
  BY <1>0, <1>6 DEF SameList, Displays
<1>8. BlankHere(y, had)
  BY <1>6 DEF BlankHere, DialogInv, SameList
<1> QED
  BY <1>1, <1>5, <1>6, <1>7, <1>8 DEF DialogInv

\* Erasing the record on display leaves no record without a call sign.
LEMMA EraseKeeps ==
  ASSUME NEW x, NEW had, DialogInv(x, had)
  PROVE  LET y == Erase(x)
         IN  /\ IsDialog(y) /\ y.recno = x.recno /\ y.newrec = x.newrec
             /\ ~y.oob => /\ y.recno \in 1..(Len(y.list) + 1)
                          /\ had \/ ~HadBlank(y.list)
<1> DEFINE inside == x.recno \in DOMAIN x.list
           list == IF inside THEN RemoveAt(x.list, x.recno) ELSE Front(x.list)
           oob == x.oob \/ ~inside
           y == Erase(x)
<1>0. IsDialog(x) /\ x = [n \in Members |-> x[n]] /\ IsList(x.list)
  BY DEF DialogInv, IsDialog
<1>1. y = [x EXCEPT !.list = list, !.oob = oob]
  BY <1>0 DEF Erase, Members
<1>2. oob \in BOOLEAN /\ (~oob => inside /\ ~x.oob)
  BY <1>0 DEF IsDialog
<1>3. IsList(list)
  BY <1>0, FrontOfList, RemovedFromList
<1> HIDE DEF list, oob, y
<1>4. /\ y = [n \in Members |-> y[n]] /\ y.rec = x.rec /\ y.sel = x.sel /\ y.ctl = x.ctl
      /\ y.list = list /\ y.oob = oob /\ y.recno = x.recno /\ y.newrec = x.newrec /\ SameFlags(x, y)
  BY <1>0, <1>1 DEF SameFlags, Members
<1>5. IsDialog(y)
  BY <1>0, <1>2, <1>3, <1>4 DEF IsDialog, SameFlags
<1>6. ASSUME ~y.oob
      PROVE  y.recno \in 1..(Len(y.list) + 1) /\ (had \/ ~HadBlank(y.list))
  <2>1. inside /\ ~x.oob
    BY <1>2, <1>4, <1>6
  <2>2. list = RemoveAt(x.list, x.recno)
    BY <2>1 DEF list
  <2>3. /\ Len(list) = Len(x.list) - 1
        /\ \A j \in DOMAIN list : \E k \in DOMAIN x.list : k # x.recno /\ list[j] = x.list[k]
    <3> DEFINE new == RemoveAt(x.list, x.recno)
    <3>1. /\ Len(new) = Len(x.list) - 1
          /\ \A j \in DOMAIN new : \E k \in DOMAIN x.list : k # x.recno /\ new[j] = x.list[k]
      BY <1>0, <2>1, RemovedFromList
    <3> HIDE DEF new
    <3>2. list = new
      BY <2>2 DEF new
    <3> QED
      BY <3>1, <3>2
  <2>4. Len(x.list) \in Nat /\ x.recno \in 1..Len(x.list)
    BY <1>0, <2>1, ListIs
  <2>5. x.recno \in 1..(Len(list) + 1)
    BY <2>3, <2>4
  <2>6. had \/ \A i \in DOMAIN x.list : x.list[i].CALL = "" => i = x.recno
    BY <2>1 DEF DialogInv, BlankHere
  <2>7. had \/ ~HadBlank(list)
    BY <2>3, <2>6 DEF HadBlank
  <2> QED
    BY <1>4, <2>5, <2>7
<1> QED
  BY <1>4, <1>5, <1>6 DEF y

LEMMA RedisplayKeeps ==
  ASSUME NEW x, NEW had \in BOOLEAN, IsDialog(x),
         ~x.oob => x.recno \in 1..(Len(x.list) + 1) /\ (had \/ ~HadBlank(x.list))
  PROVE  DialogInv(Redisplayed(x), had)
<1> DEFINE some == IF x.list = <<>> THEN <<QSORecord>> ELSE x.list
           n == IF x.recno > Len(some) THEN Len(some) ELSE x.recno
           y == [x EXCEPT !.list = some, !.recno = n]
<1>0. x = [m \in Members |-> x[m]] /\ x.recno \in Nat /\ IsList(x.list)
  BY DEF IsDialog
<1>1. IsList(some) /\ (x.list = <<>> => Len(some) = 1 /\ DOMAIN some = {1})
  <2>1. CASE x.list = <<>>
    <3>1. <<QSORecord>> \in Seq({QSORecord}) /\ Len(<<QSORecord>>) = 1 /\ <<QSORecord>>[1] = QSORecord
      OBVIOUS
    <3>2. DOMAIN <<QSORecord>> = {1}
      OBVIOUS
    <3>3. IsSeq(<<QSORecord>>) /\ ToSet(<<QSORecord>>) = {QSORecord}
      BY <3>1, <3>2, OneIsSeq DEF ToSet
    <3>4. IsList(<<QSORecord>>)
      BY <3>3, BlankIsRecord DEF IsList, IsSeq
    <3> QED
      BY <2>1, <3>1, <3>2, <3>4
  <2>2. CASE x.list # <<>>
    BY <1>0, <2>2
  <2> QED
    BY <2>1, <2>2
<1>2. x.list # <<>> => some = x.list
  OBVIOUS
<1> HIDE DEF some
<1>3. Len(some) \in Nat /\ DOMAIN some = 1..Len(some) /\ n \in Nat
  BY <1>0, <1>1, ListIs
<1>4. /\ y = [m \in Members |-> y[m]] /\ y.rec = x.rec /\ y.sel = x.sel /\ y.ctl = x.ctl
      /\ y.list = some /\ y.oob = x.oob /\ y.recno = n /\ y.newrec = x.newrec /\ SameFlags(x, y)
  <2> HIDE DEF n
  <2> QED
    BY <1>0 DEF SameFlags, Members
<1> HIDE DEF y
<1>5. IsDialog(y)
  BY <1>1, <1>3, <1>4 DEF IsDialog, SameFlags
<1>6. ~y.oob /\ y.recno \in DOMAIN y.list => OneBlank(y, had)
  <2> SUFFICES ASSUME ~x.oob, n \in DOMAIN some, ~had, NEW i \in DOMAIN some, some[i].CALL = ""
               PROVE  i = n
    BY <1>4 DEF OneBlank
  <2>1. ~HadBlank(x.list)
    OBVIOUS
  <2>2. CASE x.list = <<>>
    <3>1. DOMAIN some = {1}
      BY <1>1, <2>2
    <3> HIDE DEF n
    <3> QED
      BY <3>1
  <2>3. CASE x.list # <<>>
    BY <1>2, <2>1, <2>3 DEF HadBlank
  <2> QED
    BY <2>2, <2>3
<1>7. DialogInv(TransferDataToWindow(Fetched(y)), had)
  BY <1>5, <1>6, FetchShows
<1> QED
  BY <1>7 DEF Redisplayed, y, some

\* A record at the end that is dropped.
LEMMA DropKeeps ==
  ASSUME NEW x, NEW had \in BOOLEAN, DialogInv(x, had), DropsLast(x)
  PROVE  DialogInv(Dropped(x), had) /\ (~Dropped(x).oob => had \/ ~HadBlank(Dropped(x).list))
<1> DEFINE list == Front(x.list) y == [x EXCEPT !.list = list]
<1>0. IsDialog(x) /\ x = [n \in Members |-> x[n]] /\ IsList(x.list) /\ x.recno = Len(x.list)
  BY DEF DialogInv, IsDialog, DropsLast
<1>1. Dropped(x) = y
  BY DEF Dropped
<1>2. /\ IsList(list)
      /\ x.list # <<>> =>
           /\ Len(list) = Len(x.list) - 1
           /\ \A i \in DOMAIN list : i \in DOMAIN x.list /\ i # Len(x.list) /\ list[i] = x.list[i]
  BY <1>0, FrontOfList
<1>3. x.list = <<>> => list = <<>>
  BY DEF Front
<1> HIDE DEF list
<1>4. /\ y = [n \in Members |-> y[n]] /\ y.rec = x.rec /\ y.sel = x.sel /\ y.ctl = x.ctl
      /\ y.list = list /\ y.oob = x.oob /\ y.recno = x.recno /\ y.newrec = x.newrec /\ SameFlags(x, y)
  BY <1>0 DEF SameFlags, Members
<1> HIDE DEF y
<1>5. IsDialog(y)
  BY <1>0, <1>2, <1>4 DEF IsDialog, SameFlags
<1>6. /\ Len(list) \in Nat /\ DOMAIN list = 1..Len(list) /\ Len(x.list) \in Nat
      /\ DOMAIN x.list = 1..Len(x.list)
  BY <1>0, <1>2, ListIs
<1>7. \A i \in DOMAIN list : i \in DOMAIN x.list /\ i # x.recno /\ list[i] = x.list[i]
  <2>1. CASE x.list = <<>>
    <3>1. DOMAIN list = {}
      BY <1>3, <2>1
    <3> QED
      BY <3>1
  <2>2. CASE x.list # <<>>
    BY <1>0, <1>2, <2>2
  <2> QED
    BY <2>1, <2>2
<1>8. Displays(y)
  BY <1>4, <1>7 DEF Displays
<1>9. x.recno <= Len(list) + 1
  <2>1. CASE x.list = <<>>
    BY <1>0, <1>6, <2>1
  <2>2. CASE x.list # <<>>
    BY <1>0, <1>2, <1>6, <2>2
  <2> QED
    BY <2>1, <2>2
<1>10. ~x.oob => had \/ \A i \in DOMAIN list : list[i].CALL # ""
  BY <1>7 DEF DialogInv, BlankHere
<1>11. BlankHere(y, had)
  BY <1>4, <1>9, <1>10 DEF BlankHere
<1>12. ~y.oob => had \/ ~HadBlank(y.list)
  BY <1>4, <1>10 DEF HadBlank
<1> QED
  BY <1>1, <1>5, <1>8, <1>11, <1>12 DEF DialogInv

-----------------------------------------------------------------------------
(* The handlers keep the invariant of the dialog.                           *)

LEMMA DownKeeps ==
  ASSUME NEW x, NEW had \in BOOLEAN, DialogInv(x, had)
  PROVE  DialogInv(OnRecDown(x), had)
<1> DEFINE y == IF Blank(x) THEN NamedNone(x) ELSE x
<1>1. DialogInv(y, had)
  BY NamedKeeps
<1>2. OnRecDown(x) = IF y.recno > 1 THEN SetRecno(y, y.recno - 1) ELSE y
  BY DEF OnRecDown
<1> HIDE DEF y
<1>3. y.recno \in Nat
  BY <1>1 DEF DialogInv, IsDialog
<1>4. CASE y.recno > 1
  <2>1. y.recno - 1 \in Nat
    BY <1>3, <1>4
  <2>2. DialogInv(SetRecno(y, y.recno - 1), had)
    BY <1>1, <2>1, SetKeeps
  <2> QED
    BY <1>2, <1>4, <2>2
<1>5. CASE ~(y.recno > 1)
  BY <1>1, <1>2, <1>5
<1> QED
  BY <1>4, <1>5

LEMMA UpKeeps ==
  ASSUME NEW x, NEW had \in BOOLEAN, DialogInv(x, had)
  PROVE  DialogInv(OnRecUp(x), had)
<1>1. x.recno + 1 \in Nat
  BY DEF DialogInv, IsDialog
<1> QED
  BY <1>1, SetKeeps DEF OnRecUp

LEMMA NewKeeps ==
  ASSUME NEW x, NEW had \in BOOLEAN, DialogInv(x, had)
  PROVE  DialogInv(OnRecNew(x), had)
<1>1. Len(x.list) + 1 \in Nat
  BY ListIs DEF DialogInv, IsDialog
<1> QED
  BY <1>1, SetKeeps DEF OnRecNew

\* The blank record that is being added is dropped before the first one is shown.
LEMMA BottomKeeps ==
  ASSUME NEW x, NEW had \in BOOLEAN, DialogInv(x, had)
  PROVE  DialogInv(OnRecBottom(x), had)
<1> DEFINE y == IF Blank(x) THEN Erase(NamedNone(x)) ELSE x
<1>1. DialogInv(y, had)
  <2>1. CASE Blank(x)
    <3> DEFINE n == NamedNone(x) e == Erase(n)
    <3>1. DialogInv(n, had) /\ SameList(x, n)
      BY <2>1, NamedKeeps
    <3> HIDE DEF n
    <3>2. /\ IsDialog(e) /\ e.recno = n.recno /\ e.newrec = n.newrec
          /\ ~e.oob => e.recno \in 1..(Len(e.list) + 1) /\ (had \/ ~HadBlank(e.list))
      BY <3>1, EraseKeeps
    <3> HIDE DEF e
    <3>3. Displays(e)
      BY <2>1, <3>1, <3>2 DEF Displays, SameList, Blank
    <3>4. Len(e.list) \in Nat
      BY <3>2, ListIs DEF IsDialog
    <3>5. ASSUME ~e.oob
          PROVE  e.recno <= Len(e.list) + 1
      BY <3>2, <3>4, <3>5
    <3>6. ASSUME ~e.oob, ~had, NEW i \in DOMAIN e.list, e.list[i].CALL = ""
          PROVE  i = e.recno
      BY <3>2, <3>6 DEF HadBlank
    <3>7. BlankHere(e, had)
      BY <3>5, <3>6 DEF BlankHere
    <3> QED
      BY <2>1, <3>2, <3>3, <3>7 DEF DialogInv, e, n
  <2>2. CASE ~Blank(x)
    BY <2>2
  <2> QED
    BY <2>1, <2>2
<1>2. OnRecBottom(x) = SetRecno(y, 1)
  BY DEF OnRecBottom
<1> HIDE DEF y
<1> QED
  BY <1>1, <1>2, SetKeeps

LEMMA TopKeeps ==
  ASSUME NEW x, NEW had \in BOOLEAN, DialogInv(x, had)
  PROVE  DialogInv(OnRecTop(x), had)
<1> DEFINE y == IF Blank(x) THEN Redisplayed(Erase(x)) ELSE x
           z == IF x.recno = x.newrec THEN [y EXCEPT !.add = TRUE] ELSE y
<1>1. DialogInv(y, had)
  <2>1. CASE Blank(x)
    <3> DEFINE e == Erase(x)
    <3>1. /\ IsDialog(e)
          /\ ~e.oob => e.recno \in 1..(Len(e.list) + 1) /\ (had \/ ~HadBlank(e.list))
      BY EraseKeeps
    <3> HIDE DEF e
    <3>2. DialogInv(Redisplayed(e), had)
      BY <3>1, RedisplayKeeps
    <3> QED
      BY <2>1, <3>2 DEF e
  <2>2. CASE ~Blank(x)
    BY <2>2
  <2> QED
    BY <2>1, <2>2
<1> HIDE DEF y
<1>2. DialogInv(z, had)
  <2>1. PICK add : add = TRUE
    OBVIOUS
  <2>2. DialogInv([y EXCEPT !.add = add], had)
    BY <1>1, AddKeeps
  <2> QED
    BY <1>1, <2>1, <2>2
<1>3. OnRecTop(x) = SetRecno(z, Len(z.list))
  BY DEF OnRecTop, y
<1> HIDE DEF z
<1>4. Len(z.list) \in Nat
  BY <1>2, ListIs DEF DialogInv, IsDialog
<1> QED
  BY <1>2, <1>3, <1>4, SetKeeps

LEMMA DeleteKeeps ==
  ASSUME NEW x, NEW had \in BOOLEAN, DialogInv(x, had)
  PROVE  DialogInv(OnRecDelete(x), had)
<1> DEFINE e == Erase(x)
<1>1. /\ IsDialog(e)
      /\ ~e.oob => e.recno \in 1..(Len(e.list) + 1) /\ (had \/ ~HadBlank(e.list))
  BY EraseKeeps
<1> HIDE DEF e
<1>2. DialogInv(Redisplayed(e), had)
  BY <1>1, RedisplayKeeps
<1>3. DialogInv(UpdateControls(Redisplayed(e)), had)
  BY <1>2, ControlsKeep
<1> QED
  BY <1>3 DEF OnRecDelete, e

\* OK leaves a list without a new blank record.
LEMMA OkKeeps ==
  ASSUME NEW x, NEW had \in BOOLEAN, DialogInv(x, had)
  PROVE  LET u == OkList(x)
         IN  /\ DialogInv(u.x, had)
             /\ u.ok /\ ~u.x.oob => had \/ ~HadBlank(u.x.list)
<1> DEFINE t == TransferDataFromWindow(x, TRUE).x
           u == TransferDataFromWindow(t, FALSE)
<1>1. DialogInv(t, had)
  BY WindowKeeps
<1>2. OkList(x) = IF DropsLast(t) THEN [ok |-> TRUE, x |-> Dropped(t)] ELSE u
  BY DEF OkList
<1> HIDE DEF t
<1>3. CASE DropsLast(t)
  <2>1. OkList(x).x = Dropped(t)
    BY <1>2, <1>3
  <2>2. DialogInv(Dropped(t), had) /\ (~Dropped(t).oob => had \/ ~HadBlank(Dropped(t).list))
    BY <1>1, <1>3, DropKeeps
  <2> QED
    BY <2>1, <2>2
<1>4. CASE ~DropsLast(t)
  <2>1. OkList(x) = u
    BY <1>2, <1>4
  <2>2. DialogInv(u.x, had) /\ (u.ok /\ ~u.x.oob => had \/ ~HadBlank(u.x.list))
    BY <1>1, WindowKeeps
  <2> HIDE DEF u
  <2> QED
    BY <2>1, <2>2
<1> QED
  BY <1>3, <1>4

\* A control is changed.
LEMMA ChangeKeeps ==
  ASSUME NEW x, NEW had, DialogInv(x, had), NEW c \in Texts \cup Picks, NEW v
  PROVE  LET y == [x EXCEPT !.ctl[c] = v, !.touched = TRUE]
         IN  DialogInv(y, had) /\ DialogInv(OnFieldChanged(y), had)
<1> DEFINE ctl == [x.ctl EXCEPT ![c] = v]
           y == [x EXCEPT !.ctl = ctl, !.touched = TRUE]
           z == OnFieldChanged(y)
<1>0. IsDialog(x) /\ x = [n \in Members |-> x[n]] /\ BlankHere(x, had)
  BY DEF DialogInv, IsDialog
<1>1. [x EXCEPT !.ctl[c] = v, !.touched = TRUE] = y
  BY <1>0 DEF Members
<1>2. ctl = [m \in Texts \cup Picks |-> ctl[m]]
  BY <1>0 DEF IsDialog
<1> HIDE DEF ctl
<1>3. /\ y = [n \in Members |-> y[n]] /\ y.rec = x.rec /\ y.sel = x.sel /\ y.ctl = ctl
      /\ SameList(x, y) /\ y.touched = TRUE /\ y.changed = x.changed
  BY <1>0 DEF SameList, Members
<1> HIDE DEF y
<1>4. IsDialog(y)
  BY <1>0, <1>2, <1>3 DEF IsDialog, SameList
<1>5. DialogInv(y, had)
  BY <1>0, <1>3, <1>4 DEF DialogInv, Displays, BlankHere, SameList
<1>6. IsDialog(z) /\ SameList(y, z) /\ SameFlags(y, z)
  BY <1>4, FieldChanges
<1> HIDE DEF z
<1>7. DialogInv(z, had)
  BY <1>3, <1>5, <1>6 DEF DialogInv, Displays, BlankHere, SameList, SameFlags
<1> QED
  BY <1>1, <1>5, <1>7 DEF z

-----------------------------------------------------------------------------
(* The invariant.                                                           *)

LEMMA HadIsBoolean == ASSUME NEW list PROVE HadBlank(list) \in BOOLEAN
  BY DEF HadBlank

LEMMA InitKeeps == Init => LogInv
  BY DEF Init, LogInv, Ended

\* Opening the dialog.
LEMMA ShowKeeps ==
  ASSUME NEW recs, IsList(recs), NEW sel, sel = [c \in Picks |-> sel[c]], Show(recs, sel)
  PROVE  LogInv'
<1> DEFINE new == recs = <<>>
           list == IF new THEN <<QSORecord>> ELSE recs
           num == IF new THEN 1 ELSE 0
           ctl == [c \in Texts \cup Picks |-> IF c \in Texts THEN "" ELSE Unset]
           x == [list |-> list, recno |-> 1, newrec |-> num, rec |-> list[1],
                 sel |-> sel, ctl |-> ctl, down |-> FALSE, up |-> FALSE, add |-> FALSE,
                 changed |-> FALSE, touched |-> FALSE, oob |-> FALSE]
           had == HadBlank(list)
<1>1. /\ d' = TransferDataToWindow(UpdateControls(x))
      /\ base' = list /\ at' = "edit" /\ ended' = ""
  BY DEF Show
<1>2. IsList(list) /\ 1 \in DOMAIN list /\ num \in Nat
  <2>1. CASE recs = <<>>
    <3>1. <<QSORecord>> \in Seq({QSORecord}) /\ DOMAIN <<QSORecord>> = {1} /\ <<QSORecord>>[1] = QSORecord
      OBVIOUS
    <3>2. IsSeq(<<QSORecord>>) /\ ToSet(<<QSORecord>>) = {QSORecord}
      BY <3>1, OneIsSeq DEF ToSet
    <3>3. IsList(<<QSORecord>>)
      BY <3>2, BlankIsRecord DEF IsList, IsSeq
    <3> QED
      BY <2>1, <3>1, <3>3
  <2>2. CASE recs # <<>>
    <3>1. recs \in Seq(ToSet(recs))
      BY DEF IsList
    <3>2. 1 \in DOMAIN recs
      BY <2>2, <3>1
    <3> QED
      BY <2>2, <3>2
  <2> QED
    BY <2>1, <2>2
<1>3. ctl = [c \in Texts \cup Picks |-> ctl[c]]
  OBVIOUS
<1> HIDE DEF list, num, ctl
<1>4. /\ x = [n \in Members |-> x[n]] /\ x.list = list /\ x.recno = 1 /\ x.newrec = num /\ x.rec = list[1]
      /\ x.sel = sel /\ x.ctl = ctl /\ x.changed = FALSE /\ x.touched = FALSE /\ x.oob = FALSE
  BY DEF Members
<1>a. x.touched \in BOOLEAN /\ x.oob \in BOOLEAN /\ x.changed \in BOOLEAN
  OBVIOUS
<1> HIDE DEF x
<1>5. IsDialog(x)
  <2>1. IsRecord(list[1])
    BY <1>2, ListIs
  <2>2. x.sel = [c \in Picks |-> x.sel[c]] /\ x.ctl = [c \in Texts \cup Picks |-> x.ctl[c]]
    BY <1>3, <1>4
  <2>3. IsList(x.list) /\ IsRecord(x.rec)
    BY <1>2, <1>4, <2>1
  <2>4. x.recno \in Nat /\ x.newrec \in Nat
    BY <1>2, <1>4
  <2> QED
    BY <1>4, <1>a, <2>2, <2>3, <2>4 DEF IsDialog
<1> DEFINE y == UpdateControls(x) z == TransferDataToWindow(y)
<1>6. IsDialog(y) /\ SameList(x, y) /\ y.rec = x.rec
  <2>1. PICK down, up, add : y = [x EXCEPT !.down = down, !.up = up, !.add = add]
    BY DEF UpdateControls
  <2> HIDE DEF y
  <2>2. /\ y = [n \in Members |-> y[n]] /\ y.rec = x.rec /\ y.sel = x.sel /\ y.ctl = x.ctl
        /\ SameList(x, y) /\ SameFlags(x, y)
    BY <1>4, <2>1 DEF SameList, SameFlags, Members
  <2>3. IsDialog(y)
    BY <1>5, <2>2 DEF IsDialog, SameList, SameFlags
  <2> QED
    BY <2>2, <2>3
<1>7. y.recno \in DOMAIN y.list => y.rec = y.list[y.recno]
  BY <1>4, <1>6 DEF SameList
<1> HIDE DEF y
<1>8. IsDialog(z) /\ Displays(z) /\ SameList(y, z)
  BY <1>6, <1>7, WindowShows
<1> HIDE DEF z
<1>9. BlankHere(z, had)
  <2>1. z.list = list /\ z.recno = 1
    BY <1>4, <1>6, <1>8 DEF SameList
  <2>2. Len(list) \in Nat
    BY <1>2, ListIs
  <2>3. 1 <= Len(list) + 1
    BY <2>2
  <2> QED
    BY <2>1, <2>3 DEF BlankHere, HadBlank
<1>10. d' = z
  BY <1>1 DEF z, y
<1>11. DialogInv(d', HadBlank(base'))
  BY <1>1, <1>8, <1>9, <1>10 DEF DialogInv
<1> QED
  BY <1>1, <1>11 DEF LogInv, Ended

LEMMA AfterKeeps ==
  ASSUME LogInv, NEW x, DialogInv(x, HadBlank(base)), After(x)
  PROVE  LogInv'
<1>1. d' = x /\ base' = base /\ at' \in {"edit", "gone"} /\ at = "edit"
  BY DEF After
<1> QED
  BY <1>1 DEF LogInv, Ended

\* A control is changed.
LEMMA TypeKeeps ==
  ASSUME LogInv, NEW c \in Texts \cup Picks, NEW v, TypeText(c, v) \/ Choose(c, v)
  PROVE  LogInv'
<1> DEFINE had == HadBlank(base) y == [d EXCEPT !.ctl[c] = v, !.touched = TRUE]
<1>1. /\ at = "edit" /\ at' = at /\ base' = base
      /\ d' = OnFieldChanged(y) \/ d' = y
  BY DEF TypeText, Choose
<1>2. DialogInv(d, had)
  BY <1>1 DEF LogInv
<1> HIDE DEF had
<1>3. DialogInv(y, had) /\ DialogInv(OnFieldChanged(y), had)
  BY <1>2, ChangeKeeps
<1>4. DialogInv(d', had)
  BY <1>1, <1>3
<1>5. HadBlank(base') = had
  BY <1>1 DEF had
<1>6. DialogInv(d', HadBlank(base'))
  BY <1>4, <1>5
<1> QED
  BY <1>1, <1>6 DEF LogInv, Ended

\* The dialog ends.
LEMMA EndKeeps ==
  ASSUME NEW x, NEW had, DialogInv(x, had), d' = x, NEW how, End(how),
         how \in {"ok", "saved"} /\ x.list # <<>> => file' = Written(x.list),
         how = "ok" /\ ~x.oob => HadBlank(base) \/ ~HadBlank(x.list)
  PROVE  LogInv'
<1>1. at' = "none" /\ ended' = how /\ base' = base
  BY DEF End
<1>2. IsList(x.list) /\ x.oob \in BOOLEAN
  BY DEF DialogInv, IsDialog
<1>3. HadBlank(base') = HadBlank(base) /\ HadBlank(d'.list) = HadBlank(x.list)
  BY <1>1
<1>4. Written(d'.list) = Written(x.list) /\ d'.list = x.list /\ d'.oob = x.oob
  OBVIOUS
<1>5. IsList(d'.list) /\ d'.oob \in BOOLEAN
  BY <1>2, <1>4
<1>6. ended' \in {"ok", "saved"} /\ d'.list # <<>> => file' = Written(d'.list)
  BY <1>1, <1>4
<1>7. ended' = "ok" /\ ~d'.oob => HadBlank(base') \/ ~HadBlank(d'.list)
  BY <1>1, <1>3, <1>4
<1>8. Ended'
  BY <1>5, <1>6, <1>7 DEF Ended
<1> QED
  BY <1>1, <1>8 DEF LogInv

LEMMA StepKeeps == LogInv /\ [Next]_vars => LogInv'
<1> SUFFICES ASSUME LogInv, [Next]_vars PROVE LogInv'
  OBVIOUS
<1> DEFINE had == HadBlank(base)
<1>1. had \in BOOLEAN
  BY HadIsBoolean
<1>2. at = "edit" => DialogInv(d, had)
  BY DEF LogInv
<1> HIDE DEF had
<1>3. CASE EditQSOData
  <2>1. PICK f \in Files, b \in ToSet(Bands) \cup {Unset}, s \in Sats \cup {"", Unset} :
          Show(LoadQSOfile(f), [MODE |-> Unset, BAND |-> b, PROP |-> Unset, SAT |-> s])
    BY <1>3 DEF EditQSOData
  <2> DEFINE sel == [MODE |-> Unset, BAND |-> b, PROP |-> Unset, SAT |-> s]
  <2>2. sel = [c \in Picks |-> sel[c]] /\ Show(LoadQSOfile(f), sel)
    BY <2>1 DEF Picks
  <2> HIDE DEF sel
  <2>3. IsList(LoadQSOfile(f))
    BY FilesAssumption, LoadIsList
  <2> QED
    BY <2>2, <2>3, ShowKeeps
<1>4. CASE EnterQSOData
  <2> DEFINE sel == [c \in Picks |-> Unset]
  <2>0. PICK none : none = <<>>
    OBVIOUS
  <2>1. Show(none, sel) /\ sel = [c \in Picks |-> sel[c]]
    BY <1>4, <2>0 DEF EnterQSOData
  <2> HIDE DEF sel
  <2>2. IsList(none)
    BY <2>0, NoList
  <2> QED
    BY <2>1, <2>2, ShowKeeps
<1>5. ASSUME NEW c \in Texts \cup Picks, NEW v, TypeText(c, v) \/ Choose(c, v)
      PROVE  LogInv'
  BY <1>5, TypeKeeps
<1>6. CASE Down
  <2>1. at = "edit" /\ After(OnRecDown(d))
    BY <1>6 DEF Down
  <2>2. DialogInv(OnRecDown(d), had)
    BY <1>1, <1>2, <2>1, DownKeeps
  <2> QED
    BY <2>1, <2>2, AfterKeeps DEF had
<1>7. CASE Up
  <2>1. at = "edit" /\ After(OnRecUp(d))
    BY <1>7 DEF Up
  <2>2. DialogInv(OnRecUp(d), had)
    BY <1>1, <1>2, <2>1, UpKeeps
  <2> QED
    BY <2>1, <2>2, AfterKeeps DEF had
<1>8. CASE Bottom
  <2>1. at = "edit" /\ After(OnRecBottom(d))
    BY <1>8 DEF Bottom
  <2>2. DialogInv(OnRecBottom(d), had)
    BY <1>1, <1>2, <2>1, BottomKeeps
  <2> QED
    BY <2>1, <2>2, AfterKeeps DEF had
<1>9. CASE Top
  <2>1. at = "edit" /\ After(OnRecTop(d))
    BY <1>9 DEF Top
  <2>2. DialogInv(OnRecTop(d), had)
    BY <1>1, <1>2, <2>1, TopKeeps
  <2> QED
    BY <2>1, <2>2, AfterKeeps DEF had
<1>10. CASE AddQSO
  <2>1. at = "edit" /\ After(OnRecNew(d))
    BY <1>10 DEF AddQSO
  <2>2. DialogInv(OnRecNew(d), had)
    BY <1>1, <1>2, <2>1, NewKeeps
  <2> QED
    BY <2>1, <2>2, AfterKeeps DEF had
<1>11. CASE DeleteQSO
  <2>1. at = "edit" /\ After(OnRecDelete(d))
    BY <1>11 DEF DeleteQSO
  <2>2. DialogInv(OnRecDelete(d), had)
    BY <1>1, <1>2, <2>1, DeleteKeeps
  <2> QED
    BY <2>1, <2>2, AfterKeeps DEF had
<1>12. CASE OnOk
  <2> DEFINE u == OkList(d)
  <2>1. DialogInv(u.x, had) /\ (u.ok /\ ~u.x.oob => had \/ ~HadBlank(u.x.list))
    BY <1>1, <1>2, <1>12, OkKeeps DEF OnOk
  <2>2. \/ u.ok /\ WriteQSOFile(u.x) /\ d' = u.x /\ End("ok")
        \/ After(u.x)
    BY <1>12 DEF OnOk
  <2> HIDE DEF u
  <2>3. CASE u.ok /\ WriteQSOFile(u.x) /\ d' = u.x /\ End("ok")
    <3>0. PICK how : how = "ok"
      OBVIOUS
    <3>1. u.x.list # <<>> => file' = Written(u.x.list)
      BY <2>3 DEF WriteQSOFile
    <3>2. ~u.x.oob => HadBlank(base) \/ ~HadBlank(u.x.list)
      BY <2>1, <2>3 DEF had
    <3> QED
      BY <2>1, <2>3, <3>0, <3>1, <3>2, EndKeeps
  <2>4. CASE After(u.x)
    BY <2>1, <2>4, AfterKeeps DEF had
  <2> QED
    BY <2>2, <2>3, <2>4
<1>13. CASE OnCancel
  <2>0. PICK how : how = "cancel"
    OBVIOUS
  <2>1. at = "edit" /\ End(how) /\ d' = d
    BY <1>13, <2>0 DEF OnCancel
  <2> QED
    BY <1>2, <2>0, <2>1, EndKeeps
<1>14. CASE OnClose
  <2> DEFINE t == TransferDataFromWindow(d, TRUE).x
  <2>1. DialogInv(t, had)
    BY <1>1, <1>2, <1>14, WindowKeeps DEF OnClose
  <2>2. \/ d' = t /\ End("silent")
        \/ d' = Dropped(t) /\ \E how \in {"silent", "discarded", "failed"} : End(how)
        \/ d' = Dropped(t) /\ End("saved") /\ WriteQSOFile(Dropped(t))
    BY <1>14 DEF OnClose
  <2> HIDE DEF t
  <2>3. DialogInv(Dropped(t), had)
    <3>1. CASE DropsLast(t)
      BY <1>1, <2>1, <3>1, DropKeeps
    <3>2. CASE ~DropsLast(t)
      BY <2>1, <3>2 DEF Dropped
    <3> QED
      BY <3>1, <3>2
  <2> DEFINE x == Dropped(t)
  <2> HIDE DEF x
  <2>4. \E y : /\ d' = y /\ DialogInv(y, had)
               /\ \/ \E how : how \notin {"ok", "saved"} /\ End(how)
                  \/ End("saved") /\ WriteQSOFile(y)
    BY <2>1, <2>2, <2>3
  <2>5. PICK y : /\ d' = y /\ DialogInv(y, had)
                 /\ \/ \E how : how \notin {"ok", "saved"} /\ End(how)
                    \/ End("saved") /\ WriteQSOFile(y)
    BY <2>4
  <2>6. CASE \E how : how \notin {"ok", "saved"} /\ End(how)
    <3>1. PICK how : how \notin {"ok", "saved"} /\ End(how)
      BY <2>6
    <3> QED
      BY <2>5, <3>1, EndKeeps
  <2>7. CASE End("saved") /\ WriteQSOFile(y)
    <3>0. PICK how : how = "saved"
      OBVIOUS
    <3>1. y.list # <<>> => file' = Written(y.list)
      BY <2>7 DEF WriteQSOFile
    <3> QED
      BY <2>5, <2>7, <3>0, <3>1, EndKeeps
  <2> QED
    BY <2>5, <2>6, <2>7
<1>15. CASE UNCHANGED vars
  BY <1>15 DEF vars, LogInv, Ended
<1> QED
  BY <1>3, <1>4, <1>5, <1>6, <1>7, <1>8, <1>9, <1>10, <1>11, <1>12, <1>13, <1>14, <1>15
     DEF Next, Texts, Picks

\* What taking the controls over says is changed, and the record it takes over.
LEMMA WindowRecord ==
  ASSUME NEW x, IsDialog(x), x.recno \in DOMAIN x.list, NEW isend
  PROVE  LET p == PullTexts(x)
             t == TransferDataFromWindow(x, isend)
         IN  /\ t.ok \in BOOLEAN
             /\ p.rec = x.rec => t.x.changed = x.changed
             /\ t.ok => t.x.rec = [p.rec EXCEPT !.MODE = p.sel.MODE, !.BAND = p.sel.BAND,
                                     !.PROP = IF p.sel.PROP = Unset THEN "" ELSE p.sel.PROP,
                                     !.SAT = IF p.sel.SAT = Unset THEN "" ELSE p.sel.SAT]
<1> DEFINE p == PullTexts(x)
           rec == [p.rec EXCEPT !.MODE = p.sel.MODE, !.BAND = p.sel.BAND,
                                !.PROP = IF p.sel.PROP = Unset THEN "" ELSE p.sel.PROP,
                                !.SAT = IF p.sel.SAT = Unset THEN "" ELSE p.sel.SAT]
           changed == x.changed \/ p.rec # x.rec
           ch == [p EXCEPT !.changed = changed]
           left == [ch EXCEPT !.rec.MODE = p.sel.MODE]
           done == [ch EXCEPT !.rec = rec]
           stored == [done EXCEPT !.list[x.recno] = rec]
           t == TransferDataFromWindow(x, isend)
<1>1. t = IF p.sel.BAND = Unset THEN [ok |-> FALSE, x |-> left]
          ELSE IF ~Accepts(rec, isend) THEN [ok |-> FALSE, x |-> done]
          ELSE [ok |-> TRUE, x |-> stored]
  BY DEF TransferDataFromWindow
<1>2. IsDialog(p) /\ p = [n \in Members |-> p[n]]
  BY Pulls DEF IsDialog
<1>3. p.rec = x.rec => changed = x.changed
  BY DEF IsDialog
<1> HIDE DEF p, rec, changed, t
<1>4. ch = [n \in Members |-> ch[n]] /\ ch.changed = changed
  BY <1>2 DEF Members
<1> HIDE DEF ch
<1>8. left.changed = changed
  BY <1>4 DEF Members
<1> HIDE DEF left
<1>5. done = [n \in Members |-> done[n]] /\ done.changed = changed /\ done.rec = rec
  BY <1>4 DEF Members
<1> HIDE DEF done
<1>6. stored.changed = changed /\ stored.rec = rec
  BY <1>5 DEF Members
<1> HIDE DEF stored
<1>7. t.ok \in BOOLEAN /\ t.x.changed = changed /\ (t.ok => t.x.rec = rec)
  <2>1. CASE p.sel.BAND = Unset
    <3>1. t = [ok |-> FALSE, x |-> left]
      BY <1>1, <2>1
    <3> QED
      BY <1>8, <3>1
  <2>2. CASE p.sel.BAND # Unset /\ ~Accepts(rec, isend)
    <3>1. t = [ok |-> FALSE, x |-> done]
      BY <1>1, <2>2
    <3> QED
      BY <1>5, <3>1
  <2>3. CASE p.sel.BAND # Unset /\ Accepts(rec, isend)
    <3>1. t = [ok |-> TRUE, x |-> stored]
      BY <1>1, <2>3
    <3> QED
      BY <1>6, <3>1
  <2> QED
    BY <2>1, <2>2, <2>3
<1> QED
  BY <1>3, <1>7 DEF t, rec, p

\* The list after taking the controls over.
LEMMA WindowStores ==
  ASSUME NEW x, IsDialog(x), Displays(x), x.recno \in DOMAIN x.list, NEW isend, NEW t,
         t = TransferDataFromWindow(x, isend)
  PROVE  /\ ~t.ok => t.x.list = x.list
         /\ t.ok => t.x.list = [x.list EXCEPT ![x.recno] = t.x.rec]
<1> DEFINE new(r) == [x.list EXCEPT ![x.recno] = r]
           y == TransferDataFromWindow(x, isend).x
           ok == TransferDataFromWindow(x, isend).ok
<1>1. /\ IsDialog(y) /\ Displays(y)
      /\ y.recno = x.recno /\ y.newrec = x.newrec /\ y.ctl = x.ctl
      /\ ~ok => y.list = x.list /\ y.oob = x.oob
      /\ ok /\ x.recno \in DOMAIN x.list =>
           /\ y.list = new(y.rec) /\ y.oob = x.oob
           /\ isend \/ y.rec.CALL # ""
      /\ ok /\ x.recno \notin DOMAIN x.list => y.list = x.list /\ y.oob
  BY WindowTakes, Zenon
<1> QED
  BY <1>1

\* Leaving a record the controls mirror, whose values the choices offer, stores what
\* the list has.
LEMMA MirrorStays ==
  ASSUME NEW x, IsDialog(x), Displays(x), x.recno \in DOMAIN x.list,
         Mirrors(x, x.list[x.recno]), Listed(x.list[x.recno]), NEW isend
  PROVE  LET t == TransferDataFromWindow(x, isend)
         IN  t.x.list = x.list /\ t.x.changed = x.changed
<1> DEFINE r == x.list[x.recno]
           N == {"CALL", "BAND", "MODE", "FREQ", "PROP", "SAT", "DATE", "extra"}
           p == PullTexts(x)
           t == TransferDataFromWindow(x, isend)
           u == IF p.sel.PROP = Unset THEN "" ELSE p.sel.PROP
           v == IF p.sel.SAT = Unset THEN "" ELSE p.sel.SAT
           date == IF x.ctl.DATE = "" THEN x.rec.DATE ELSE x.ctl.DATE
           rec == [p.rec EXCEPT !.MODE = p.sel.MODE, !.BAND = p.sel.BAND, !.PROP = u, !.SAT = v]
<1>1. /\ p.sel = [c \in Picks |-> x.ctl[c]]
      /\ p.rec = Rec(x.ctl.CALL, x.rec.BAND, x.rec.MODE, x.ctl.FREQ, x.rec.PROP, x.rec.SAT, date, x.rec.extra)
  BY Pulls
<1>2. /\ x.rec.CALL = r.CALL /\ x.rec.FREQ = r.FREQ /\ x.rec.DATE = r.DATE /\ x.rec.extra = r.extra
      /\ x.ctl.CALL = r.CALL /\ x.ctl.FREQ = r.FREQ /\ date = r.DATE
      /\ x.ctl.MODE = r.MODE /\ x.ctl.BAND = r.BAND
      /\ Chosen(x.ctl.PROP) = r.PROP /\ Chosen(x.ctl.SAT) = r.SAT
  BY DEF Mirrors, Listed
<1>3. p.sel.MODE = r.MODE /\ p.sel.BAND = r.BAND /\ u = r.PROP /\ v = r.SAT
  BY <1>1, <1>2 DEF Picks, Chosen
<1>4. /\ t.ok \in BOOLEAN
      /\ p.rec = x.rec => t.x.changed = x.changed
      /\ t.ok => t.x.rec = rec
  BY WindowRecord
<1>5. IsRecord(x.rec) /\ IsRecord(r) /\ IsList(x.list)
  BY ListIs DEF IsDialog
<1> HIDE DEF p, u, v, date, r, rec
<1>a. /\ ~t.ok => t.x.list = x.list
      /\ t.ok => t.x.list = [x.list EXCEPT ![x.recno] = t.x.rec]
  <2>1. t = TransferDataFromWindow(x, isend)
    OBVIOUS
  <2> HIDE DEF t
  <2> QED
    BY <2>1, WindowStores
<1> USE DEF r, rec
<1>6. p.rec = x.rec
  BY <1>1, <1>2, <1>5, RecordIs
<1>7. rec = r
  <2>0. p.rec = [n \in N |-> p.rec[n]] /\ r = [n \in N |-> r[n]]
    BY <1>5, <1>6 DEF IsRecord
  <2>1. rec = [n \in N |-> rec[n]]
    BY <2>0
  <2>2. /\ rec.CALL = r.CALL /\ rec.BAND = r.BAND /\ rec.MODE = r.MODE /\ rec.FREQ = r.FREQ
        /\ rec.PROP = r.PROP /\ rec.SAT = r.SAT /\ rec.DATE = r.DATE /\ rec.extra = r.extra
    BY <1>2, <1>3, <1>6, <2>0
  <2> HIDE DEF rec, r
  <2> QED
    BY <2>0, <2>1, <2>2
<1> HIDE DEF rec, t
<1>8. t.x.list = x.list
  <2>2. [x.list EXCEPT ![x.recno] = r] = x.list
    BY <1>5 DEF IsList
  <2> QED
    BY <1>4, <1>7, <1>a, <2>2
<1> QED
  BY <1>4, <1>6, <1>8 DEF t

-----------------------------------------------------------------------------
(* The theorems.                                                            *)

\* Whatever files are opened and however the editor is used: the dialog is well formed,
\* an untouched record on display is the one in the list, a record without a call sign
\* that was not in the file is on display, and a dialog that ended has written its list.
THEOREM LogInvariant == Spec => []LogInv
<1>1. Init => LogInv
  BY InitKeeps
<1>2. LogInv /\ [Next]_vars => LogInv'
  BY StepKeeps
<1> QED
  BY <1>1, <1>2, PTL DEF Spec

\* What the editor saved is read again as the records it held (WriteQSOFile,
\* loadQSOfile): for every file, mode table and list.
THEOREM SavedIsRead == Spec => []SavedReadsBack
<1>1. LogInv => SavedReadsBack
  <2> SUFFICES ASSUME LogInv, at = "none", ended \in {"ok", "saved"}, d.list # <<>>,
                      \A i \in DOMAIN d.list : Fits(d.list[i])
               PROVE  LoadQSOfile(file) = [i \in DOMAIN Kept(d.list) |-> Canonical(Kept(d.list)[i])]
    BY DEF SavedReadsBack
  <2>1. IsList(d.list) /\ file = Written(d.list)
    BY DEF LogInv, Ended
  <2>2. LoadQSOfile(Written(d.list)) = [i \in DOMAIN Kept(d.list) |-> Canonical(Kept(d.list)[i])]
    BY <2>1, ReadBack
  <2> QED
    BY <2>1, <2>2
<1> QED
  BY <1>1, LogInvariant, PTL

\* OK writes no record without a call sign unless the file had one.
THEOREM NoNewBlank == Spec => []NoBlankWritten
<1>1. LogInv => NoBlankWritten
  BY DEF LogInv, Ended, NoBlankWritten, HadBlank
<1> QED
  BY <1>1, LogInvariant, PTL

\* Looking at an old record and leaving it stores the record the list has, whatever was
\* displayed before it (TransferDataToWindow, OnFieldChanged, TransferDataFromWindow).
THEOREM LookingKeeps == Spec => []ViewKeeps
<1>1. LogInv => ViewKeeps
  <2> SUFFICES ASSUME LogInv, at = "edit", ~d.touched, d.recno \in DOMAIN d.list \ {d.newrec},
                      Listed(d.list[d.recno])
               PROVE  LET t == TransferDataFromWindow(d, FALSE)
                      IN  t.x.list = d.list /\ t.x.changed = d.changed
    BY DEF ViewKeeps
  <2>1. IsDialog(d) /\ Displays(d)
    BY DEF LogInv, DialogInv
  <2>2. Mirrors(d, d.list[d.recno])
    BY <2>1 DEF Displays
  <2> QED
    BY <2>1, <2>2, MirrorStays
<1> QED
  BY <1>1, LogInvariant, PTL
=============================================================================
