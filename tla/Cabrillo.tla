------------------------------- MODULE Cabrillo -------------------------------
(***************************************************************************)
(* The Cabrillo reader (src/cabrillo.cpp) and the loop of the converter    *)
(* that takes its fields (tqsl_getConverterGABBI).  The reader keeps its   *)
(* place between calls: the line, the index of the next field, and the     *)
(* column of the call worked, which for a contest nobody defined is        *)
(* guessed from a QSO line.                                                *)
(*                                                                         *)
(* A line is a record: its tag in capitals, what may be wrong with it, the *)
(* first five columns by what they hold, and rest, the columns from the    *)
(* sixth, each known by what it looks like (a call, a grid of 4 or 6        *)
(* characters, a number or a word).  Frequencies are in kHz, times in HHMM,*)
(* -1 for a text that is not digits.                                       *)
(***************************************************************************)
EXTENDS Integers, Sequences, FiniteSets, FiniteSetsExt

CONSTANTS
  Logs,        \* the files: sequences of lines
  ConfigContests, \* config.xml: <<contest, column of the call>>, in order
  UserContests,   \* the user's own, as the wxConfig holds them
  ModeFiles    \* the lines <<mode, ADIF mode>> of cab_modes.dat, the shipped file, then the user's

ASSUME LogsAssumption == \A f \in Logs : Len(f) \in Nat /\ DOMAIN f = 1..Len(f)

MAX_FIELDS == 12
MIN_CABRILLO_MAP_FIELD == 5

VARIABLES
  log,         \* the file that is open
  st,          \* "none", "open", "refused", "eof"
  contest,     \* its name
  pos,         \* line_no
  idx,         \* field_idx; 0 for -1, so fields are numbered from 1
  live,        \* datap is not null
  loc,         \* contest->fields[0].loc + 1: the column of the call, 0: not known
  rec,         \* the record of the converter
  partial,     \* ~rec_done: the next call takes rec as a record that was read
  saveErr,     \* the date or the time of the line in hand was refused
  out,         \* the records delivered, with the line each ended on
  bad          \* the complaints: the line of each

vars == <<log, st, contest, pos, idx, live, loc, rec, partial, saveErr, out, bad>>

-----------------------------------------------------------------------------
(* Frequencies: n is the number strtol finds, txt the text as it is.       *)

Ranges ==
  { <<1800, 2000, "160M">>, <<3500, 4000, "80M">>, <<7000, 7300, "40M">>, <<10100, 10150, "30M">>,
    <<14000, 14350, "20M">>, <<18068, 18168, "17M">>, <<21000, 21450, "15M">>,
    <<24890, 24990, "12M">>, <<28000, 29700, "10M">>,
    <<50, 50, "6M">>, <<70, 70, "4M">>, <<144, 144, "2M">>, <<222, 222, "1.25M">>,
    <<432, 432, "70CM">>, <<902, 903, "33CM">> }

\* The texts that name a band, with the frequency freq_to_mhz gives; 0: none.
Named ==
  { <<{"1.2G", "1.2"}, "23CM", 1240000>>, <<{"2.3G", "2.3"}, "13CM", 2300000>>,
    <<{"3.4G", "3.4"}, "9CM", 3300000>>, <<{"5.7G", "5.7"}, "6CM", 5650000>>,
    <<{"10G", "10"}, "3CM", 10000000>>, <<{"24G", "24"}, "1.25CM", 24000000>>,
    <<{"47G", "47"}, "6MM", 47000000>>, <<{"75G", "75", "76G", "76"}, "4MM", 75500000>>,
    <<{"119G", "119"}, "2.5MM", 119980000>>, <<{"122G", "122", "123G", "123"}, "2.5MM", 0>>,
    <<{"142G", "142"}, "2MM", 142000000>>, <<{"134G", "134"}, "2MM", 0>>,
    <<{"241G", "241", "242G", "242"}, "1MM", 241000000>>, <<{"300G", "300"}, "SUBMM", 300000000>> }

CTBands == {<<7, "7">>, <<14, "14">>, <<21, "21">>, <<28, "28">>}

\* freq_to_band: "" when there is none.
freq_to_band(f) ==
  LET n == IF <<f.n, f.txt>> \in CTBands THEN f.n * 1000 ELSE f.n
      in == {r \in Ranges : r[1] <= n /\ n <= r[2]}
      named == {t \in Named : f.txt \in t[1]}
  IN  IF f.txt = "light" THEN "SUBMM"
      ELSE IF in # {} THEN (CHOOSE r \in in : TRUE)[3]
      ELSE IF named # {} THEN (CHOOSE t \in named : TRUE)[2] ELSE ""

\* freq_to_mhz, in kHz; light stays as it is.
freq_to_mhz(f) ==
  LET whole == {<<50, "50">>, <<70, "70">>, <<144, "144">>, <<222, "222">>, <<432, "432">>, <<902, "902">>}
      named == {t \in Named : f.txt \in t[1] /\ t[3] # 0}
  IN  IF f.txt = "light" THEN -1
      ELSE IF <<f.n, f.txt>> \in whole THEN f.n * 1000
      ELSE IF f.txt = "903" THEN 902000
      ELSE IF named # {} THEN (CHOOSE t \in named : TRUE)[3]
      ELSE IF f.n \in {7, 14, 21, 28} THEN f.n * 1000 ELSE f.n

-----------------------------------------------------------------------------
(* What the files of the program say of contests and modes.                *)

\* A map filled from pairs: a later pair replaces an earlier one of the same key.
Filled(pairs) ==
  [k \in {pairs[i][1] : i \in DOMAIN pairs} |-> pairs[Max({i \in DOMAIN pairs : pairs[i][1] = k})][2]]

Sensible(pair) == pair[2] > MIN_CABRILLO_MAP_FIELD

\* init_cabrillo_map, and init_contests through tqsl_setCabrilloMapEntry.
tqsl_cabrillo_map == Filled(SelectSeq(ConfigContests, LAMBDA e : e[1] # "" /\ Sensible(e)))
tqsl_cabrillo_user_map == Filled(SelectSeq(UserContests, Sensible))

\* tqsl_getCabrilloMapEntry: the column of the call, 0 when the contest is not defined.
\* A column of grids would be packed into the same number; no entry of config.xml has
\* one, nor has any the user makes.
CallField(name) ==
  IF name \in DOMAIN tqsl_cabrillo_user_map THEN tqsl_cabrillo_user_map[name]
  ELSE IF name \in DOMAIN tqsl_cabrillo_map THEN tqsl_cabrillo_map[name] ELSE 0

\* mode_xlat: the modes it knows itself, those of the shipped file, those of the user's.
CabModes ==
  Filled(<<<<"CW", "CW">>, <<"PH", "SSB">>, <<"FM", "FM">>, <<"RY", "RTTY">>, <<"DG", "DATA">>>>
         \o SelectSeq(ModeFiles[1] \o ModeFiles[2], LAMBDA e : e[1] # "" /\ e[2] # ""))

-----------------------------------------------------------------------------
(* The lines.                                                              *)

\* tqsl_parse_cabrillo_record: a line without a colon, or with a name that is too
\* long, is none.
Tag(line) == IF line.flaw \in {"colon", "name"} THEN "" ELSE line.tag

\* The first line after p with one of these tags; 0: none.
NextLine(p, tags) ==
  LET found == {i \in DOMAIN log : i > p /\ Tag(log[i]) \in tags} IN IF found = {} THEN 0 ELSE Min(found)

\* tqsl_beginCabrillo.  A CONTEST line that names none is passed over.
Start(f) ==
  LET s == {i \in DOMAIN f : Tag(f[i]) = "START-OF-LOG"}
      c == {i \in DOMAIN f : i > Min(s) /\ Tag(f[i]) = "CONTEST" /\ f[i].name # ""}
  IN  IF s = {} THEN [err |-> "NO_START_RECORD", at |-> 0]
      ELSE IF c = {} THEN [err |-> "NO_CONTEST_RECORD", at |-> 0]
      ELSE [err |-> "", at |-> Min(c)]

NoRecord == [CALL |-> "", BAND |-> "", MODE |-> "", QSO_DATE |-> "", TIME_ON |-> -1, FREQ |-> -2, MYCALL |-> ""]

Init ==
  /\ log = <<>> /\ st = "none" /\ contest = "" /\ pos = 0 /\ idx = 0 /\ live = FALSE /\ loc = 0
  /\ rec = NoRecord /\ partial = FALSE /\ saveErr = FALSE /\ out = <<>> /\ bad = <<>>

BeginCabrillo ==
  /\ st = "none"
  /\ \E f \in Logs :
       /\ log' = f
       /\ IF Start(f).err # "" THEN st' = "refused" /\ UNCHANGED <<contest, pos, loc>>
          ELSE /\ st' = "open" /\ pos' = Start(f).at /\ contest' = f[pos'].name
               /\ loc' = CallField(contest')
  /\ UNCHANGED <<idx, live, rec, partial, saveErr, out, bad>>

-----------------------------------------------------------------------------
(* tqsl_getCabrilloField.                                                  *)

\* The fields in the order they are delivered: cabrillo_dummy.
FieldNames == <<"CALL", "BAND", "MODE", "QSO_DATE", "TIME_ON", "FREQ", "MYCALL">>

Column(line, c) == IF c < 6 \/ c > 5 + Len(line.rest) THEN "" ELSE line.rest[c - 5].v

\* The columns of a kind.
Looking(line, kinds) == {c \in 7..MAX_FIELDS : c <= 5 + Len(line.rest) /\ line.rest[c - 5].looks \in kinds}

\* Those taken for a call.  A grid of six characters is: the test for one looks at
\* the text after the loop has moved past its end.
Candidates(line) == Looking(line, {"call", "grid6"})

\* The column used for line, and whether it is refused.  The guess outlives a
\* refusal for want of a unique one.
Guess(line) ==
  IF loc # 0 THEN [loc |-> loc, err |-> ""]
  ELSE IF Candidates(line) = {} THEN [loc |-> 0, err |-> "UNKNOWN_CONTEST"]
  ELSE [loc |-> Min(Candidates(line)),
        err |-> IF Cardinality(Candidates(line)) > 1 THEN "UNKNOWN_CONTEST" ELSE ""]

\* What the i-th field of line is, or that it is not acceptable.
Value(line, i, c) ==
  CASE FieldNames[i] = "CALL"     -> [ok |-> Column(line, c) # "", v |-> Column(line, c)]
    [] FieldNames[i] = "BAND"     -> [ok |-> freq_to_band(line.freq) # "", v |-> freq_to_band(line.freq)]
    [] FieldNames[i] = "MODE"     -> [ok |-> line.mode \in DOMAIN CabModes,
                                      v |-> IF line.mode \in DOMAIN CabModes THEN CabModes[line.mode] ELSE ""]
    [] FieldNames[i] = "QSO_DATE" -> [ok |-> TRUE, v |-> line.date]
    [] FieldNames[i] = "TIME_ON"  -> [ok |-> line.time >= 0, v |-> line.time]   \* time_fixer
    [] FieldNames[i] = "FREQ"     -> [ok |-> TRUE, v |-> freq_to_mhz(line.freq)]
    [] FieldNames[i] = "MYCALL"   -> [ok |-> TRUE, v |-> line.mycall]

\* A date tqsl_initDate refuses, or a time tqsl_initTime does.
Spoils(line, i) ==
  \/ FieldNames[i] = "QSO_DATE" /\ line.flaw = "date"
  \/ FieldNames[i] = "TIME_ON" /\ (line.time \div 100 > 23 \/ line.time % 100 > 59)

EndOfRecord(i) == i > Len(FieldNames)

\* Mutant: the line is not given up.
LiveAfterErrorStill == TRUE

\* "Ignore this": what is left of datap after an error.
LiveAfterError == FALSE

\* One call: the line it is about, the next QSO line when the last one is finished
\* or was given up, and the field of it that the converter takes.  The converter
\* clears its record for a new line; after an error it returns with the record as it
\* is and not marked as done.  A date or a time it cannot take it reports only when
\* the line has been read to its end.
GetCabrilloField ==
  LET fresh == ~live \/ idx = 0 \/ EndOfRecord(idx)
      p == IF fresh THEN NextLine(pos, {"QSO", "END-OF-LOG"}) ELSE pos
      i == IF fresh THEN 1 ELSE idx
      line == log[p]
      g == IF i = 1 THEN Guess(line) ELSE [loc |-> loc, err |-> ""]
      val == Value(line, i, g.loc)
      took == [(IF i = 1 THEN NoRecord ELSE rec) EXCEPT ![FieldNames[i]] = val.v]
      spoilt == saveErr \/ Spoils(line, i)
      ends == EndOfRecord(i + 1)
  IN  /\ st = "open" /\ ~partial
      /\ IF p = 0 \/ Tag(log[p]) = "END-OF-LOG"
         THEN st' = "eof" /\ UNCHANGED <<pos, idx, live, loc, rec, partial, saveErr, out, bad>>
         ELSE /\ st' = st /\ pos' = p /\ loc' = g.loc
              /\ IF g.err # "" \/ ~val.ok
                 THEN live' = LiveAfterError /\ idx' = i /\ bad' = Append(bad, p) /\ saveErr' = FALSE
                      /\ partial' = TRUE /\ rec' = (IF i = 1 THEN NoRecord ELSE rec) /\ out' = out
                 ELSE /\ live' = TRUE /\ idx' = i + 1 /\ rec' = took /\ partial' = partial
                      /\ saveErr' = (spoilt /\ ~ends)
                      /\ out' = IF ends /\ ~spoilt THEN Append(out, [line |-> p, rec |-> took]) ELSE out
                      /\ bad' = IF ends /\ spoilt THEN Append(bad, p) ELSE bad
      /\ UNCHANGED <<log, contest>>

\* Mutant: the time is not asked for.
MissingNoTime(r) == r.CALL = "" \/ (r.BAND = "" /\ r.FREQ = -2) \/ r.MODE = "" \/ r.QSO_DATE = ""

\* The elements a contact must have.
Missing(r) ==
  r.CALL = "" \/ (r.BAND = "" /\ r.FREQ = -2) \/ r.MODE = "" \/ r.QSO_DATE = "" \/ r.TIME_ON = -1

\* The next call of the converter after an error: nothing is read, and the record
\* that was given up is examined.  What it lacks is a second complaint about the line.
TakePartial ==
  /\ st = "open" /\ partial
  /\ partial' = FALSE
  /\ IF Missing(rec) THEN bad' = Append(bad, pos) /\ out' = out
     ELSE out' = Append(out, [line |-> pos, rec |-> rec]) /\ bad' = bad
  /\ UNCHANGED <<log, st, contest, pos, idx, live, loc, rec, saveErr>>

Next == BeginCabrillo \/ GetCabrilloField \/ TakePartial

Spec == Init /\ [][Next]_vars

-----------------------------------------------------------------------------
(* Properties.                                                             *)

\* The QSO lines up to p, from the one that names the contest on: what is above
\* it tqsl_beginCabrillo passes over without a word.
QSOLines(p) == {i \in (Start(log).at + 1)..p : Tag(log[i]) = "QSO"}

\* Up to line p: the line the column of the call is guessed from, and that a grid was
\* taken for a call in it.
GuessedFrom(p) == Min({i \in QSOLines(p) : Candidates(log[i]) # {}})
GridInGuess(p) == CallField(contest) = 0 /\ Looking(log[GuessedFrom(p)], {"grid6"}) # {}

\* The column of the call in line p: that of the contest's definition, or for a
\* contest without one the first that holds a call in the first QSO line that has one.
CallsIn(line) == Looking(line, {"call"})
ColumnOf(p) ==
  IF CallField(contest) # 0 THEN CallField(contest)
  ELSE Min(CallsIn(log[Min({i \in QSOLines(p) : CallsIn(log[i]) # {}})]))

Delivered == {out[k].line : k \in DOMAIN out}
Refused == {bad[k] : k \in DOMAIN bad}

\* The fields that are those of the line: all seven, but the call when the column was
\* guessed from a line with a grid of six characters.  The code takes that for a call
\* although it means not to ("Gridsquare. Don't use it.", src/src/cabrillo.cpp:735).
Sound(p) == IF GridInGuess(p) THEN DOMAIN NoRecord \ {"CALL"} ELSE DOMAIN NoRecord

\* Each record the converter is given is one line of the log with a date and a time:
\* its fields are those of that line, also when the line before was given up half way
\* (tqsl_getCabrilloField and tqsl_getConverterGABBI keep what they have read); a line
\* given up half way is not taken for a contact by the call after; and the call is in
\* the column of the contest, or in the first that held a call in a line before,
\* whatever lines were refused.
RecordIsLine ==
  \A k \in DOMAIN out :
    LET line == log[out[k].line]
    IN  /\ Tag(line) = "QSO" /\ \A i \in DOMAIN FieldNames : ~Spoils(line, i)
        /\ \A n \in Sound(out[k].line) :
             out[k].rec[n] = Value(line, CHOOSE i \in DOMAIN FieldNames : FieldNames[i] = n,
                                   ColumnOf(out[k].line)).v

\* No contact is lost or doubled by an error in the middle of a line: every QSO line
\* below the header that the reader has passed was delivered as one record, or was
\* complained about and not delivered; none after END-OF-LOG was.  The complaints
\* come in the order of the lines, and there are two of a line at most, the error in
\* a field and what the record then lacks (tqsl_getConverterGABBI).
EachLineAccounted ==
  /\ \A j, k \in DOMAIN out : j < k => out[j].line < out[k].line
  /\ \A j, k \in DOMAIN bad : j < k => bad[j] <= bad[k]
  /\ \A j, k \in DOMAIN bad : j + 1 < k => bad[j] < bad[k]
  /\ Delivered \cap Refused = {}
  /\ st = "eof" => Delivered \cup Refused = QSOLines(pos)
                   /\ \A i \in QSOLines(Len(log)) :
                        i > pos => \E e \in pos+1..i : Tag(log[e]) = "END-OF-LOG"
===============================================================================
