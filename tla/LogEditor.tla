------------------------------ MODULE LogEditor ------------------------------
(***************************************************************************)
(* The QSO editor (apps/qsodatadialog.cpp): an ADIF file is read           *)
(* (loadQSOfile over tqsl_adifGetField), shown record by record in one     *)
(* dialog and written back.  The record on display lives in four copies:   *)
(* in the list, in the member rec, in the selection members (_mode, _band, *)
(* _propmode, _satellite) and in the controls; moving between records      *)
(* copies them one way and the other.                                      *)
(*                                                                         *)
(* Texts are strings of the model.  Date and time are one field: "" is the *)
(* empty date, Bad one whose parts are numbers out of range.  Receive band *)
(* and frequency, handled as band and frequency are, are left out.  One    *)
(* dialog is modelled: only the file outlives it.                          *)
(***************************************************************************)
EXTENDS Naturals, Sequences, SequencesExt, FiniteSets, Selection

CONSTANTS
  Files,       \* the files that may be opened: sequences of ADIF fields
  ConfigModes, \* the adifmode elements of config.xml: adifmode, submode, gabbi and elem, the text
  Alphabet,    \* the names of modes as std::sort orders them
  Bands,       \* valid_bands
  Sats,        \* valid_satellites, without the entry for none
  FreqBand,    \* FreqBand[f]: the band that holds a frequency
  CallTexts,   \* what is typed as a call sign
  FreqTexts,   \* what is typed as a frequency
  Long,        \* texts longer than the reader takes (TQSL_CALLSIGN_MAX, TQSL_FREQ_MAX) or,
               \* in a field it does not know, than the writer's buffer holds with its name
  MaxRecs,     \* bound: records in the list
  MaxEdits     \* bound: changes the user makes to controls

NONE == "NONE"
Unset == "unset"     \* a wxChoice without a selection
Bad == "bad"

VARIABLES
  file,        \* the file on disk, a sequence of fields; <<>>: none
  at,          \* "none", "edit" or "gone": the program has crashed
  d,           \* the dialog
  base,        \* the list when the dialog was opened
  ended,       \* how the dialog last ended
  edits        \* changes made so far

vars == <<file, at, d, base, ended, edits>>

-----------------------------------------------------------------------------
(* The modes: init_adif_map.                                               *)

\* A map filled from a sequence of maps: a later one replaces an earlier one.
Merged(maps) == FoldLeft(LAMBDA m, n : n @@ m, <<>>, maps)

\* The mode an entry is for: entries with just a text are for that.
EntryMode(e) == IF e.adifmode = "" THEN e.elem ELSE e.adifmode

\* tqsl_adif_map: the LoTW mode of a mode, a submode or a text.  Keys that join mode
\* and submode are left out: the editor asks for none.
ModeMap ==
  Merged([i \in DOMAIN ConfigModes |->
            LET e == ConfigModes[i]
            IN  [n \in (IF e.gabbi = "" THEN {} ELSE {EntryMode(e), e.submode, e.elem} \ {""}) |-> e.gabbi]])

\* tqsl_adif_submode_map: mode and submode of a text.
SubModeMap ==
  Merged([i \in DOMAIN ConfigModes |->
            LET e == ConfigModes[i]
            IN  [n \in (IF e.adifmode # "" /\ e.submode # "" THEN {e.elem} ELSE {}) |-> <<e.adifmode, e.submode>>]])

\* tqsl_adif_mode_map, which valid_modes takes over in its order.
Modes == SelectSeq(Alphabet, LAMBDA m : \E i \in DOMAIN ConfigModes : ConfigModes[i].elem = m)

-----------------------------------------------------------------------------
(* ADIF fields: name, value, and the flaw that makes the reader refuse it. *)

Flaws == {"name", "size", "length", "type", "cut"}

ASSUME FilesAssumption ==
  \A f \in Files : f \in Seq([n : STRING, v : STRING, flaw : Flaws \cup {"none"}])

\* In config.xml the text of an element with a submode is the submode, and it has a
\* mode; the names of modes are short.
ASSUME ModesAssumption ==
  \A m \in DOMAIN SubModeMap :
    SubModeMap[m][2] = m /\ SubModeMap[m][1] \notin Long /\ m \in DOMAIN ModeMap

ASSUME ShortAssumption == "" \notin Long

\* A choice without a selection shows no satellite.
ASSUME SatsAssumption == Unset \notin Sats

\* A field as the editor writes it: no control limits what is typed.
Field(n, v) == [n |-> n, v |-> v, flaw |-> IF v \in Long THEN "length" ELSE "none"]

\* tqsl_adifGetField: a name or size that is too long, more data than the field
\* may hold, a type that is not listed, or the end of the file in the middle.
GetField(f) ==
  CASE f.flaw = "name"   -> "NAME_LENGTH_OVERFLOW"
    [] f.flaw = "size"   -> "SIZE_OVERFLOW"
    [] f.flaw = "length" -> "DATA_LENGTH_OVERFLOW"
    [] f.flaw = "type"   -> "NO_TYPE_MATCH"
    [] f.flaw = "cut"    -> "EOF"
    [] OTHER             -> "SUCCESS"

\* A record as it is constructed.
QSORecord == [CALL |-> "", BAND |-> "160M", MODE |-> "CW", FREQ |-> "", PROP |-> "", SAT |-> "",
              DATE |-> "", extra |-> <<>>]

\* tqsl_getADIFMode, when it finds one.
ADIFMode(m, other) == IF m \in DOMAIN ModeMap THEN ModeMap[m] ELSE other

\* _extraFields, a map from names to texts.
SetExtra(extra, n, v) == [m \in DOMAIN extra \cup {n} |-> IF m = n THEN v ELSE extra[m]]

\* What loadQSOfile does with one field.
TakeField(rec, f) ==
  CASE f.n = "MODE"    -> [rec EXCEPT !.MODE = ADIFMode(f.v, f.v)]
    [] f.n = "SUBMODE" -> [rec EXCEPT !.MODE = ADIFMode(f.v, @)]
    [] f.n = "EOH"     -> [rec EXCEPT !.extra = <<>>]
    [] f.n \in DOMAIN rec \ {"MODE", "extra"} -> [rec EXCEPT ![f.n] = f.v]
    [] OTHER           -> [rec EXCEPT !.extra = SetExtra(@, f.n, f.v)]

\* The loop of loadQSOfile: it stops at the first field that is refused, and
\* drops a record that has no EOR.
ReadField(s, f) ==
  IF s.stop \/ GetField(f) # "SUCCESS" THEN [s EXCEPT !.stop = TRUE]
  ELSE IF f.n = "EOR" THEN [s EXCEPT !.recs = Append(@, s.rec), !.rec = QSORecord]
  ELSE [s EXCEPT !.rec = TakeField(@, f)]

NothingRead == [recs |-> <<>>, rec |-> QSORecord, stop |-> FALSE]

LoadQSOfile(fields) == FoldLeft(ReadField, NothingRead, fields).recs

\* tqsl_adifMakeField of an optional field.
MakeField(n, v) == IF v = "" THEN <<>> ELSE <<Field(n, v)>>

\* Mutant: the submode goes before the mode.
ModeFieldsSwapped(m) ==
  IF m \in DOMAIN SubModeMap
  THEN <<Field("SUBMODE", SubModeMap[m][2]), Field("MODE", SubModeMap[m][1])>>
  ELSE <<Field("MODE", m)>>

\* tqsl_getADIFSubMode; the submode is written twice.
ModeFields(m) ==
  IF m \in DOMAIN SubModeMap
  THEN <<Field("MODE", SubModeMap[m][1]), Field("SUBMODE", SubModeMap[m][2]),
         Field("SUBMODE", SubModeMap[m][2])>>
  ELSE <<Field("MODE", m)>>

\* The fields the editor does not know, without those that do not fit in buf.
Unlost(extra) == [n \in {m \in DOMAIN extra : extra[m] \notin Long} |-> extra[n]]

RecordFields(r) ==
  <<Field("CALL", r.CALL), Field("BAND", r.BAND)>> \o ModeFields(r.MODE)
    \o <<Field("DATE", r.DATE)>> \o MakeField("FREQ", r.FREQ)
    \o MakeField("PROP", r.PROP) \o MakeField("SAT", r.SAT)
    \o SetToSeq({Field(n, r.extra[n]) : n \in DOMAIN Unlost(r.extra)}) \o <<Field("EOR", "")>>

\* WriteQSOFile, once the file is open: a record called NONE is skipped.
Kept(recs) == Only(recs, {i \in DOMAIN recs : recs[i].CALL # NONE})
Written(recs) == FlattenSeq([i \in DOMAIN Kept(recs) |-> RecordFields(Kept(recs)[i])])

-----------------------------------------------------------------------------
(* The dialog d: list, recno and newrec (_newrec, 0 for none), rec, the    *)
(* selections sel, the controls ctl, which buttons are enabled, changed    *)
(* (_something_changed), touched: a control was changed since the record   *)
(* was displayed, and oob: the list was accessed outside its bounds.       *)

Texts == {"CALL", "FREQ", "DATE"}
Picks == {"MODE", "BAND", "PROP", "SAT"}

\* wxDialog::TransferDataFromWindow: a text that is no date is not taken.
PullTexts(x) ==
  [x EXCEPT !.rec.CALL = x.ctl.CALL, !.rec.FREQ = x.ctl.FREQ,
            !.rec.DATE = IF x.ctl.DATE = "" THEN @ ELSE x.ctl.DATE,
            !.sel = [c \in Picks |-> x.ctl[c]]]

\* OnFieldChanged, which every change of a text calls.  On the record that is
\* being added it pulls the controls, sets the band of the frequency, and
\* decides whether another record may be added.
OnFieldChanged(x) ==
  IF x.newrec = 0 THEN [x EXCEPT !.add = TRUE]
  ELSE IF x.newrec # x.recno THEN [x EXCEPT !.add = FALSE]
  ELSE LET p == PullTexts(x)
           band == IF p.rec.FREQ \in DOMAIN FreqBand THEN FreqBand[p.rec.FREQ] ELSE p.sel.BAND
       IN  [p EXCEPT !.sel.BAND = band, !.ctl.BAND = band,
                     !.add = p.ctl.CALL \notin {"", NONE} /\ p.ctl.DATE # ""]

\* TQSLDateValidator::ToString.
Shown(c, v) == IF c = "DATE" /\ v = Bad THEN "" ELSE v

\* Mutant: a record without a satellite leaves the selection alone.
SelectedStale(x, c) ==
  LET listed == CASE c = "MODE" -> ToSet(Modes) [] c = "BAND" -> ToSet(Bands)
                  [] c = "PROP" -> {"SAT"} [] c = "SAT" -> Sats
  IN  IF x.rec[c] \in listed THEN x.rec[c] ELSE IF c = "MODE" THEN Modes[1] ELSE x.sel[c]

\* What TransferDataToWindow selects: an unknown mode becomes the first one, an
\* unknown band, propagation mode or satellite leaves the last selection.
SelectedFor(x, c) ==
  LET listed == CASE c = "MODE" -> ToSet(Modes) [] c = "BAND" -> ToSet(Bands)
                  [] c = "PROP" -> {"", "SAT"} [] c = "SAT" -> {""} \cup Sats
  IN  IF x.rec[c] \in listed THEN x.rec[c] ELSE IF c = "MODE" THEN Modes[1] ELSE x.sel[c]

\* TransferDataToWindow.  Setting the text of the call sign, the first control,
\* calls OnFieldChanged when the other controls still show the record before.
TransferDataToWindow(x) ==
  LET sel  == [x EXCEPT !.sel = [c \in Picks |-> SelectedFor(x, c)], !.touched = FALSE,
                        !.ctl.BAND = IF x.rec.BAND \in ToSet(Bands) THEN x.rec.BAND ELSE @]
      call == OnFieldChanged([sel EXCEPT !.ctl.CALL = x.rec.CALL])
      rest == [call EXCEPT !.ctl = [c \in Texts \cup Picks |->
                 IF c \in Texts THEN Shown(c, call.rec[c]) ELSE call.sel[c]]]
  IN  OnFieldChanged(rest)

\* Mutant: a record may always be blank.
AcceptsBlank(rec, isend) ==
  /\ rec.FREQ = "" \/ (rec.FREQ \in DOMAIN FreqBand /\ FreqBand[rec.FREQ] = rec.BAND)
  /\ (rec.PROP = "SAT") <=> (rec.SAT # "")

\* The checks of TransferDataFromWindow, once rec is filled.
Accepts(rec, isend) ==
  /\ rec.FREQ = "" \/ (rec.FREQ \in DOMAIN FreqBand /\ FreqBand[rec.FREQ] = rec.BAND)
  /\ isend \/ rec.CALL # ""
  /\ (rec.PROP = "SAT") <=> (rec.SAT # "")

\* TransferDataFromWindow: the dialog after it, ok being its result.  Only the
\* texts count as a change.
TransferDataFromWindow(x, isend) ==
  LET p   == PullTexts(x)
      ch  == [p EXCEPT !.changed = x.changed \/ p.rec # x.rec]
      rec == [p.rec EXCEPT !.MODE = p.sel.MODE, !.BAND = p.sel.BAND,
                           !.PROP = IF p.sel.PROP = Unset THEN "" ELSE p.sel.PROP,
                           !.SAT = IF p.sel.SAT = Unset THEN "" ELSE p.sel.SAT]
      done == [ch EXCEPT !.rec = rec]
  IN  IF p.sel.BAND = Unset THEN [ok |-> FALSE, x |-> [ch EXCEPT !.rec.MODE = p.sel.MODE]]
      ELSE IF ~Accepts(rec, isend) THEN [ok |-> FALSE, x |-> done]
      ELSE [ok |-> TRUE,
            x |-> IF x.recno \in DOMAIN x.list THEN [done EXCEPT !.list[x.recno] = rec]
                  ELSE [done EXCEPT !.oob = TRUE]]

\* Validate: the validators of the controls, that is of the date.
Validate(x) == x.ctl.DATE \notin {"", Bad}

UpdateControls(x) ==
  [x EXCEPT !.down = x.recno > 1, !.up = x.recno < Len(x.list), !.add = x.newrec = 0]

\* rec = (*_reclist)[_recno - 1], which past the end of the list may do anything.
Fetched(x) ==
  LET inside == x.recno \in DOMAIN x.list
  IN  [x EXCEPT !.rec = IF inside THEN x.list[x.recno] ELSE @, !.oob = @ \/ ~inside]

\* SetRecno: nothing happens unless the record on display passes.
SetRecno(x, n) ==
  LET t == TransferDataFromWindow(x, FALSE)
      grow == n > Len(t.x.list)
      new == IF x.recno \in DOMAIN t.x.list THEN [t.x.list[x.recno] EXCEPT !.CALL = ""]
             ELSE [t.x.rec EXCEPT !.CALL = ""]
      y == IF grow THEN [t.x EXCEPT !.newrec = Len(t.x.list) + 1, !.list = Append(@, new)] ELSE t.x
  IN  IF ~Validate(x) THEN x
      ELSE IF ~t.ok THEN t.x
      ELSE UpdateControls(TransferDataToWindow(Fetched([y EXCEPT !.recno = n])))

\* Leaving the blank record that is being added calls it NONE.
NamedNone(x) == OnFieldChanged([x EXCEPT !.rec.CALL = NONE, !.ctl.CALL = NONE])
Blank(x) == x.recno = x.newrec /\ x.rec.CALL = ""

OnRecDown(x) ==
  LET y == IF Blank(x) THEN NamedNone(x) ELSE x
  IN  IF y.recno > 1 THEN SetRecno(y, y.recno - 1) ELSE y

OnRecUp(x) == SetRecno(x, x.recno + 1)

\* _reclist->erase of the record on display.  Past the end of the list that may do
\* anything; what std::vector does, it drops the last record.
Erase(x) ==
  LET inside == x.recno \in DOMAIN x.list
  IN  [x EXCEPT !.list = IF inside THEN RemoveAt(@, x.recno) ELSE Front(@), !.oob = @ \/ ~inside]

OnRecBottom(x) == SetRecno(IF Blank(x) THEN Erase(NamedNone(x)) ELSE x, 1)

\* After a record was erased, the one at its place is displayed, or the last.
Redisplayed(x) ==
  LET some == IF x.list = <<>> THEN <<QSORecord>> ELSE x.list
      n == IF x.recno > Len(some) THEN Len(some) ELSE x.recno
  IN  TransferDataToWindow(Fetched([x EXCEPT !.list = some, !.recno = n]))

OnRecTop(x) ==
  LET y == IF Blank(x) THEN Redisplayed(Erase(x)) ELSE x
      z == IF x.recno = x.newrec THEN [y EXCEPT !.add = TRUE] ELSE y
  IN  SetRecno(z, Len(z.list))

OnRecNew(x) == SetRecno(x, Len(x.list) + 1)

OnRecDelete(x) == UpdateControls(Redisplayed(Erase(x)))

\* A blank record at the end is dropped before the list is saved.
DropsLast(x) == x.rec.CALL = "" /\ x.recno = Len(x.list)
Dropped(x) == IF DropsLast(x) THEN [x EXCEPT !.list = Front(@)] ELSE x

-----------------------------------------------------------------------------
(* The actions.                                                            *)

Init ==
  /\ file = <<>> /\ at = "none" /\ base = <<>> /\ ended = "" /\ edits = 0
  /\ d = [list |-> <<>>, recno |-> 0]

\* The constructor.  The selection members are not initialised: they hold
\* anything, which a choice shows as one of its entries or as none.
Show(recs, sel) ==
  LET new == recs = <<>>
      list == IF new THEN <<QSORecord>> ELSE recs
      x == [list |-> list, recno |-> 1, newrec |-> IF new THEN 1 ELSE 0, rec |-> list[1],
            sel |-> sel, ctl |-> [c \in Texts \cup Picks |-> IF c \in Texts THEN "" ELSE Unset],
            down |-> FALSE, up |-> FALSE, add |-> FALSE, changed |-> FALSE,
            touched |-> FALSE, oob |-> FALSE]
  IN  /\ d' = TransferDataToWindow(UpdateControls(x))
      /\ base' = list
      /\ at' = "edit" /\ ended' = ""

\* EditQSOData.
EditQSOData ==
  /\ at = "none" /\ ended = ""
  /\ \E f \in Files, b \in ToSet(Bands) \cup {Unset}, s \in Sats \cup {"", Unset} :
       /\ file' = f
       /\ Show(LoadQSOfile(f), [MODE |-> Unset, BAND |-> b, PROP |-> Unset, SAT |-> s])
  /\ UNCHANGED edits

\* EnterQSOData.
EnterQSOData ==
  /\ at = "none" /\ ended = ""
  /\ file' = <<>>
  /\ Show(<<>>, [c \in Picks |-> Unset])
  /\ UNCHANGED edits

\* The dialog after a handler: an access outside the list may have been without
\* further effect or have crashed the program.
After(x) ==
  /\ at = "edit"
  /\ \/ d' = x /\ at' = at
     \/ x.oob /\ ~d.oob /\ d' = x /\ at' = "gone"
  /\ UNCHANGED <<file, base, ended, edits>>

\* A text is edited; a selection is changed, of which nothing is told.
TypeText(c, v) ==
  /\ at = "edit" /\ edits < MaxEdits /\ d.ctl[c] # v
  /\ d' = OnFieldChanged([d EXCEPT !.ctl[c] = v, !.touched = TRUE])
  /\ edits' = edits + 1
  /\ UNCHANGED <<file, at, base, ended>>

Choose(c, v) ==
  /\ at = "edit" /\ edits < MaxEdits /\ d.ctl[c] # v
  /\ d' = [d EXCEPT !.ctl[c] = v, !.touched = TRUE]
  /\ edits' = edits + 1
  /\ UNCHANGED <<file, at, base, ended>>

Down == at = "edit" /\ d.down /\ After(OnRecDown(d))
Up == at = "edit" /\ d.up /\ After(OnRecUp(d))
Bottom == at = "edit" /\ d.down /\ After(OnRecBottom(d))
Top == at = "edit" /\ d.up /\ After(OnRecTop(d))
AddQSO == at = "edit" /\ d.add /\ Len(d.list) < MaxRecs /\ After(OnRecNew(d))
DeleteQSO == at = "edit" /\ After(OnRecDelete(d))

End(how) == at' = "none" /\ ended' = how /\ UNCHANGED <<base, edits>>

\* WriteQSOFile: an empty list is not written, and that is a success.
WriteQSOFile(x) == file' = IF x.list = <<>> THEN file ELSE Written(x.list)

\* OnOk: the record is taken twice, first as one that may be blank.
OkList(x) ==
  LET t == TransferDataFromWindow(x, TRUE).x
      u == TransferDataFromWindow(t, FALSE)
  IN  IF DropsLast(t) THEN [ok |-> TRUE, x |-> Dropped(t)] ELSE u

OnOk ==
  /\ at = "edit" /\ Validate(d)
  /\ LET u == OkList(d) IN
       \/ u.ok /\ WriteQSOFile(u.x) /\ d' = u.x /\ End("ok")
       \/ (u.ok => u.x.list # <<>>) /\ After(u.x)   \* refused, no file chosen or not opened

OnCancel == at = "edit" /\ End("cancel") /\ UNCHANGED <<file, d>>

\* OnClose: nothing is asked unless something has changed, and whether the file
\* was written does not matter.
OnClose ==
  /\ at = "edit"
  /\ LET t == TransferDataFromWindow(d, TRUE).x
         x == Dropped(t)
     IN  IF ~t.changed THEN d' = t /\ End("silent") /\ UNCHANGED file
         ELSE /\ d' = x
              /\ IF x.list = <<>> THEN End("silent") /\ UNCHANGED file
                 ELSE \/ End("discarded") /\ UNCHANGED file
                      \/ End("saved") /\ WriteQSOFile(x)
                      \/ End("failed") /\ UNCHANGED file

Next ==
  \/ EditQSOData \/ EnterQSOData
  \/ \E v \in CallTexts : TypeText("CALL", v)
  \/ \E v \in FreqTexts : TypeText("FREQ", v)
  \/ \E v \in {"", Bad, "2020"} : TypeText("DATE", v)
  \/ \E v \in ToSet(Modes) : Choose("MODE", v)
  \/ \E v \in ToSet(Bands) : Choose("BAND", v)
  \/ \E v \in {"", "SAT"} : Choose("PROP", v)
  \/ \E v \in Sats \cup {""} : Choose("SAT", v)
  \/ Down \/ Up \/ Bottom \/ Top \/ AddQSO \/ DeleteQSO
  \/ OnOk \/ OnCancel \/ OnClose

Spec == Init /\ [][Next]_vars

-----------------------------------------------------------------------------
(* Properties.                                                             *)

\* A record as the reader gives it back: its mode or submode is mapped.
Canonical(r) == [r EXCEPT !.MODE = ADIFMode(@, @), !.extra = Unlost(@)]

\* The texts of a record fit in their fields.
Fits(r) == \A c \in DOMAIN r \ {"extra"} : r[c] \notin Long

\* What OK or Close wrote is read again (loadQSOfile) as the records the editor
\* held, in their order, without the ones called NONE: no field of a record, known
\* or not, is lost, moved to its neighbour or changed, the mode up to its mapping.
\* A call sign or frequency the user typed too long ends what can be read, and a field
\* that is not known and too long for the buffer is the only one left out.
SavedReadsBack ==
  /\ at = "none" /\ ended \in {"ok", "saved"} /\ d.list # <<>>
  /\ \A i \in DOMAIN d.list : Fits(d.list[i])
  => LoadQSOfile(file) = [i \in DOMAIN Kept(d.list) |-> Canonical(Kept(d.list)[i])]

\* The values of r are entries of the choices.
Listed(r) ==
  r.MODE \in ToSet(Modes) /\ r.BAND \in ToSet(Bands) /\ r.PROP \in {"", "SAT"} /\ r.SAT \in {""} \cup Sats

\* Looking does not change: while the record on display is an old one whose values
\* the choices offer and nobody has touched a control, leaving it (SetRecno, OnOk)
\* stores the record the list already has, whatever was displayed before it.
ViewKeeps ==
  at = "edit" /\ ~d.touched /\ d.recno \in DOMAIN d.list \ {d.newrec} /\ Listed(d.list[d.recno]) =>
    LET t == TransferDataFromWindow(d, FALSE)
    IN  t.x.list = d.list /\ t.x.changed = d.changed

\* OK never writes a record without a call sign that was not in the file: the
\* blank record Add QSO starts is dropped, named or completed first.  Nothing is said
\* of a dialog that went outside its list: it may add a blank record that it does not
\* display, when Bottom dropped records and SetRecno refused to leave.
NoBlankWritten ==
  at = "none" /\ ended = "ok" /\ ~d.oob =>
    \A i \in DOMAIN d.list : d.list[i].CALL = "" => \E j \in DOMAIN base : base[j].CALL = ""

\* qsodatadialog.cpp, OnClose, "Nothing to save": when Close ends without asking, the
\* editor holds no contact with a station that was not in the file opened.
NothingToSave ==
  at = "none" /\ ended = "silent" =>
    \A i \in DOMAIN d.list :
      d.list[i].CALL \notin {"", NONE} => \E j \in DOMAIN base : base[j].CALL = d.list[i].CALL
=============================================================================
