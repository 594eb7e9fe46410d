----------------------------- MODULE StationForm -----------------------------
(***************************************************************************)
(* The form of the station location wizard (apps/tqslwiz.cpp) over the     *)
(* location being captured (src/location.cpp).  The pick lists are rebuilt *)
(* from the certificates and from each other: call sign, then DXCC entity, *)
(* then the zones and the second page with the state and the county of     *)
(* some entities; the state in turn filters the zones on the first page.   *)
(* A field keeps the index of its item beside copies of its text (cdata)   *)
(* and its number (idata), and a combo box shows a third copy.             *)
(*                                                                         *)
(* All texts are numbers.  Grid, IOTA and park fields, which nothing else  *)
(* depends on, are left out but for a grid that validate refuses.          *)
(***************************************************************************)
EXTENDS Integers, Sequences, FiniteSets, SequencesExt, FiniteSetsExt

CONSTANTS
  CertList,    \* the certificates: <<[call, dxcc, expired]>>
  Entities,    \* all DXCC entities, in the order of their names
  ZonesOf,     \* ZonesOf[e]: the zone map of an entity, pairs <<itu, cq>>; {}: none
  Subs,        \* Subs[e]: the states of an entity that has a second page
  SubZones,    \* SubZones[s]: the zone map of a state
  Counties,    \* Counties[s]: the counties of a state that has some
  MustPick,    \* entities whose state is flagged TQSL_LOCATION_FIELD_SELNXT
  ItuRange, CqRange,
  Preset,      \* Preset[c]: what is on file for a call: [ITUZ, CQZ, PAS, SAS]
  MaxEdits     \* bound: edits of the form, each time it is open

Blank  == -1   \* ""; shown as [None]
Empty  == -2   \* a combo box without a selection, or no default call sign
NoCall == -3   \* "[None]" in the list of call signs
NoText == -4   \* a field that was not saved
NONE   == -5   \* what a call sign that is not listed is saved as

Paged == DOMAIN Subs
Calls == {CertList[i].call : i \in DOMAIN CertList}
CALL == <<"CALL", 0>>
DXCC == <<"DXCC", 0>>
ITUZ == <<"ITUZ", 0>>
CQZ  == <<"CQZ", 0>>
PAS(e) == <<"PAS", e>>
SAS(e) == <<"SAS", e>>
Page1 == <<CALL, DXCC, ITUZ, CQZ>>
\* Some entities have no counties on their page.
Page2(e) == IF \E i \in DOMAIN Subs[e] : Subs[e][i] \in DOMAIN Counties
            THEN <<PAS(e), SAS(e)>> ELSE <<PAS(e)>>
Keys == ToSet(Page1) \cup UNION {{PAS(e), SAS(e)} : e \in Paged}
Combos == {"CALL", "DXCC", "ITUZ", "CQZ", "PAS", "SAS"}
\* The numbers of the controls; the grid is 2, the IOTA reference 5.
Control(k) == CASE k[1] = "CALL" -> 0 [] k[1] = "DXCC" -> 1 [] k[1] = "ITUZ" -> 3
                [] k[1] = "CQZ" -> 4 [] k[1] = "PAS" -> 6 [] k[1] = "SAS" -> 7

ASSUME FormAssumption ==
  /\ Paged \subseteq ToSet(Entities) /\ MustPick \subseteq Paged
  /\ \A e \in ToSet(Entities) : e > 0
  /\ MaxEdits \in Nat

VARIABLES
  form,        \* the location being captured, and the controls
  at,          \* the page of the wizard: "none", "form" or "name"
  badGrid,     \* the grid in its control does not pass validate
  allow,       \* allowBadGrid: Next was refused once
  saved,       \* the location in station_data: the texts of its fields
  edits,
  picked       \* the field of the last selection and the item chosen, or <<>>

vars == <<form, at, badGrid, allow, saved, edits, picked>>

-----------------------------------------------------------------------------
(* Fields and items.  Indexes count from 0.                                *)

Item(t, v, z) == [t |-> t, v |-> v, z |-> z]
NoneItem == Item(Blank, 0, {})
NewField == [items |-> <<>>, idx |-> 0, cdata |-> Blank, idata |-> 0, dep |-> Empty, chg |-> FALSE]

InRange(f) == 0 <= f.idx /\ f.idx < Len(f.items)
At(f) == f.items[f.idx + 1]
Last_(items, texts, other) ==
  LET p == {i \in DOMAIN items : items[i].t \in texts} IN IF p = {} THEN other ELSE Max(p) - 1

\* A list rebuilt around the old text: the index follows, the data does not.
Rebuilt(f, items) == [f EXCEPT !.items = items, !.idx = Last_(items, {f.cdata}, 0), !.chg = TRUE]

\* tqsl_setLocationFieldIndex
SetIndex(f, i) ==
  IF 0 <= i /\ i < Len(f.items)
  THEN [f EXCEPT !.idx = i, !.cdata = f.items[i + 1].t, !.idata = f.items[i + 1].v]
  ELSE [f EXCEPT !.idx = i]

\* tqsl_setLocationFieldCharData of a list field: a text that is not listed
\* is replaced by "".
SetChar(f, t) ==
  IF \E i \in DOMAIN f.items : f.items[i].t = t
  THEN SetIndex(f, Min({i \in DOMAIN f.items : f.items[i].t = t}) - 1)
  ELSE [f EXCEPT !.idx = 0, !.cdata = Blank, !.idata = 0]

\* inMap: a pair of the map has these zones, 0 standing for any.
InMap(cq, itu, map) ==
  map = {} \/ \E p \in map : itu \in {0, p[1]} /\ cq \in {0, p[2]}

-----------------------------------------------------------------------------
(* update_page, list by list.                                              *)

\* The certificates a location may use, by tqsl_setStationLocationCertFlags.
Usable(expired) == SelectSeq(CertList, LAMBDA c : expired \/ ~c.expired)

\* The call signs of the certificates.  A list with one call selects it.
CallList(F) ==
  LET calls == {c.call : c \in ToSet(Usable(F.expired))}
      Items(sorted) ==
        <<Item(NoCall, 0, {})>> \o [i \in DOMAIN sorted |-> Item(sorted[i], 0, {})]
      Listed(items, idx) ==
        [F EXCEPT !.newflags = FALSE,
                  !.f[CALL] = [@ EXCEPT !.items = items, !.idx = idx, !.chg = TRUE,
                                        !.cdata = items[idx + 1].t]]
      Chosen(items, old) == Listed(items, IF old = 0 /\ Len(items) = 2 THEN 1 ELSE old)
      Kept(items) == Chosen(items, Last_(items, {F.f[CALL].cdata}, 0))
  IN  IF F.f[CALL].items # <<>> /\ ~F.newflags THEN [F EXCEPT !.f[CALL].chg = FALSE]
      ELSE Kept(Items(SetToSortSeq(calls, <)))

\* The entities of a call: one for each certificate, but the first only once.
EntitiesOf(call, expired) ==
  LET Dxcc(certs) == [i \in DOMAIN certs |-> certs[i].dxcc]
      Once(dx) == IF dx = <<>> THEN dx ELSE <<dx[1]>> \o SelectSeq(Tail(dx), LAMBDA d : d # dx[1])
  IN  Once(Dxcc(SelectSeq(Usable(expired), LAMBDA c : c.call = call)))

\* The entities to choose from: those of the call, the last unless the old one
\* is among them; for no call all of them, the first one always.
EntityList(F) ==
  LET call == F.f[CALL].cdata
      Dx(s) == [i \in DOMAIN s |-> Item(s[i], s[i], ZonesOf[s[i]])]
      Listed(items, idx) ==
        [F EXCEPT !.f[DXCC] = [@ EXCEPT !.items = items, !.idx = idx, !.dep = call,
                                        !.cdata = items[idx + 1].t, !.chg = TRUE]]
      Own(mine) == Listed(<<NoneItem>> \o mine, Last_(mine, {F.f[DXCC].cdata}, Len(mine) - 1) + 1)
  IN  IF F.f[DXCC].items # <<>> /\ call = F.f[DXCC].dep THEN [F EXCEPT !.f[DXCC].chg = FALSE]
      ELSE IF call = NoCall THEN Listed(Dx(Entities), 0)
      ELSE Own(Dx(EntitiesOf(call, F.expired)))

\* find_next_page, from page 1: the page of the entity, 0 for none.
NextPage(F) ==
  IF InRange(F.f[DXCC]) /\ At(F.f[DXCC]).t \in Paged THEN At(F.f[DXCC]).t ELSE 0

\* The zone map that filters the zones: of the state, else of the entity.
ZoneMap(F) ==
  LET n == NextPage(F)
      sub == IF n # 0 /\ InRange(F.f[PAS(n)]) THEN At(F.f[PAS(n)]).z ELSE {}
  IN  IF sub # {} THEN sub
      ELSE IF F.f[DXCC].cdata \in DOMAIN ZonesOf THEN ZonesOf[F.f[DXCC].cdata] ELSE {}

\* A zone list leaves out what does not go with the other zone, unless that one
\* is not in the map itself.
ZoneList(F, k) ==
  LET Fit(map) ==
        LET cq  == IF InMap(F.f[CQZ].idata, 0, map) THEN F.f[CQZ].idata ELSE 0
            itu == IF InMap(0, F.f[ITUZ].idata, map) THEN F.f[ITUZ].idata ELSE 0
        IN  IF k = ITUZ THEN {j \in ItuRange : InMap(cq, j, map)}
            ELSE {j \in CqRange : InMap(j, itu, map)}
      Items(zones) == <<NoneItem>> \o [i \in DOMAIN zones |-> Item(zones[i], zones[i], {})]
  IN  [F EXCEPT !.f[k] = Rebuilt(@, Items(SetToSortSeq(Fit(ZoneMap(F)), <)))]

\* The states, built once, and the counties of the state shown.
StateList(F, e) ==
  LET items == <<NoneItem>> \o [i \in DOMAIN Subs[e] |-> Item(Subs[e][i], 0, SubZones[Subs[e][i]])]
  IN  IF F.f[PAS(e)].dep = e THEN [F EXCEPT !.f[PAS(e)].chg = FALSE]
      ELSE [F EXCEPT !.f[PAS(e)] = [Rebuilt(@, items) EXCEPT !.dep = e]]

\* Mutant: the counties are listed once, like the states.
CountyListOnce(F, e) ==
  LET val == At(F.f[PAS(e)]).t
      items == IF val \in DOMAIN Counties
               THEN <<NoneItem>> \o [i \in DOMAIN Counties[val] |-> Item(Counties[val][i], 0, {})]
               ELSE <<>>
  IN  IF Len(F.f[SAS(e)].items) > 1 THEN [F EXCEPT !.f[SAS(e)].chg = FALSE]
      ELSE [F EXCEPT !.f[SAS(e)] = [Rebuilt(@, items) EXCEPT !.dep = val]]

CountyList(F, e) ==
  LET val == At(F.f[PAS(e)]).t
      items == IF val \in DOMAIN Counties
               THEN <<NoneItem>> \o [i \in DOMAIN Counties[val] |-> Item(Counties[val][i], 0, {})]
               ELSE <<>>
  IN  IF val = F.f[SAS(e)].dep THEN [F EXCEPT !.f[SAS(e)].chg = FALSE]
      ELSE [F EXCEPT !.f[SAS(e)] = [Rebuilt(@, items) EXCEPT !.dep = val]]

\* update_page of the current page
UpdatePage(F) ==
  IF F.page = 1 THEN ZoneList(ZoneList(EntityList(CallList(F)), ITUZ), CQZ)
  ELSE CountyList(StateList(F, F.page), F.page)

-----------------------------------------------------------------------------
(* TQSLWizLocPage::UpdateFields.                                           *)

\* get_address_field: what is on file for the call.
AddressField(call, k) ==
  IF call \in DOMAIN Preset /\ k[1] \in DOMAIN Preset[call] THEN Preset[call][k[1]] ELSE Blank

\* A field set from the address of another call is set back to [None].
Reverted(F, k) ==
  IF F.forced[k] \in {Blank, F.callsign} THEN F
  ELSE [F EXCEPT !.f[k] = SetIndex(@, 0), !.cb[k[1]].shown = Empty, !.forced[k] = Blank]

\* An empty field the user has not touched takes what is on file.
TakesDefault(F, k) ==
  k \notin F.userSet /\ F.f[k].cdata = Blank /\ AddressField(F.callsign, k) # Blank

Defaulted(F, k) ==
  LET f == SetChar(F.f[k], AddressField(F.callsign, k))
      box == F.cb[k[1]]
  IN  [F EXCEPT !.f[k] = f, !.forced[k] = F.callsign,
                !.cb[k[1]].shown = IF f.idx < Len(box.items) THEN box.items[f.idx + 1] ELSE @]

\* Mutant: the box is filled and the field keeps its own selection.
RefilledShown(F, k, whole) ==
  LET f == F.f[k]
      old == F.cb[k[1]].shown
      fromFile == F.callsign # Blank /\ F.forced[k] = F.callsign
      sel == IF whole /\ ~fromFile THEN f.idx ELSE Last_(f.items, {old}, 0)
  IN  [F EXCEPT !.cb[k[1]] = [items |-> [i \in DOMAIN f.items |-> f.items[i].t],
                              shown |-> IF 0 <= sel /\ sel < Len(f.items) THEN f.items[sel + 1].t
                                        ELSE Empty]]

\* The combo box is filled again.  It keeps the text it showed or, when the
\* whole form is updated, follows the index of the field.
Refilled(F, k, whole) ==
  LET f == F.f[k]
      old == F.cb[k[1]].shown
      fromCall == k = CALL /\ old = Empty /\ F.defaultCall # Empty
      fromFile == F.callsign # Blank /\ F.forced[k] = F.callsign
      texts == {IF fromCall THEN F.defaultCall ELSE old, IF fromFile THEN f.cdata ELSE old}
      sel == IF whole /\ ~fromCall /\ ~fromFile THEN f.idx ELSE Last_(f.items, texts, 0)
      new == IF k # DXCC /\ Len(f.items) = 2 THEN 1 ELSE sel
  IN  [F EXCEPT !.f[k] = SetIndex(f, new),
                !.cb[k[1]] = [items |-> [i \in DOMAIN f.items |-> f.items[i].t],
                              shown |-> IF 0 <= new /\ new < Len(f.items) THEN f.items[new + 1].t
                                        ELSE Empty]]

\* UpdateFields(n) after a selection in control n, UpdateFields(-1) of the
\* whole form.  A zone from the file starts it again from that control.
RECURSIVE UpdateFields(_, _)
UpdateFields(F, n) ==
  LET Default(G, k) ==
        IF ~TakesDefault(G, k) THEN G
        ELSE IF k \in {ITUZ, CQZ} THEN UpdateFields(Defaulted(G, k), Control(k))
        ELSE Defaulted(G, k)
      Refill(G, k, due) == IF due THEN Refilled(G, k, n < 0) ELSE G
      Step(G, k) ==
        IF Control(k) < n \/ (Control(k) = n /\ G.page = 1) THEN G
        ELSE Refill(Default(Reverted(G, k), k), k, n < 0 \/ G.f[k].chg)
      Fresh(G) == IF n >= 0 THEN UpdatePage(G) ELSE G
      First(G) ==
        UpdatePage(FoldLeft(Step, [G EXCEPT !.page = 1, !.callsign = G.f[CALL].cdata], Page1))
      Turned(G) == IF n > 6 THEN G ELSE UpdatePage(G)
      Second(G, page) ==
        IF page = 0 THEN Turned([G EXCEPT !.page = 1])
        ELSE FoldLeft(Step, Turned([G EXCEPT !.page = page]), Page2(page))
      Both(G) == Second(G, NextPage(G))
  IN  Fresh([Both(First(Fresh(F))) EXCEPT !.page = F.page])

-----------------------------------------------------------------------------
(* Saving and loading.                                                     *)

\* tqsl_location_to_xml: zones and entity by number, so [None] is saved as "0";
\* call sign, state and county by text, "" not at all.
Texts(F) ==
  LET f(k) == F.f[k]
      fields == ToSet(Page1) \cup (IF NextPage(F) = 0 THEN {} ELSE ToSet(Page2(NextPage(F))))
      text(k) == IF ~InRange(f(k)) THEN IF k = CALL THEN NONE ELSE NoText
                 ELSE IF k \in {DXCC, ITUZ, CQZ} THEN At(f(k)).v
                 ELSE IF At(f(k)).t = Blank THEN NoText ELSE At(f(k)).t
  IN  [k \in Keys |-> IF k \in fields THEN text(k) ELSE NoText]

\* tqsl_load_loc of one field; a text that is not listed stays in cdata.
LoadField(F, k, text) ==
  LET f == F.f[k]
      at_ == {i \in DOMAIN f.items : f.items[i].t = text}
      found == SetIndex(f, Min(at_) - 1)
      lost == [f EXCEPT !.cdata = text, !.idx = IF k \in {CALL, DXCC} THEN -1 ELSE @]
  IN  IF text = NoText THEN F
      ELSE [F EXCEPT !.f[k] = IF at_ # {} THEN found ELSE lost,
                     !.bad = IF at_ = {} /\ k \in {ITUZ, CQZ} /\ text # 0 THEN @ \cup {k} ELSE @]

\* tqsl_initStationLocationCapture, then tqsl_load_loc: page by page, the page
\* updated after each field.
NewCapture ==
  UpdatePage([f |-> [k \in Keys |-> NewField], page |-> 1, expired |-> TRUE, newflags |-> FALSE,
              bad |-> {}, callsign |-> Blank, defaultCall |-> Empty, userSet |-> {},
              forced |-> [k \in Keys |-> Blank],
              cb |-> [c \in Combos |-> [items |-> <<>>, shown |-> Empty]]])

\* Mutant: the second page is chosen before the entity is loaded.
LoadLocEarly(texts) ==
  LET Step(G, k) == UpdatePage(LoadField(G, k, texts[k]))
      n == NextPage(NewCapture)
      first == FoldLeft(Step, NewCapture, Page1)
  IN  IF n = 0 THEN first ELSE FoldLeft(Step, UpdatePage([first EXCEPT !.page = n]), Page2(n))

LoadLoc(texts) ==
  LET Step(G, k) == UpdatePage(LoadField(G, k, texts[k]))
      Rest(G, n) == IF n = 0 THEN G ELSE FoldLeft(Step, UpdatePage([G EXCEPT !.page = n]), Page2(n))
      Both(G) == Rest(G, NextPage(G))
  IN  Both(FoldLeft(Step, NewCapture, Page1))

-----------------------------------------------------------------------------
(* The wizard.                                                             *)

\* TQSLWizard::TQSLWizard, TQSLWizLocPage::TQSLWizLocPage and what
\* run_station_wizard does before it shows the page.
Opened(F, expired, call) ==
  LET flags == IF F.expired = expired THEN F
               ELSE UpdatePage([F EXCEPT !.expired = expired, !.newflags = TRUE, !.page = 1])
      Called(G) == IF call = Empty THEN G ELSE UpdateFields(G, 0)
  IN  Called(UpdateFields(UpdateFields([flags EXCEPT !.page = 1, !.defaultCall = call], -1), -1))

Open(F) ==
  /\ at = "none"
  /\ form' = F /\ at' = "form" /\ allow' = FALSE /\ edits' = 0 /\ badGrid' = FALSE /\ picked' = <<>>
  /\ UNCHANGED saved

\* AddStationLocation, with a call sign selected in the tree or not.
Add ==
  /\ at = "none"
  /\ \E call \in Calls \cup {Empty} : Open(Opened(NewCapture, FALSE, call))

\* EditStationLocation
Edit == saved # <<>> /\ Open(Opened(LoadLoc(saved), TRUE, Empty))

\* Mutant: what the user chose is not marked as the user's.
SelectedUnmarked(F, k, i) ==
  LET set == [F EXCEPT !.page = IF k \in ToSet(Page1) THEN 1 ELSE k[2], !.f[k] = SetIndex(@, i),
                       !.cb[k[1]].shown = F.cb[k[1]].items[i + 1]]
      call == IF k = CALL THEN [set EXCEPT !.callsign = set.f[CALL].cdata] ELSE set
  IN  [UpdateFields(UpdateFields(call, Control(k)), -1) EXCEPT !.page = F.page]

\* OnComboBoxEvent
Selected(F, k, i) ==
  LET set == [F EXCEPT !.page = IF k \in ToSet(Page1) THEN 1 ELSE k[2], !.f[k] = SetIndex(@, i),
                       !.userSet = @ \cup {k}, !.cb[k[1]].shown = F.cb[k[1]].items[i + 1]]
      call == IF k = CALL THEN [set EXCEPT !.callsign = set.f[CALL].cdata] ELSE set
      free == IF k # DXCC THEN call
              ELSE [call EXCEPT !.forced = [j \in Keys |->
                       IF j \in {ITUZ, CQZ} /\ @[j] = call.callsign THEN Blank ELSE @[j]]]
  IN  [UpdateFields(UpdateFields(free, Control(k)), -1) EXCEPT !.page = F.page]

Visible(F) == ToSet(Page1) \cup (IF NextPage(F) = 0 THEN {} ELSE ToSet(Page2(NextPage(F))))

\* A box with [None] and at most one item besides, or with one item, is locked.
Locked(F, k) ==
  LET n == Len(F.cb[k[1]].items) IN IF k = DXCC THEN n <= 1 ELSE n <= 2

\* The box offers the items the field has: the zones may be listed again after
\* their box was filled.
InStep(F, k) == F.cb[k[1]].items = [i \in DOMAIN F.f[k].items |-> F.f[k].items[i].t]

OnComboBox(k, i) ==
  /\ at = "form" /\ edits < MaxEdits
  /\ ~Locked(form, k)
  /\ i + 1 \in DOMAIN form.cb[k[1]].items
  /\ form' = Selected(form, k, i)
  /\ edits' = edits + 1
  /\ picked' = IF InStep(form, k) THEN <<k, form.cb[k[1]].items[i + 1]>> ELSE <<>>
  /\ UNCHANGED <<at, badGrid, allow, saved>>

TypeGrid ==
  /\ at = "form" /\ edits < MaxEdits
  /\ badGrid' = ~badGrid
  /\ edits' = edits + 1
  /\ UNCHANGED <<form, at, allow, saved, picked>>

\* validate finds something wrong: the grid, or no state where one must
\* be selected.
Complains ==
  \/ badGrid
  \/ NextPage(form) \in MustPick /\ form.f[PAS(NextPage(form))].idx <= 0

\* Next: OnPageChanging refuses it once.
Forward ==
  /\ at = "form"
  /\ IF Complains /\ ~allow THEN allow' = TRUE /\ UNCHANGED at
     ELSE allow' = (allow /\ ~Complains) /\ at' = "name"
  /\ UNCHANGED <<form, badGrid, saved, edits, picked>>

Back ==
  /\ at = "name"
  /\ at' = "form"
  /\ UNCHANGED <<form, badGrid, allow, saved, edits, picked>>

\* The wizard is gone, and with it the location it captured.
Close ==
  /\ form' = NewCapture /\ at' = "none"
  /\ badGrid' = FALSE /\ allow' = FALSE /\ edits' = 0 /\ picked' = <<>>

\* Finish: the location is saved; tqsl_endStationLocationCapture.
Finish ==
  /\ at = "name"
  /\ saved' = Texts(form)
  /\ Close

Cancel ==
  /\ at \in {"form", "name"}
  /\ Close
  /\ UNCHANGED saved

Init ==
  /\ form = NewCapture /\ at = "none"
  /\ badGrid = FALSE /\ allow = FALSE /\ saved = <<>> /\ edits = 0 /\ picked = <<>>

Next ==
  \/ Add \/ Edit
  \/ \E k \in Visible(form) : \E i \in 0 .. Len(form.cb[k[1]].items) : OnComboBox(k, i)
  \/ TypeGrid \/ Forward \/ Back \/ Finish \/ Cancel

Spec == Init /\ [][Next]_vars

-----------------------------------------------------------------------------
(* Properties.                                                             *)

\* What the user sees is what is held: for call sign, entity, state and county
\* the combo box and the data agree when the form is at rest, whatever order
\* the lists were rebuilt in.
ShownIsHeld ==
  at # "none" => \A k \in Visible(form) \ {ITUZ, CQZ} :
    LET f == form.f[k]
    IN  InRange(f) => form.cb[k[1]].shown = At(f).t /\ f.cdata = At(f).t

\* A location that is saved is one that can be used: its entity is one the call
\* sign has a certificate for, and its county lies in its state, in whatever
\* order the three were chosen.
SavedFits ==
  saved # <<>> =>
    /\ saved[CALL] \in {NoCall, NONE} \/ saved[DXCC] \in {0, NoText}
         \/ \E c \in ToSet(CertList) : c.call = saved[CALL] /\ c.dxcc = saved[DXCC]
    /\ \A e \in Paged : saved[SAS(e)] # NoText =>
         /\ saved[PAS(e)] \in DOMAIN Counties
         /\ saved[SAS(e)] \in ToSet(Counties[saved[PAS(e)]])

\* The item the user picks is the one the form holds afterwards, as long as the
\* box offered the list of the field: none of the updates that follow, which
\* revert, refill and default fields, takes it back.
PickSticks == at = "form" /\ picked # <<>> => form.f[picked[1]].cdata = picked[2]

\* A location with an entity loads as it was saved (tqsl_location_to_xml and
\* tqsl_load_loc), once the wizard is closed, when its zones are a pair of the entity's
\* own map.  They are loaded before the state is: a pair that only the map of the state
\* has, as 09:04 of Nunavut has it in config.xml, is read back without one of its zones.
RoundTrip ==
  /\ at = "none" /\ saved # <<>> /\ saved[DXCC] \notin {0, NoText}
  /\ InMap(saved[CQZ], saved[ITUZ], ZonesOf[saved[DXCC]])
  => Texts(LoadLoc(saved)) = saved
=============================================================================
