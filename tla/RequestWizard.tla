--------------------------- MODULE RequestWizard ----------------------------
(***************************************************************************)
(* The wizard for a certificate request or a renewal (apps/crqwiz.cpp): its *)
(* pages, the data it collects in the CRQWiz object, and what the page for  *)
(* the call sign accepts.                                                   *)
(*                                                                         *)
(* wxWizard (external) works as follows.  Next and Back both call           *)
(* TransferDataFromWindow of the page that is left, and stay when it        *)
(* returns false; then GetNext or GetPrev names the page to show.  Showing  *)
(* a page asks it for GetNext, for the label of the button, and then calls  *)
(* refresh and validate of the page.  Every edit calls validate.            *)
(*                                                                         *)
(* A call sign is a model value; whether it is well formed, a US 1x1 call   *)
(* or has a "/" is given by the constants.  A name stands for the name and  *)
(* address: that of the user's settings, of the FCC database for a call, or *)
(* what the user typed.  Of an e-mail address the model keeps where its     *)
(* first "@" and its last "." are, from 0 and -1 for none, and its length.  *)
(***************************************************************************)
EXTENDS Dates, FiniteSets

CONSTANTS
    Calls,       \* what may be typed as a call sign
    WellFormed,  \* the call signs among them
    OneByOnes,   \* ... of the form of a US 1x1 call
    Portables,   \* ... with a "/"
    Null,        \* no certificate, nothing typed
    Entities,    \* DXCC entities; 0 is NONE
    USEntities,  \* those of the USA
    EntityStart, EntityEnd,   \* [Entities -> date or NullDate]
    BeginDates, EndDates,     \* what the date boxes can be set to
    Emails,      \* e-mail addresses typed: [at, dot, len]
    Known,       \* name and e-mail address of the settings, or of the certificate
                 \* that is renewed: [name, email]
    Stores,      \* possible stores: [entries, signers, pending, recent]
    Renewals,    \* renewals asked for: [call, dxcc, begin, end, cert], or Null
    ManyProviders, \* there is more than one issuer of certificates
    CertPwd,     \* the setting "CertPwd": ask for a pass phrase
    MaxEdits     \* bound: edits of the page for the call sign

ASSUME CallsAssumption  == /\ WellFormed \subseteq Calls /\ Null \notin Calls
                           /\ OneByOnes \subseteq WellFormed
                           /\ Portables \subseteq WellFormed
\* The dates of the configuration are in the calendar.
ASSUME EntityAssumption == /\ 0 \in Entities /\ -1 \notin Entities
                           /\ USEntities \subseteq Entities
                           /\ \A e \in Entities : \A a \in {EntityStart[e], EntityEnd[e]} :
                                  IsDateNull(a) \/ IsDateValid(a)
ASSUME RenewalAssumption == \A r \in Renewals : r # Null => r.dxcc \in Entities
ASSUME PwdAssumption    == {CertPwd, ManyProviders} \subseteq BOOLEAN /\ MaxEdits \in Nat
\* The positions are inside the text.
ASSUME EmailAssumption  == \A a \in Emails :
                               a.at \in Int /\ a.dot \in Int /\ a.len \in Nat /\ a.dot < a.len
NoEmail == [at |-> -1, dot |-> -1, len |-> 0]

ASSUME KnownAssumption  == \A k \in Known : k.email \in Emails \cup {NoEmail}
\* A request that was made had passed RequestRefused, below, and its dates are
\* those of the certificate.
ASSUME StoreAssumption  ==
    \A s \in Stores :
        /\ Null \notin s.signers
        /\ \A e \in s.entries : IsDateValid(e.nb) /\ (IsDateNull(e.na) \/ IsDateValid(e.na))

\* An entry of the store: a certificate or a pending request.
EntryOf(store, call, dxcc) ==
    {e \in store.entries : e.call = call /\ e.dxcc = dxcc}

VARIABLES
    page,    \* the page shown, or "finished", "cancelled", "created", "refused", "abandoned"
    form,    \* the contents of the controls
    crq,     \* the fields of the CRQWiz object
    msg,     \* valMsg of the page for the call sign
    store,   \* installed certificates, signing certificates, pending requests
    renewal, \* the renewal asked for, or Null
    edits    \* edits so far

vars == <<page, form, crq, msg, store, renewal, edits>>

ValidCerts == store.signers # {}      \* validcerts, set when the wizard opens

-----------------------------------------------------------------------------
(* CRQ_CallsignPage::validate.                                             *)

\* A request from nb to na overlaps the entry.
Overlaps(nb, na, e) ==
    IF IsDateValid(na)
    THEN ~(CompareDates(nb, e.na) = 1 \/ CompareDates(na, e.nb) = -1)
    ELSE ~(CompareDates(nb, e.na) = 1)

\* When the entity changed and a date is still the default of the entity
\* before, it becomes the default of the new entity.  garbage: what comparing
\* with the dates of no entity gives, when the wizard opens.
Redated(f, r, garbage) ==
    LET start == EntityStart[f.dxcc]
        end   == EntityEnd[f.dxcc]
        SameStart == IF r.dxcc = -1 THEN garbage ELSE r.nb = EntityStart[r.dxcc]
        SameEnd   == IF r.dxcc = -1 THEN garbage ELSE r.na = EntityEnd[r.dxcc]
        changed == r.dxcc # f.dxcc
        begin == IF changed /\ IsDateValid(start) /\ SameStart THEN start ELSE f.begin
        last  == IF changed /\ SameEnd THEN end ELSE f.end
    IN  [f EXCEPT !.begin = begin,
                  !.end = IF IsDateValid(end) /\ IsDateNull(last) /\ IsDateValid(begin)
                          THEN end ELSE last]

\* The dates of the request are dates, in order, and inside those of the
\* entity.  No end date passes the test against an entity's end date only
\* because the end date was filled in.
DatesFit(nb, na, dxcc) ==
    LET start == IF IsDateValid(EntityStart[dxcc]) THEN EntityStart[dxcc]
                 ELSE [y |-> 1945, m |-> 11, d |-> 1]
        end   == EntityEnd[dxcc]
    IN  /\ IsDateValid(nb)
        /\ IsDateNull(na) \/ IsDateValid(na)
        /\ IsDateValid(na) => CompareDates(nb, na) <= 0
        /\ CompareDates(nb, start) >= 0
        /\ IsDateNull(na) \/ CompareDates(na, start) >= 0
        /\ IsDateValid(end) => CompareDates(nb, end) <= 0 /\ CompareDates(na, end) <= 0

\* Mutant: a pending request for the call is not looked for.
ComplaintNoPending(f) ==
    IF f.call \notin WellFormed THEN "call"
    ELSE IF ~DatesFit(f.begin, f.end, f.dxcc) THEN "dates"
    ELSE IF renewal = Null /\ \E e \in EntryOf(store, f.call, f.dxcc) : Overlaps(f.begin, f.end, e)
         THEN "overlap"
    ELSE ""

\* Why the data of the page is refused, "" when it is not.
Complaint(f) ==
    IF f.call \notin WellFormed THEN "call"
    ELSE IF ~DatesFit(f.begin, f.end, f.dxcc) THEN "dates"
    ELSE IF f.call \in store.pending THEN "pending"
    ELSE IF store.recent[f.call] > 3 THEN "often"
    ELSE IF renewal = Null /\ \E e \in EntryOf(store, f.call, f.dxcc) : Overlaps(f.begin, f.end, e)
         THEN "overlap"
    ELSE ""

\* validate of the page for the call sign: the form, the object and valMsg.
\* A call that is refused ends it before the entity and the dates are read.
ValidateCallsign(f, r, garbage) ==
    LET g   == IF f.call \in WellFormed THEN Redated(f, r, garbage) ELSE f
        usa == IF Complaint(g) \in {"call", "dates"} THEN r.usa
               ELSE g.dxcc \in USEntities
        one == /\ g.call \in OneByOnes
               /\ Complaint(g) \in {"call", "dates"} \/ g.dxcc \in USEntities
        new == IF f.call \in WellFormed
               THEN [r EXCEPT !.call = f.call, !.dxcc = g.dxcc, !.nb = g.begin, !.na = g.end,
                              !.usa = usa, !.onebyone = one]
               ELSE [r EXCEPT !.call = f.call, !.onebyone = FALSE]
    IN  [form |-> g, crq |-> new, msg |-> Complaint(g)]

-----------------------------------------------------------------------------
(* The pages in their order.                                               *)

Pages == {"provider", "callsign", "name", "email", "password", "sign"}

\* Mutant: a renewal is not told from a new request.
SignItNew(r) ==
    IF r.dxcc = 0 \/ r.onebyone THEN TRUE ELSE IF ~ValidCerts THEN FALSE ELSE r.signIt

\* CRQ_CallsignPage::GetNext decides whether there is a page for the signature.
\* cert is set in a renewal, and by a visit to the page for the signature.
SignItAfter(r) ==
    IF r.cert # Null THEN FALSE
    ELSE IF r.dxcc = 0 \/ r.onebyone THEN TRUE
    ELSE IF ~ValidCerts THEN FALSE
    ELSE r.signIt

\* CRQ_NamePage::Preset, called by the same GetNext unless the request is to
\* be signed: the object's name, or what LoTW knows about the call.
Preset(f, r) ==
    IF r.call = Null \/ (r.cert = Null /\ (r.dxcc = 0 \/ r.onebyone)) THEN {f}
    ELSE IF r.name # Null THEN {[f EXCEPT !.name = r.name]}
    ELSE {f, [f EXCEPT !.name = <<"lotw", r.call>>]}

\* GetNext of the other pages.
NextPage(pg, r) ==
    CASE pg = "provider" -> "callsign"
      [] pg = "callsign" -> "name"
      [] pg = "name"     -> "email"
      [] pg = "email" /\ CertPwd -> "password"
      [] pg \in {"email", "password"} /\ r.signIt -> "sign"
      [] OTHER -> "finished"

\* GetPrev; with one provider the page for the call sign is its own
\* predecessor.
PrevPage(pg) ==
    CASE pg = "callsign" -> IF ManyProviders THEN "provider" ELSE "callsign"
      [] pg = "name" -> "callsign"
      [] pg = "email" -> "name"
      [] pg = "password" -> "email"
      [] pg = "sign" -> IF CertPwd THEN "password" ELSE "email"

\* CRQ_NamePage::validate: the fields of an initial request from the USA are
\* no longer enabled, once they are filled in.
Locked(f, r) ==
    f.locked \/ (f.name # Null /\ renewal = Null /\ r.validusa /\ ~ValidCerts)

\* What showing a page does: GetNext (callsign), refresh (sign) and validate.
Show(pg, f, r) ==
    /\ page' = pg
    /\ CASE pg = "callsign" ->
            \E g \in Preset(f, r), garbage \in BOOLEAN :
                LET v == ValidateCallsign(g, [r EXCEPT !.signIt = SignItAfter(r)], garbage)
                IN  form' = v.form /\ crq' = v.crq /\ msg' = v.msg
         [] pg = "name" ->
            /\ form' = [f EXCEPT !.locked = Locked(f, r)]
            /\ crq' = [r EXCEPT !.name = f.name]
            /\ UNCHANGED msg
         [] pg = "sign" ->
            /\ form' = [f EXCEPT !.choice = IF ValidCerts THEN 2 ELSE 1, !.sel = Null]
            /\ crq' = [r EXCEPT !.signIt = ValidCerts]
            /\ UNCHANGED msg
         [] OTHER -> form' = f /\ crq' = r /\ UNCHANGED msg

\* CRQWiz::CRQWiz: the contents of the controls and of the object.  The page
\* for the signature, made first, sets signIt.
FirstForm(known) ==
    [call |-> IF renewal = Null THEN Null ELSE renewal.call,
     dxcc |-> IF renewal = Null THEN 0 ELSE renewal.dxcc,
     begin |-> IF renewal = Null THEN [y |-> 1945, m |-> 1, d |-> 1] ELSE renewal.begin,
     end |-> IF renewal = Null THEN NullDate ELSE renewal.end,
     name |-> known.name, email |-> known.email, pwd |-> TRUE, locked |-> FALSE,
     choice |-> IF ValidCerts THEN 2 ELSE 1, sel |-> Null]

FirstCrq ==
    [call |-> Null, dxcc |-> -1, nb |-> NullDate, na |-> NullDate, usa |-> FALSE,
     validusa |-> FALSE, onebyone |-> FALSE, name |-> Null,
     cert |-> IF renewal = Null THEN Null ELSE renewal.cert, signIt |-> ValidCerts]

\* ... and the first page shown.
Init ==
    /\ store \in Stores /\ renewal \in Renewals
    /\ renewal # Null => renewal.cert \in store.signers
    /\ page = (IF ManyProviders THEN "provider" ELSE "callsign") /\ edits = 0
    /\ \E known \in Known, garbage \in BOOLEAN :
         LET r == [FirstCrq EXCEPT !.signIt = SignItAfter(FirstCrq)]
             v == ValidateCallsign(FirstForm(known), r, garbage)
         IN  IF ManyProviders THEN form = FirstForm(known) /\ crq = FirstCrq /\ msg = ""
             ELSE form = v.form /\ crq = v.crq /\ msg = v.msg

\* An edit of the page for the call sign; a renewal has the call sign and the
\* entity disabled.
EditCallsign ==
    /\ page = "callsign" /\ edits < MaxEdits
    /\ \E g \in [call : Calls, dxcc : Entities, begin : BeginDates, end : EndDates] :
         /\ renewal # Null => g.call = form.call /\ g.dxcc = form.dxcc
         /\ Cardinality({x \in {"call", "dxcc", "begin", "end"} : g[x] # form[x]}) = 1
         /\ LET f == [form EXCEPT !.call = g.call, !.dxcc = g.dxcc,
                                  !.begin = g.begin, !.end = g.end]
                v == ValidateCallsign(f, crq, FALSE)
            IN  form' = v.form /\ crq' = v.crq /\ msg' = v.msg
    /\ edits' = edits + 1
    /\ UNCHANGED <<page, store, renewal>>

\* The FCC database for a US call (GetULSInfo): "found", "error", or "none"
\* with an answer, or not, for W1AW.
UlsAnswers(r, valMsg) ==
    IF valMsg = "" /\ r.usa /\ ~r.onebyone THEN {"found", "error", "none", "noneAtAll"} ELSE {"notAsked"}

\* Next and, with several providers, Back on the page for the call sign:
\* validate once more, and CRQ_CallsignPage::TransferDataFromWindow.  When the
\* user takes back the end date, the boxes are cleared and the page stays.
LeaveCallsign(back) ==
    LET v == ValidateCallsign(form, crq, FALSE) IN
    /\ page = "callsign" /\ (back => ManyProviders)
    /\ \E uls \in UlsAnswers(v.crq, v.msg), keep \in BOOLEAN :
         LET hasEnd  == IsDateValid(v.crq.na)
             refused == \/ v.msg # ""
                        \/ uls = "none" /\ ~hasEnd /\ v.crq.call \notin Portables
                        \/ (v.crq.dxcc = 0 \/ v.crq.onebyone) /\ ~ValidCerts
             asked   == hasEnd /\ uls # "none"
             r == IF uls = "found"
                  THEN [v.crq EXCEPT !.validusa = TRUE, !.name = <<"uls", v.crq.call>>]
                  ELSE v.crq
             s == [r EXCEPT !.signIt = SignItAfter(r)]
             f == IF uls = "found" THEN [v.form EXCEPT !.name = r.name] ELSE v.form
         IN  IF refused \/ (asked /\ ~keep)
             THEN /\ form' = IF refused THEN f ELSE [f EXCEPT !.end = NullDate]
                  /\ crq' = r /\ msg' = v.msg /\ UNCHANGED page
             ELSE IF back THEN Show("provider", f, r)
             ELSE \E g \in Preset(f, s) : Show("name", g, s)
    /\ UNCHANGED <<store, renewal, edits>>

\* The user types a name, or clears it; e-mail and pass phrase.
EditName(name) ==
    /\ page = "name" /\ ~form.locked /\ name # form.name
    /\ form' = [form EXCEPT !.name = name, !.locked = Locked([form EXCEPT !.name = name], crq)]
    /\ crq' = [crq EXCEPT !.name = name]
    /\ UNCHANGED <<page, msg, store, renewal, edits>>

EditEmail(email) ==
    /\ page = "email" /\ email # form.email
    /\ form' = [form EXCEPT !.email = email]
    /\ UNCHANGED <<page, crq, msg, store, renewal, edits>>

EditPassword ==
    /\ page = "password"
    /\ form' = [form EXCEPT !.pwd = ~@]
    /\ UNCHANGED <<page, crq, msg, store, renewal, edits>>

\* On the page for the signature: the choice, and a certificate of the tree,
\* which is hidden unless the choice is 2.
ChooseSigner(choice, sel) ==
    /\ page = "sign"
    /\ (choice # form.choice) # (sel # form.sel)
    /\ form.choice # 2 => sel = form.sel
    /\ form' = [form EXCEPT !.choice = choice, !.sel = sel]
    /\ crq' = [crq EXCEPT !.signIt = @ \/ sel \notin {form.sel, Null}]
    /\ UNCHANGED <<page, msg, store, renewal, edits>>

\* Mutant: the dot may be anywhere.
EmailAcceptedAnyDot(a) == a.at >= 1 /\ a.dot >= 0

\* CRQ_EmailPage::validate: something before "@", between it and the last ".",
\* and after that.
EmailAccepted(a) == a.at >= 1 /\ a.dot >= a.at + 2 /\ a.dot # a.len - 1

\* TransferDataFromWindow of the other pages lets the page be left.
Complete(pg) ==
    CASE pg = "name" -> form.name # Null
      [] pg = "email" -> EmailAccepted(form.email)
      [] pg = "password" -> form.pwd
      [] OTHER -> TRUE

\* ... and what it assigns: the page for the signature takes the selection of
\* the tree, whatever the choice is.
Transferred(pg) ==
    IF pg = "sign" THEN [crq EXCEPT !.cert = form.sel] ELSE crq

\* Next or Finish.  CRQ_SignPage::OnPageChanging vetoes "Yes" without a
\* certificate; by then the object has no certificate.
Next_(pg) ==
    /\ page = pg /\ pg # "callsign"
    /\ Complete(pg)
    /\ IF pg = "sign" /\ form.choice = 2 /\ form.sel = Null
       THEN crq' = Transferred(pg) /\ UNCHANGED <<page, form, msg>>
       ELSE Show(NextPage(pg, Transferred(pg)), form, Transferred(pg))
    /\ UNCHANGED <<store, renewal, edits>>

Back(pg) ==
    /\ page = pg /\ pg \notin {"provider", "callsign"}
    /\ Complete(pg)
    /\ Show(PrevPage(pg), form, Transferred(pg))
    /\ UNCHANGED <<store, renewal, edits>>

Cancel ==
    /\ page \in Pages
    /\ page' = "cancelled"
    /\ UNCHANGED <<form, crq, msg, store, renewal, edits>>

-----------------------------------------------------------------------------
(* tqsl_createCertRequest (src/openssl_cert.cpp), which MyFrame::CRQWizard  *)
(* calls with what the wizard collected.                                    *)

\* tqsl_check_parm of a text that tqsl_trim has trimmed.
Missing(v) == v = Null

\* What it finds wrong with the request.
RequestRefused(r, email) ==
    \/ Missing(r.name) \/ Missing(r.call)
    \/ email.len = 0 \/ email.at = -1 \/ email.dot < email.at
    \/ ~IsDateValid(r.nb)
    \/ ~IsDateNull(r.na) /\ (~IsDateValid(r.na) \/ CompareDates(r.na, r.nb) < 0)

\* The key of the signer has to be unlocked first; then the request is checked,
\* its file opened, the key pair made, and the request signed and written.
CreateCertRequest ==
    /\ page = "finished"
    /\ \E unlocked, written \in BOOLEAN :
         /\ crq.cert = Null => unlocked
         /\ page' = IF ~unlocked THEN "abandoned"
                    ELSE IF RequestRefused(crq, form.email) THEN "refused"
                    ELSE IF written THEN "created" ELSE "abandoned"
    /\ UNCHANGED <<form, crq, msg, store, renewal, edits>>

Next ==
    \/ EditCallsign
    \/ \E back \in BOOLEAN : LeaveCallsign(back)
    \/ \E name \in {Null, <<"typed", Null>>} : EditName(name)
    \/ \E email \in Emails : EditEmail(email)
    \/ EditPassword
    \/ \E choice \in 0..2, sel \in store.signers \cup {Null} : ChooseSigner(choice, sel)
    \/ \E pg \in Pages : Next_(pg) \/ Back(pg)
    \/ Cancel
    \/ CreateCertRequest

Spec == Init /\ [][Next]_vars

-----------------------------------------------------------------------------
(* Properties.                                                             *)

\* Days since the first date the boxes offer; a request without an end date
\* has no last day.
DayNo(a)    == SubtractDates([y |-> 1945, m |-> 1, d |-> 1], a)
Forever     == 5000000
FirstDay(a) == IF IsDateNull(a) THEN 0 ELSE DayNo(a)
LastDay(a)  == IF IsDateNull(a) THEN Forever ELSE DayNo(a)

\* Past the page for the call sign, through every order of edits, questions,
\* steps back and entity changes that rewrite the dates, the object holds a
\* request that may be sent: days that exist, in order and inside the
\* entity's, no day shared with a certificate or request for the same call and
\* entity (unless it is a renewal), no pending request for the call.
\* Counted in days, where the code compares dates field by field.  A
\* pending request without an end date never overlaps in the code: it is up to
\* RequestPending to know it.
AcceptedIsSound ==
    page \notin {"provider", "callsign", "cancelled"} =>
        LET nb == DayNo(crq.nb)
            na == LastDay(crq.na)
        IN  /\ crq.call \in WellFormed \ store.pending
            /\ nb <= na
            /\ nb >= FirstDay(EntityStart[crq.dxcc]) /\ na <= LastDay(EntityEnd[crq.dxcc])
            /\ renewal = Null => \A e \in EntryOf(store, crq.call, crq.dxcc) :
                  IsDateNull(e.na) \/ nb > LastDay(e.na) \/ na < DayNo(e.nb)

\* What the pages let through, tqsl_createCertRequest takes: the two lists of
\* checks, in the wizard and in the library, agree in this direction.  A refusal
\* here would end in deleteRequest, which deletes the first request of the call
\* in the list, an older one, since no key was made yet.
NothingRefused == page # "refused"

\* Who signs, however the pages are walked (GetNext of the page for the call sign,
\* refresh and TransferDataFromWindow of that for the signature): a renewal is signed
\* by the certificate it renews and never gets to the page where another could be
\* chosen; a new request is signed by the certificate selected when that page was left
\* last, also when the call sign was changed since, and with the answer Yes it has
\* one.  It is not that No is never signed: a certificate selected before the answer
\* was changed to No signs the request.  Nor is it that a request for NONE or a 1x1 call
\* is always signed, as comments say (src/apps/crqwiz.cpp:335, 339): with another answer
\* than Yes, and nothing selected, it is not.
SignedBySelected ==
    /\ renewal # Null => crq.cert = renewal.cert /\ page # "sign"
    /\ renewal = Null /\ page \in {"finished", "created"} =>
          /\ crq.cert = form.sel
          /\ form.choice = 2 /\ ValidCerts => crq.cert # Null
=============================================================================
