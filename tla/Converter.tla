----------------------------- MODULE Converter ------------------------------
(***************************************************************************)
(* One converter (src/tqslconvert.cpp) turning the records of an ADIF log  *)
(* into a stream of GABBI records: tCERT, tSTATION and tCONTACT.  Every    *)
(* action is one call of tqsl_getConverterGABBI, which returns one GABBI   *)
(* record or an error; a log record can take several calls.  The caller is *)
(* ConvertLogToString, which ignores errors and unlocks keys on demand.    *)
(*                                                                         *)
(* All callsigns are in one DXCC entity, so MY_DXCC and MY_COUNTRY do not  *)
(* show.  Of the station location three fields are kept, one of each sort: *)
(* the grid, a zone, chosen from a list as states and provinces are, and   *)
(* IOTA, which is free text.  The database is the transaction of this run. *)
(***************************************************************************)
EXTENDS Integers, Sequences, FiniteSets

CONSTANTS
    Calls, Dates, Qsos, Grids, Zones, Iotas,
    None,       \* an empty string
    Coarser,    \* pairs of grids, the first with fewer characters of the second
    ZeroZone,   \* the zone "0", which reads as empty
    Items,      \* the zones in the list of the location field
    Certs,      \* the certificates: a sequence of callsign and QSO dates
    Logs,       \* the logs that can be converted
    Locations,  \* the station locations that can be chosen
    Recorded,   \* the contents the duplicates database can start with
    OldEntries, \* its contents in the old format
    UidSpan     \* STATION_UIDs before the counter, an int, wraps around

Handling == {"IGNORE", "REPORT", "UPDATE"}        \* TQSL_LOC_*

\* What is wrong with a record: nothing, a date or time that cannot be parsed,
\* a value found invalid later, the date filter, or signing it always fails.
Kinds   == {"good", "unreadable", "invalid", "range", "unsignable"}
Records == [qso : Qsos, date : Dates, call : Calls \cup {None}, grid : Grids \cup {None},
            zone : Zones \cup {None}, iota : Iotas \cup {None}, kind : Kinds, torn : BOOLEAN]

\* cdata is the text of a location field, item the text of the list item its
\* index selects; the former is compared, the latter is signed.
ListField == [cdata : Zones \cup {None}, item : Zones \cup {None}]
Location  == [call : Calls, grid : Grids \cup {None}, zone : ListField, iota : Iotas \cup {None}]

\* The item selected when the list of a field is built around its text.
ItemOf(text) == IF text \in Items THEN text ELSE None

\* tqsl_getLocationStationDetails, and what goes into tSTATION and signature.
Details  == [grid : Grids \cup {None}, zone : Zones \cup {None}, iota : Iotas \cup {None}]
NoEntry  == [grid |-> None, zone |-> None, iota |-> None, none |-> TRUE]
Keys     == Calls \X Qsos
OldKeys  == [serial : DOMAIN Certs, qso : Qsos, signed : Details]

ASSUME CertsAssumption ==
    Certs \in Seq([call : Calls, dates : SUBSET Dates])
ASSUME FieldAssumption ==
    /\ None \notin Calls \cup Grids \cup Zones \cup Iotas
    /\ Items \subseteq Zones /\ ZeroZone \in Zones \ Items
    /\ Coarser \subseteq Grids \X Grids
ASSUME InputAssumption ==
    /\ Logs \subseteq Seq(Records)
    /\ Locations \subseteq Location
    /\ \A l \in Locations : l.zone.item = ItemOf(l.zone.cdata)    \* tqsl_load_loc
    /\ Recorded \subseteq [Keys -> Details \cup {NoEntry}]
    /\ OldEntries \subseteq SUBSET OldKeys
    /\ UidSpan \in Nat \ {0}

VARIABLES
    log,            \* the records of the input file
    handling,       \* location_handling
    allow_dupes,
    pc,             \* the caller: calling, asked to unlock a key, or finished
    nread,          \* records read
    rec,            \* the record being converted
    rec_done,
    cert_idx,       \* certificate in use, 0 before the first
    cert_uids,      \* CERT_UID of each certificate, 0 if it has none
    cert_uid,
    serial,         \* the certificate whose serial number was noted last
    next_cert_uid,
    loc_uid,
    need_station_rec,
    callsign,
    loc,
    keys,           \* certificates whose private key is unlocked
    db,             \* duplicate keys and the station details stored with them
    old,            \* entries in the old format
    tcerts, tstations, tcontacts,   \* what was emitted
    outcome         \* what the caller was told about each record

input == <<log, handling, allow_dupes>>
certv == <<cert_idx, cert_uids, cert_uid, next_cert_uid, serial>>
dupes == <<db, old>>
emitted == <<tcerts, tstations, tcontacts>>
vars == <<input, pc, nread, rec, rec_done, certv, loc_uid, need_station_rec, callsign,
          loc, keys, dupes, emitted, outcome>>

NoRec == [qso |-> None, date |-> None, call |-> None, grid |-> None,
          zone |-> None, iota |-> None, kind |-> "unreadable", torn |-> FALSE]

Init ==
    /\ log \in Logs
    /\ handling \in Handling
    /\ allow_dupes \in BOOLEAN
    /\ loc \in Locations
    /\ db \in Recorded
    /\ old \in OldEntries
    /\ pc = "calling"
    /\ nread = 0
    /\ rec = NoRec
    /\ rec_done = TRUE
    /\ cert_idx = 0
    /\ cert_uids = [i \in DOMAIN Certs |-> 0]
    /\ cert_uid = 0
    /\ next_cert_uid = 1
    /\ serial = 0
    /\ loc_uid = 0
    /\ need_station_rec = FALSE
    /\ callsign = loc.call
    /\ keys = {}
    /\ tcerts = {} /\ tstations = {} /\ tcontacts = {}
    /\ outcome = {}

-----------------------------------------------------------------------------
(* Reading a record.                                                       *)

Unread == nread < Len(log)
Next1  == log[nread + 1]

\* The record of this call, and its number.
Cur  == IF rec_done THEN Next1 ELSE rec
CurN == IF rec_done THEN nread + 1 ELSE nread
Tell(what) == outcome' = outcome \cup {<<CurN, what>>}

\* parse_adif_qso: MY_ calls take effect as soon as the record is read.
CallAfterReading ==
    IF rec_done /\ handling = "UPDATE" /\ Cur.call # None THEN Cur.call ELSE callsign

EndOfFile ==
    /\ pc = "calling"
    /\ rec_done
    /\ ~Unread
    /\ rec_done' = FALSE
    /\ pc' = "eof"
    /\ UNCHANGED <<input, nread, rec, certv, loc_uid, need_station_rec, callsign, loc, keys,
                   dupes, emitted, outcome>>

\* A date or time cannot be parsed.
Unreadable ==
    /\ pc = "calling"
    /\ rec_done
    /\ Unread
    /\ Next1.kind = "unreadable"
    /\ nread' = nread + 1
    /\ rec' = Next1
    /\ Tell("error")
    /\ UNCHANGED <<input, pc, rec_done, certv, loc_uid, need_station_rec, callsign, loc, keys,
                   dupes, emitted>>

\* The ADIF parser stops inside the record, which rec_done forgets: the next
\* call goes on with the fields read so far.
TornRecord ==
    /\ pc = "calling"
    /\ rec_done
    /\ Unread
    /\ Next1.torn /\ Next1.kind # "unreadable"
    /\ nread' = nread + 1
    /\ rec' = Next1
    /\ rec_done' = FALSE
    /\ Tell("error")
    /\ UNCHANGED <<input, pc, certv, loc_uid, need_station_rec, callsign, loc, keys, dupes,
                   emitted>>

\* The call has a record to work on: a new one, or the one of the last call.
Working ==
    /\ pc = "calling"
    /\ rec_done => Unread /\ Next1.kind # "unreadable" /\ ~Next1.torn
    /\ nread' = CurN
    /\ rec' = Cur

\* Required fields, call, mode, band, satellite, and the date filter.
Reject ==
    /\ Working
    /\ Cur.kind \in {"invalid", "range"}
    /\ rec_done' = TRUE
    /\ callsign' = CallAfterReading
    /\ Tell(IF Cur.kind = "range" THEN "range" ELSE "error")
    /\ UNCHANGED <<input, pc, certv, loc_uid, need_station_rec, loc, keys, dupes, emitted>>

Accepted == Working /\ Cur.kind \in {"good", "unsignable"}

-----------------------------------------------------------------------------
(* Choosing the certificate.                                               *)

TheCall == IF handling = "UPDATE" /\ Cur.call # None THEN Cur.call ELSE callsign

\* Mutant: the QSO date is not compared with the dates of the certificate.
MatchingAnyDate(c, d) == {i \in DOMAIN Certs : Certs[i].call = c}

\* find_matching_cert: the first certificate for the callsign and the date.
Matching(c, d) == {i \in DOMAIN Certs : Certs[i].call = c /\ d \in Certs[i].dates}
TheCert == CHOOSE i \in Matching(TheCall, Cur.date) :
               \A j \in Matching(TheCall, Cur.date) : i <= j

WrongCall == handling = "REPORT" /\ Cur.call # None /\ Cur.call # callsign
HasCert   == ~WrongCall /\ Matching(TheCall, Cur.date) # {}

NoCertificate ==
    /\ Accepted
    /\ ~HasCert
    /\ rec_done' = TRUE
    /\ callsign' = TheCall
    /\ Tell("error")
    /\ UNCHANGED <<input, pc, certv, loc_uid, need_station_rec, loc, keys, dupes, emitted>>

\* Setting the callsign of the location rebuilds the lists of its page, and
\* with them the selected items.
SwitchedLoc ==
    [loc EXCEPT !.call = TheCall, !.zone.item = ItemOf(loc.zone.cdata)]

FirstUse == TheCert # cert_idx /\ cert_uids[TheCert] = 0

\* Mutant: the record is taken for done when its certificate was emitted.
EmitCertDropsRecord ==
    /\ Accepted
    /\ HasCert
    /\ FirstUse
    /\ loc' = SwitchedLoc
    /\ callsign' = TheCall
    /\ cert_idx' = TheCert
    /\ cert_uid' = next_cert_uid
    /\ cert_uids' = [cert_uids EXCEPT ![TheCert] = next_cert_uid]
    /\ next_cert_uid' = next_cert_uid + 1
    /\ need_station_rec' = TRUE
    /\ rec_done' = TRUE
    /\ tcerts' = tcerts \cup {[uid |-> next_cert_uid, cert |-> TheCert]}
    /\ UNCHANGED <<input, pc, loc_uid, serial, keys, dupes, tstations, tcontacts, outcome>>

EmitCert ==
    /\ Accepted
    /\ HasCert
    /\ FirstUse
    /\ loc' = SwitchedLoc
    /\ callsign' = TheCall
    /\ cert_idx' = TheCert
    /\ cert_uid' = next_cert_uid
    /\ cert_uids' = [cert_uids EXCEPT ![TheCert] = next_cert_uid]
    /\ next_cert_uid' = next_cert_uid + 1
    /\ need_station_rec' = TRUE
    /\ rec_done' = FALSE
    /\ tcerts' = tcerts \cup {[uid |-> next_cert_uid, cert |-> TheCert]}
    /\ UNCHANGED <<input, pc, loc_uid, serial, keys, dupes, tstations, tcontacts, outcome>>

\* A certificate that was used before only gets its CERT_UID back.
TakeCert(noted) ==
    /\ cert_idx' = TheCert
    /\ cert_uid' = cert_uids[TheCert]
    /\ serial' = noted
    /\ UNCHANGED <<cert_uids, next_cert_uid>>
    /\ callsign' = TheCall

\* Mutant: the serial number is only noted with a station record.
NotedNever == serial

\* The serial number is noted, except when the MY_ fields are ignored.
Noted == IF handling = "IGNORE" THEN serial ELSE TheCert

UseCert == TakeCert(Noted)

LocBefore == IF TheCert = cert_idx THEN loc ELSE SwitchedLoc

-----------------------------------------------------------------------------
(* Comparing the MY_ fields with the location.                             *)

\* A REPORT compares as many characters as both have, none if there is no grid.
SameGrid(g, h) ==
    \/ g = h
    \/ handling = "REPORT" /\ (h = None \/ <<g, h>> \in Coarser \/ <<h, g>> \in Coarser)

\* Mutant: a grid that changes does not ask for a station record.
CheckGridSilently(s) ==
    IF Cur.grid = None \/ SameGrid(Cur.grid, s.loc.grid) THEN s
    ELSE IF handling = "UPDATE"
         THEN [s EXCEPT !.loc.grid = Cur.grid]
         ELSE [s EXCEPT !.ok = FALSE]

CheckGrid(s) ==
    IF Cur.grid = None \/ SameGrid(Cur.grid, s.loc.grid) THEN s
    ELSE IF handling = "UPDATE"
         THEN [s EXCEPT !.loc.grid = Cur.grid, !.new = TRUE]
         ELSE [s EXCEPT !.ok = FALSE]

\* tqsl_getLocationField
Shown(z) == IF z = ZeroZone THEN None ELSE z

\* check_station on a list field.  tqsl_setLocationField changes the text even
\* if it answers that the value is not in the list.
CheckZone(s) ==
    LET listed == Cur.zone \in Items
        field  == [cdata |-> Cur.zone, item |-> IF listed THEN Cur.zone ELSE s.loc.zone.item]
        was    == Shown(s.loc.zone.cdata) IN
    IF ~s.ok \/ Cur.zone = None \/ Cur.zone = was THEN s
    ELSE IF handling = "UPDATE"
         THEN [s EXCEPT !.loc.zone = field, !.new = listed \/ @, !.ok = listed]
         ELSE IF was = None
              THEN [s EXCEPT !.loc.zone = field, !.new = TRUE]
              ELSE [s EXCEPT !.ok = FALSE]

\* check_station on free text, which tqsl_setLocationField never finds in a list.
CheckIota(s) ==
    IF ~s.ok \/ Cur.iota = None \/ Cur.iota = s.loc.iota THEN s
    ELSE IF handling = "UPDATE"
         THEN [s EXCEPT !.loc.iota = Cur.iota, !.ok = FALSE]
         ELSE IF s.loc.iota = None
              THEN [s EXCEPT !.loc.iota = Cur.iota, !.new = TRUE]
              ELSE [s EXCEPT !.ok = FALSE]

Checked ==
    LET s == [loc |-> LocBefore, new |-> FALSE, ok |-> TRUE] IN
    IF handling = "IGNORE" THEN s ELSE CheckIota(CheckZone(CheckGrid(s)))

Selected == Accepted /\ HasCert /\ ~FirstUse

\* TQSL_LOCATION_MISMATCH, after the fields before it may have been changed.
Mismatch ==
    /\ Selected
    /\ ~Checked.ok
    /\ UseCert
    /\ loc' = Checked.loc
    /\ rec_done' = TRUE
    /\ Tell("mismatch")
    /\ UNCHANGED <<input, pc, loc_uid, need_station_rec, keys, dupes, emitted>>

DetailsOf(l) == [grid |-> l.grid, zone |-> l.zone.item, iota |-> l.iota]

\* Mutant: the station record takes the number of the one before.
EmitStationSameUid ==
    /\ Selected
    /\ Checked.ok
    /\ Checked.new \/ need_station_rec
    /\ TakeCert(TheCert)
    /\ loc' = Checked.loc
    /\ rec_done' = FALSE
    /\ need_station_rec' = FALSE
    /\ loc_uid' = IF need_station_rec THEN (loc_uid + 1) % UidSpan ELSE loc_uid
    /\ tstations' = tstations \cup {[uid |-> loc_uid', cert |-> cert_uid', call |-> loc'.call,
                                     details |-> DetailsOf(loc')]}
    /\ UNCHANGED <<input, pc, keys, dupes, tcerts, tcontacts, outcome>>

\* get_station_rec
EmitStation ==
    /\ Selected
    /\ Checked.ok
    /\ Checked.new \/ need_station_rec
    /\ TakeCert(TheCert)
    /\ loc' = Checked.loc
    /\ rec_done' = FALSE
    /\ need_station_rec' = FALSE
    /\ loc_uid' = (loc_uid + 1) % UidSpan
    /\ tstations' = tstations \cup {[uid |-> loc_uid', cert |-> cert_uid', call |-> loc'.call,
                                     details |-> DetailsOf(loc')]}
    /\ UNCHANGED <<input, pc, keys, dupes, tcerts, tcontacts, outcome>>

-----------------------------------------------------------------------------
(* Signing the contact.                                                    *)

Ready == Selected /\ Checked.ok /\ ~Checked.new /\ ~need_station_rec

\* tqsl_getGABBItCONTACTData fails, for good, and rec_done stays false.
CannotSign ==
    /\ Ready
    /\ Cur.kind = "unsignable"
    /\ UseCert
    /\ loc' = Checked.loc
    /\ rec_done' = FALSE
    /\ Tell("error")
    /\ UNCHANGED <<input, pc, loc_uid, need_station_rec, keys, dupes, emitted>>

\* TQSL_SIGNINIT_ERROR: the caller unlocks the key and calls again.
NeedKey ==
    /\ Ready
    /\ Cur.kind = "good"
    /\ TheCert \notin keys
    /\ UseCert
    /\ loc' = Checked.loc
    /\ rec_done' = FALSE
    /\ pc' = "key"
    /\ UNCHANGED <<input, loc_uid, need_station_rec, keys, dupes, emitted, outcome>>

\* Mutant: the unlocked key is not kept.
UnlockKeyForgets ==
    /\ pc = "key"
    /\ pc' = "calling"
    /\ UNCHANGED <<input, nread, rec, rec_done, certv, loc_uid, need_station_rec, callsign, loc,
                   keys, dupes, emitted, outcome>>

UnlockKey ==
    /\ pc = "key"
    /\ keys' = keys \cup {cert_idx}
    /\ pc' = "calling"
    /\ UNCHANGED <<input, nread, rec, rec_done, certv, loc_uid, need_station_rec, callsign, loc,
                   dupes, emitted, outcome>>

\* The key cannot be unlocked: an exception ends the conversion.
KeyRefused ==
    /\ pc = "key"
    /\ pc' = "stopped"
    /\ UNCHANGED <<input, nread, rec, rec_done, certv, loc_uid, need_station_rec, callsign, loc,
                   keys, dupes, emitted, outcome>>

SignIt ==
    /\ Ready
    /\ Cur.kind = "good"
    /\ TheCert \in keys
    /\ UseCert
    /\ loc' = Checked.loc
    /\ rec_done' = TRUE
    /\ UNCHANGED <<input, pc, loc_uid, need_station_rec, keys, tcerts, tstations>>

TheKey == <<TheCall, Cur.qso>>
OldKey == [serial |-> Noted, qso |-> Cur.qso, signed |-> DetailsOf(LocBefore)]
InOld  == OldKey \in old

\* A field that had a value has another one.
Changed(was, is) ==
    \E f \in DOMAIN is : was[f] # None /\ is[f] # None /\ was[f] # is[f]

\* Mutant: equal station details are not told from changed ones.
UploadableUnlessChanged ==
    \/ db[TheKey] = NoEntry
    \/ ~Changed(db[TheKey], DetailsOf(LocBefore))

\* The station details gained or lost a field.
Resignable(was, is) == was # is /\ ~Changed(was, is)

\* The QSO is new, or a valid update.
Uploadable == db[TheKey] = NoEntry \/ Resignable(db[TheKey], DetailsOf(LocBefore))

Store == db' = [db EXCEPT ![TheKey] = DetailsOf(LocBefore)]

EmitContact ==
    /\ SignIt
    /\ \/ allow_dupes /\ UNCHANGED dupes
       \/ ~allow_dupes /\ ~InOld /\ Uploadable /\ Store /\ UNCHANGED old
    /\ tcontacts' = tcontacts \cup
           {[n |-> CurN, qso |-> Cur.qso, call |-> TheCall, cert |-> TheCert,
             station |-> loc_uid, signed |-> DetailsOf(LocBefore)]}
    /\ Tell("signed")

\* Mutant: an entry in the old format is deleted and not replaced.
DuplicateDropsOld ==
    /\ SignIt
    /\ ~allow_dupes
    /\ \/ InOld /\ UNCHANGED db /\ old' = old \ {OldKey}
       \/ ~InOld /\ ~Uploadable /\ UNCHANGED dupes
    /\ UNCHANGED tcontacts
    /\ Tell("duplicate")

\* TQSL_DUPLICATE_QSO; an entry in the old format is replaced by a new one.
Duplicate ==
    /\ SignIt
    /\ ~allow_dupes
    /\ \/ InOld /\ Store /\ old' = old \ {OldKey}
       \/ ~InOld /\ ~Uploadable /\ UNCHANGED dupes
    /\ UNCHANGED tcontacts
    /\ Tell("duplicate")

-----------------------------------------------------------------------------
Call ==
    \/ EndOfFile \/ Unreadable \/ TornRecord \/ Reject \/ NoCertificate
    \/ EmitCert \/ Mismatch \/ EmitStation \/ CannotSign \/ NeedKey
    \/ EmitContact \/ Duplicate

Next == Call \/ UnlockKey \/ KeyRefused

Spec == Init /\ [][Next]_vars

\* The caller goes on calling and the password is answered.
FairSpec == Spec /\ WF_vars(Next)

-----------------------------------------------------------------------------
Outcomes == {"signed", "duplicate", "error", "mismatch", "range"}
-----------------------------------------------------------------------------
(* Properties.                                                             *)

Ended == pc \in {"eof", "stopped"}

\* Every GABBI record refers to one emitted before it: a tCONTACT to a tSTATION
\* and a tSTATION to a tCERT, and no two records share a UID.  STATION_UID and
\* CERT_UID are counters set at three places of tqsl_getConverterGABBI.
StreamWellFormed ==
    /\ \A c \in tcontacts : \E s \in tstations : s.uid = c.station
    /\ \A s \in tstations : \E t \in tcerts : t.uid = s.cert
    /\ \A s, t \in tcerts : s.uid = t.uid <=> s.cert = t.cert
    /\ \A s, t \in tstations : s.uid = t.uid => s = t

\* A QSO is signed with a certificate for its own callsign and date, whatever
\* records of other stations came before it: unless MY_ fields are ignored, the
\* callsign is that of the record if it names one.
SignedByMatchingCert ==
    \A c \in tcontacts :
        /\ Certs[c.cert].call = c.call
        /\ log[c.n].date \in Certs[c.cert].dates
        /\ handling # "IGNORE" /\ log[c.n].call # None => c.call = log[c.n].call

\* No record is lost and none is handled twice, although one record takes
\* several calls: at the end of the file the caller was told exactly one thing
\* about each, and has a tCONTACT for those reported signed.  The record inside
\* which the ADIF parser stopped is reported as an error and may then be signed.
AllAccounted ==
    /\ pc = "eof" =>
           \A n \in DOMAIN log :
               LET told == {o \in Outcomes : <<n, o>> \in outcome} IN
               IF log[n].torn /\ log[n].kind # "unreadable"
               THEN "error" \in told /\ Cardinality(told) <= 2
               ELSE Cardinality(told) = 1
    /\ \A n \in DOMAIN log : <<n, "signed">> \in outcome <=> \E c \in tcontacts : c.n = n

StationOf(c) == CHOOSE s \in tstations : s.uid = c.station

\* The signature covers the station details of the tSTATION the tCONTACT refers
\* to ("the UID of the tSTATION record associated with this tCONTACT record").
ContactMatchesStation ==
    \A c \in tcontacts : StationOf(c).details = c.signed

\* As long as no record was refused for its location, every signature covers
\* the details of the tSTATION that its tCONTACT refers to, although the
\* location is changed record by record.
StationIsCurrent ==
    \A c \in tcontacts :
        \/ \E m \in 1..(c.n - 1) : <<m, "mismatch">> \in outcome
        \/ StationOf(c).details = c.signed

\* Unless duplicates are allowed, what was signed or dropped as a duplicate has
\* its entry in the duplicates database, in the current format.
Ledgered ==
    ~allow_dupes =>
        /\ \A c \in tcontacts : db[<<c.call, c.qso>>] # NoEntry
        /\ \A n \in DOMAIN log : <<n, "duplicate">> \in outcome =>
               \E c \in Calls : db[<<c, log[n].qso>>] # NoEntry

\* A QSO signed again has other station details than the last time, and they
\* differ only by fields that one of the two leaves empty ("This is a valid
\* update, delete the old one and let it update").  If a record in between was a
\* duplicate by an entry in the old format, its details take the place of those
\* signed last, because the entry is replaced by one in the current format.
NoResign ==
    ~allow_dupes => \A c, d \in tcontacts :
        LET between == (c.n + 1)..(d.n - 1) IN
        /\ c.n < d.n /\ c.call = d.call /\ c.qso = d.qso
        /\ ~\E e \in tcontacts : e.n \in between /\ e.call = c.call /\ e.qso = c.qso
        => \/ Resignable(c.signed, d.signed)
           \/ \E m \in between, e \in UNION OldEntries :
                 /\ <<m, "duplicate">> \in outcome /\ log[m].qso = c.qso
                 /\ e.qso = c.qso /\ Resignable(e.signed, d.signed)

OldEntryOf(c) == [serial |-> c.cert, qso |-> c.qso, signed |-> c.signed]

\* A QSO whose signature is recorded in the old format is not signed again
\* ("Old-style Lookup uses signdata and cert serial number") while the MY_
\* fields are compared, where every call notes the serial number of the
\* certificate in use; with MY_ fields ignored only emitting a tCERT notes it.
OldNotResigned ==
    handling # "IGNORE" /\ ~allow_dupes => \A c \in tcontacts : OldEntryOf(c) \notin old

\* The records that the loop of calls gets past: a signature is possible and
\* no zone is given as "0".
Passable(r) == r.kind # "unsignable" /\ r.zone # ZeroZone

\* The conversion of a log of such records ends: no record asks forever for a
\* tCERT, a tSTATION or an unlocked key.
ConversionEnds == (\A n \in DOMAIN log : Passable(log[n])) => <>Ended
=============================================================================
