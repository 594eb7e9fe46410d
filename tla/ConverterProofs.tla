-------------------------- MODULE ConverterProofs ---------------------------
(***************************************************************************)
(* Proofs about module Converter, for every log, list of certificates,     *)
(* station location and contents of the duplicates database.               *)
(*                                                                         *)
(* A record takes several calls, so the invariant says what is known of    *)
(* the record in hand between two of them: it is the one read last, nothing *)
(* was told of it yet, or it is one that the converter fails to sign again *)
(* and again.                                                              *)
(***************************************************************************)
EXTENDS Converter, SelectionProofs, FiniteSetTheorems, TLAPS

\* A record was begun and not finished.
InHand == ~rec_done /\ pc # "eof"

Types ==
    /\ log \in Seq(Records)
    /\ handling \in Handling
    /\ pc \in {"calling", "key", "eof", "stopped"}
    /\ nread \in 0..Len(log)
    /\ rec_done \in BOOLEAN
    /\ cert_idx \in DOMAIN Certs \cup {0}
    /\ cert_uids \in [DOMAIN Certs -> Nat]
    /\ next_cert_uid \in Nat \ {0}
    /\ loc_uid \in Nat
    /\ callsign \in Calls
    /\ loc \in Location
    /\ db \in [Keys -> Details \cup {NoEntry}]
    /\ old \subseteq UNION OldEntries
    /\ tcontacts \subseteq [n : 1..nread, qso : Qsos, call : Calls, cert : DOMAIN Certs,
                            station : Nat, signed : Details]

Position ==
    /\ InHand => nread # 0 /\ rec = log[nread]
    /\ pc = "key" => ~rec_done /\ rec.kind = "good"
    /\ pc = "eof" => nread = Len(log)

\* CERT_UIDs: every certificate that has one has its tCERT, and nothing shares it.
CertUids ==
    /\ cert_idx # 0 => cert_uids[cert_idx] # 0
    /\ cert_idx = 0 => \A i \in DOMAIN Certs : cert_uids[i] = 0
    /\ \A i \in DOMAIN Certs :
           /\ cert_uids[i] < next_cert_uid
           /\ cert_uids[i] # 0 => [uid |-> cert_uids[i], cert |-> i] \in tcerts
    /\ \A i, j \in DOMAIN Certs : cert_uids[i] = cert_uids[j] /\ cert_uids[i] # 0 => i = j
    /\ \A t \in tcerts : /\ t.cert \in DOMAIN Certs
                         /\ t.uid = cert_uids[t.cert] /\ t.uid # 0

\* Once a certificate is in use, the STATION_UID in use is that of a tSTATION.
StationUids ==
    /\ \A s \in tstations : \E t \in tcerts : t.uid = s.cert
    /\ cert_idx # 0 => need_station_rec \/ \E s \in tstations : s.uid = loc_uid
    /\ \A c \in tcontacts : \E s \in tstations : s.uid = c.station

\* Until the counter wraps, it numbers the tSTATIONs.
Numbered ==
    /\ IsFiniteSet(tstations)
    /\ Cardinality(tstations) < UidSpan =>
           /\ loc_uid = Cardinality(tstations)
           /\ \A s \in tstations : s.uid \in 1..loc_uid
           /\ \A s, t \in tstations : s.uid = t.uid => s = t

Told(n)  == {o \in Outcomes : <<n, o>> \in outcome}
Twice(n) == log[n].torn /\ log[n].kind # "unreadable"

\* The record in hand can only fail to be signed once more.
Stuck ==
    /\ rec.kind = "unsignable"
    /\ HasCert /\ ~FirstUse
    /\ Checked.ok /\ ~Checked.new /\ ~need_station_rec

Accounted ==
    /\ outcome \subseteq (1..nread) \X Outcomes
    /\ \A n \in 1..nread : (n = nread => ~InHand) =>
           \E o \in Outcomes : Told(n) = IF Twice(n) THEN {"error", o} ELSE {o}
    /\ InHand => Told(nread) \subseteq {"error"}
    /\ InHand /\ Twice(nread) => Told(nread) # {}
    /\ InHand /\ ~Twice(nread) => Told(nread) = {} \/ Stuck

Signatures ==
    \A n \in 1..nread : <<n, "signed">> \in outcome <=> \E c \in tcontacts : c.n = n

\* Among the records up to n, one was refused for its location.
RefusedUpTo(n) == \E m \in 1..n : <<m, "mismatch">> \in outcome

\* Before that happens, the selected item of a list field is that of its text,
\* and the tSTATION in use has the details of the location.
Current ==
    /\ \/ RefusedUpTo(nread)
       \/ /\ loc.zone.item = ItemOf(loc.zone.cdata)
          /\ cert_idx # 0 => need_station_rec \/
                 \E s \in tstations : s.uid = loc_uid /\ s.details = DetailsOf(loc)
    /\ \A c \in tcontacts : RefusedUpTo(c.n - 1) \/
           \E s \in tstations : s.uid = c.station /\ s.details = c.signed

\* What a contact has of its record, and its certificate.
Contacts ==
    /\ SignedByMatchingCert
    /\ \A c \in tcontacts : c.qso = log[c.n].qso

Same(c, d) == c.call = d.call /\ c.qso = d.qso

\* The entry of a QSO is what was signed for it last, or the entry in the old
\* format that a later duplicate was found by.
Entries == ~allow_dupes => \A c \in tcontacts :
    (\A e \in tcontacts : Same(c, e) => e.n <= c.n) =>
        \/ db[<<c.call, c.qso>>] = c.signed
        \/ \E m \in (c.n + 1)..nread, e \in UNION OldEntries :
               /\ <<m, "duplicate">> \in outcome /\ log[m].qso = c.qso
               /\ e.qso = c.qso /\ db[<<c.call, c.qso>>] = e.signed

ConverterInv ==
    /\ Types /\ Position /\ CertUids /\ StationUids /\ Numbered /\ Accounted /\ Signatures /\ Current
    /\ Contacts /\ Ledgered /\ OldNotResigned /\ Entries /\ NoResign

-----------------------------------------------------------------------------
(* The proofs: what the operators return.                                  *)

\* The record of a call is the one read last, or the next one.
LEMMA TheRecord ==
    ASSUME Types, Position, pc = "calling", rec_done => Unread
    PROVE  /\ CurN \in 1..Len(log) /\ CurN \in Nat /\ nread \in Nat /\ nread <= CurN
           /\ rec_done => CurN = nread + 1
           /\ ~rec_done => CurN = nread /\ InHand
           /\ Cur = log[CurN] /\ Cur \in Records
<1>1. nread \in Nat /\ nread <= Len(log) /\ Len(log) \in Nat
    BY DEF Types
<1>2. CASE rec_done
    <2>1. CurN = nread + 1 /\ CurN \in 1..Len(log) /\ Cur = log[CurN]
        BY <1>1, <1>2 DEF CurN, Cur, Next1, Unread
    <2> QED BY <1>1, <1>2, <2>1 DEF Types
<1>3. CASE ~rec_done
    <2>1. CurN = nread /\ InHand /\ Cur = log[CurN] /\ nread # 0
        BY <1>3 DEF CurN, Cur, InHand, Position
    <2> QED BY <1>1, <1>3, <2>1 DEF Types
<1> QED BY <1>2, <1>3 DEF Types

\* find_matching_cert returns a certificate for the callsign and the date.
LEMMA TheCertMatches ==
    ASSUME Types, Cur \in Records, HasCert
    PROVE  /\ TheCert \in DOMAIN Certs /\ TheCert \in Nat \ {0}
           /\ Certs[TheCert].call = TheCall /\ Cur.date \in Certs[TheCert].dates
           /\ TheCall \in Calls
<1> DEFINE M == Matching(TheCall, Cur.date)
<1>1. M # {} /\ M \subseteq DOMAIN Certs /\ M \subseteq Nat \ {0}
    BY CertsAssumption DEF HasCert, Matching
<1>2. \E i \in M : \A j \in M : i <= j
    BY <1>1, LeastExists
<1>3. TheCert \in M
    BY <1>2 DEF TheCert
<1>4. TheCall \in Calls
    BY DEF TheCall, Types, Records
<1> QED BY <1>1, <1>3, <1>4 DEF Matching

\* What the checks of the MY_ fields hand on.
Checks == [loc : Location, new : BOOLEAN, ok : BOOLEAN]

\* One check keeps what was found before; it changes the location only when it
\* asks for a station record or refuses, and lets the list item follow the text
\* unless it refuses.
Keeps(s, r) ==
    /\ r \in Checks
    /\ r.ok => s.ok
    /\ r.ok /\ ~r.new => r = s
    /\ r.ok /\ s.loc.zone.item = ItemOf(s.loc.zone.cdata) =>
           r.loc.zone.item = ItemOf(r.loc.zone.cdata)

LEMMA CheckGridKeeps ==
    ASSUME Cur \in Records, NEW s \in Checks
    PROVE  Keeps(s, CheckGrid(s))
BY DEF CheckGrid, Keeps, Checks, Location, ListField, Records

LEMMA CheckIotaKeeps ==
    ASSUME Cur \in Records, NEW s \in Checks
    PROVE  Keeps(s, CheckIota(s))
BY DEF CheckIota, Keeps, Checks, Location, ListField, Records

LEMMA CheckZoneKeeps ==
    ASSUME Cur \in Records, NEW s \in Checks
    PROVE  Keeps(s, CheckZone(s))
<1>1. CASE ~s.ok \/ Cur.zone = None \/ Cur.zone = Shown(s.loc.zone.cdata)
    BY <1>1 DEF CheckZone, Keeps
<1>2. CASE ~(~s.ok \/ Cur.zone = None \/ Cur.zone = Shown(s.loc.zone.cdata))
    <2> DEFINE listed == Cur.zone \in Items
               field == [cdata |-> Cur.zone,
                         item |-> IF listed THEN Cur.zone ELSE s.loc.zone.item]
               set(n, k) == [s EXCEPT !.loc.zone = field, !.new = n, !.ok = k]
    <2>1. /\ s.loc \in Location /\ s.loc.zone \in ListField /\ s.new \in BOOLEAN /\ s.ok = TRUE
          /\ Cur.zone \in Zones
        BY <1>2 DEF Checks, Location, Records
    <2>2. field \in ListField
        BY <2>1 DEF ListField
    <2>3. field.item = ItemOf(field.cdata) \/ (~listed /\ field.item = s.loc.zone.item)
        BY DEF ItemOf
    <2>4. \A n, k \in BOOLEAN : /\ set(n, k) \in Checks /\ set(n, k).loc.zone = field
                              /\ set(n, k).new = n /\ set(n, k).ok = k
        BY <2>1, <2>2, ZenonT(60) DEF Checks, Location
    <2>5. CASE handling = "UPDATE"
        <3>1. CheckZone(s) = set(listed \/ s.new, listed)
            BY <1>2, <2>5 DEF CheckZone
        <3>2. CASE listed
            <4>1. CheckZone(s) = set(TRUE, TRUE)
                BY <3>1, <3>2
            <4> HIDE DEF set
            <4> QED BY <4>1, <2>1, <2>3, <2>4, <3>2 DEF Keeps
        <3>3. CASE ~listed
            <4>1. listed = FALSE /\ (listed \/ s.new) = s.new
                BY <2>1, <3>3
            <4>2. CheckZone(s) = set(s.new, FALSE)
                BY <3>1, <4>1
            <4> HIDE DEF set
            <4> QED BY <4>2, <2>1, <2>4 DEF Keeps
        <3> QED BY <3>2, <3>3
    <2>6. CASE handling # "UPDATE" /\ Shown(s.loc.zone.cdata) = None
        <3>1. CheckZone(s) = set(TRUE, TRUE)
            BY <1>2, <2>1, <2>6 DEF CheckZone
        <3>2. ItemOf(s.loc.zone.cdata) = None
            BY <2>6, FieldAssumption DEF ItemOf, Shown
        <3>3. s.loc.zone.item = None => field.item = ItemOf(field.cdata)
            BY DEF ItemOf
        <3> HIDE DEF set, field
        <3> QED BY <3>1, <3>2, <3>3, <2>1, <2>4 DEF Keeps
    <2>7. CASE handling # "UPDATE" /\ Shown(s.loc.zone.cdata) # None
        <3>1. CheckZone(s) = [s EXCEPT !.ok = FALSE]
            BY <1>2, <2>7 DEF CheckZone
        <3> QED BY <3>1 DEF Keeps, Checks
    <2> QED BY <2>5, <2>6, <2>7
<1> QED BY <1>1, <1>2

\* A call that switches to a certificate used before changes only the callsign
\* of a location whose list items follow their texts.
LEMMA LocBeforeType ==
    ASSUME Types, TheCall \in Calls
    PROVE  /\ LocBefore \in Location /\ SwitchedLoc \in Location
           /\ SwitchedLoc.zone.item = ItemOf(SwitchedLoc.zone.cdata)
           /\ loc.zone.item = ItemOf(loc.zone.cdata) =>
                  /\ LocBefore.zone.item = ItemOf(LocBefore.zone.cdata)
                  /\ DetailsOf(LocBefore) = DetailsOf(loc)
<1>1. ItemOf(loc.zone.cdata) \in Zones \cup {None}
    BY FieldAssumption DEF ItemOf, Types, Location, ListField
<1> QED BY <1>1 DEF LocBefore, SwitchedLoc, Types, Location, ListField, DetailsOf

\* The three checks in a row.
LEMMA CheckedKeeps ==
    ASSUME Types, Cur \in Records, TheCall \in Calls
    PROVE  /\ Checked \in Checks
           /\ Checked.ok /\ ~Checked.new => Checked.loc = LocBefore
           /\ Checked.ok /\ LocBefore.zone.item = ItemOf(LocBefore.zone.cdata) =>
                  Checked.loc.zone.item = ItemOf(Checked.loc.zone.cdata)
<1> DEFINE s == [loc |-> LocBefore, new |-> FALSE, ok |-> TRUE]
<1>1. s \in Checks
    BY LocBeforeType DEF Checks
<1>2. PICK g : g = CheckGrid(s)
    OBVIOUS
<1>3. PICK z : z = CheckZone(g)
    OBVIOUS
<1>4. PICK i : i = CheckIota(z)
    OBVIOUS
<1>5. Keeps(s, g)
    BY <1>1, <1>2, CheckGridKeeps
<1>6. Keeps(g, z)
    BY <1>3, <1>5, CheckZoneKeeps DEF Keeps
<1>7. Keeps(z, i)
    BY <1>4, <1>6, CheckIotaKeeps DEF Keeps
<1>8. Checked = IF handling = "IGNORE" THEN s ELSE i
    BY <1>2, <1>3, <1>4 DEF Checked
<1> QED BY <1>1, <1>5, <1>6, <1>7, <1>8 DEF Keeps

LEMMA DetailsType ==
    ASSUME NEW l \in Location
    PROVE  DetailsOf(l) \in Details /\ DetailsOf(l) # NoEntry
BY DEF DetailsOf, Location, ListField, Details, NoEntry

-----------------------------------------------------------------------------
(* The proofs: what the actions do.                                        *)

\* What a call that works on a record has in hand, and leaves in hand.
LEMMA WorkingRecord ==
    ASSUME Types, Position, Working, UNCHANGED log
    PROVE  /\ CurN \in 1..Len(log) /\ CurN \in Nat /\ nread \in Nat /\ nread <= CurN
           /\ rec_done => CurN = nread + 1
           /\ ~rec_done => CurN = nread /\ InHand
           /\ Cur = log[CurN] /\ Cur \in Records
           /\ nread' = CurN /\ nread' \in 0..Len(log') /\ nread' # 0
           /\ rec' = log'[nread']
<1>1. pc = "calling" /\ (rec_done => Unread) /\ nread' = CurN /\ rec' = Cur
    BY DEF Working
<1> QED BY <1>1, TheRecord

\* What a call that has chosen its certificate knows.
LEMMA SelectedCert ==
    ASSUME Types, Position, CertUids, Selected, UNCHANGED log
    PROVE  /\ TheCert \in DOMAIN Certs /\ TheCert # 0 /\ cert_uids[TheCert] # 0
           /\ cert_idx # 0
           /\ Certs[TheCert].call = TheCall /\ Cur.date \in Certs[TheCert].dates
           /\ TheCall \in Calls
           /\ Checked \in Checks
           /\ LocBefore \in Location
<1>1. Cur \in Records
    BY WorkingRecord DEF Selected, Accepted
<1>2. HasCert
    BY DEF Selected
<1>3. /\ TheCert \in DOMAIN Certs /\ TheCert # 0
      /\ Certs[TheCert].call = TheCall /\ Cur.date \in Certs[TheCert].dates
      /\ TheCall \in Calls
    BY <1>1, <1>2, TheCertMatches
<1>4. cert_uids[TheCert] # 0 /\ cert_idx # 0
    BY <1>3 DEF Selected, FirstUse, CertUids
<1>5. Checked \in Checks /\ LocBefore \in Location
    BY <1>1, <1>3, CheckedKeeps, LocBeforeType
<1> QED BY <1>3, <1>4, <1>5

\* The contacts of a longer log prefix.
LEMMA ContactsLater ==
    ASSUME Types, NEW n \in Nat, nread <= n
    PROVE  tcontacts \subseteq [n : 1..n, qso : Qsos, call : Calls, cert : DOMAIN Certs,
                                station : Nat, signed : Details]
BY DEF Types

LEMMA TypesStep ==
    ASSUME Types, Position, CertUids, Next
    PROVE  Types'
<1> USE DEF input, certv, dupes, emitted
<1>0. nread \in Nat /\ Len(log) \in Nat
    BY DEF Types
<1>1. CASE EndOfFile
    BY <1>1 DEF EndOfFile, Types
<1>2. ASSUME Unreadable \/ TornRecord PROVE Types'
    <2>0. rec_done' \in BOOLEAN /\ UNCHANGED <<log, tcontacts, pc>>
        BY <1>2 DEF Unreadable, TornRecord, Types
    <2>1. nread' = nread + 1 /\ nread' <= Len(log)
        BY <1>0, <1>2 DEF Unreadable, TornRecord, Unread
    <2>2. nread' \in 0..Len(log') /\ nread' \in Nat /\ nread <= nread'
        BY <1>0, <2>0, <2>1
    <2>3. tcontacts' \subseteq [n : 1..nread', qso : Qsos, call : Calls, cert : DOMAIN Certs,
                                station : Nat, signed : Details]
        BY <2>0, <2>2, ContactsLater
    <2> QED BY <1>2, <2>0, <2>2, <2>3 DEF Unreadable, TornRecord, Types
<1>3. ASSUME Working, UNCHANGED <<input, tcontacts>>
      PROVE  /\ nread' \in 0..Len(log')
             /\ tcontacts' \subseteq [n : 1..nread', qso : Qsos, call : Calls,
                                      cert : DOMAIN Certs, station : Nat, signed : Details]
             /\ Cur \in Records
    <2>1. nread' \in 0..Len(log') /\ nread' \in Nat /\ nread <= nread' /\ Cur \in Records
        BY <1>3, WorkingRecord
    <2> QED BY <1>3, <2>1, ContactsLater
<1>4. CASE Reject
    <2>1. CallAfterReading \in Calls
        BY <1>3, <1>4 DEF CallAfterReading, Types, Records, Reject
    <2> QED BY <1>3, <1>4, <2>1 DEF Reject, Types
<1>5. ASSUME Accepted, UNCHANGED <<input, tcontacts>> PROVE TheCall \in Calls
    BY <1>3, <1>5 DEF TheCall, Types, Records, Accepted
<1>6. CASE NoCertificate
    BY <1>3, <1>5, <1>6 DEF NoCertificate, Accepted, Types
<1>7. CASE EmitCert
    <2>1. TheCert \in DOMAIN Certs
        BY <1>3, <1>7, TheCertMatches DEF EmitCert, Accepted
    <2>2. loc' \in Location
        BY <1>5, <1>7, LocBeforeType DEF EmitCert
    <2>3. UNCHANGED <<input, tcontacts>> /\ callsign' = TheCall /\ Accepted
        BY <1>7 DEF EmitCert
    <2>4. /\ nread' \in 0..Len(log') /\ callsign' \in Calls
          /\ tcontacts' \subseteq [n : 1..nread', qso : Qsos, call : Calls,
                                   cert : DOMAIN Certs, station : Nat, signed : Details]
        BY <1>3, <1>5, <2>3 DEF Accepted
    <2>5. next_cert_uid' \in Nat \ {0} /\ cert_uids' \in [DOMAIN Certs -> Nat]
        <3>1. next_cert_uid \in Nat \ {0} /\ cert_uids \in [DOMAIN Certs -> Nat]
            BY DEF Types
        <3>2. /\ next_cert_uid' = next_cert_uid + 1
              /\ cert_uids' = [cert_uids EXCEPT ![TheCert] = next_cert_uid]
            BY <1>7 DEF EmitCert
        <3>3. next_cert_uid' \in Nat \ {0}
            BY <3>1, <3>2
        <3>4. next_cert_uid \in Nat
            BY <3>1
        <3> QED BY <3>1, <3>2, <3>3, <3>4
    <2>6. cert_idx' = TheCert /\ rec_done' = FALSE /\ UNCHANGED <<input, pc, loc_uid, dupes>>
        BY <1>7 DEF EmitCert
    <2> QED BY <2>1, <2>2, <2>4, <2>5, <2>6 DEF Types
<1>8. ASSUME Selected, UNCHANGED <<input, tcontacts>>,
             cert_idx' = TheCert, callsign' = TheCall, loc' = Checked.loc,
             UNCHANGED <<cert_uids, next_cert_uid>>
      PROVE  /\ nread' \in 0..Len(log')
             /\ tcontacts' \subseteq [n : 1..nread', qso : Qsos, call : Calls,
                                      cert : DOMAIN Certs, station : Nat, signed : Details]
             /\ cert_idx' \in DOMAIN Certs /\ callsign' \in Calls /\ loc' \in Location
    <2>1. /\ TheCert \in DOMAIN Certs /\ TheCall \in Calls
          /\ Checked.loc \in Location
        BY <1>8, SelectedCert DEF Checks
    <2> QED BY <1>3, <1>8, <2>1 DEF Selected, Accepted
<1>9. CASE Mismatch
    BY <1>8, <1>9 DEF Mismatch, UseCert, TakeCert, Types
<1>10. CASE EmitStation
    <2>1. loc_uid' \in Nat
        BY <1>10, InputAssumption DEF EmitStation, Types
    <2> QED BY <1>8, <1>10, <2>1 DEF EmitStation, TakeCert, Types
<1>11. CASE CannotSign
    BY <1>8, <1>11 DEF CannotSign, Ready, UseCert, TakeCert, Types
<1>12. CASE NeedKey
    BY <1>8, <1>12 DEF NeedKey, Ready, UseCert, TakeCert, Types
<1>13. CASE EmitContact
    <2>1. Selected /\ UNCHANGED <<input, pc, loc_uid>> /\ rec_done' = TRUE
          /\ cert_idx' = TheCert /\ callsign' = TheCall /\ loc' = Checked.loc
          /\ UNCHANGED <<cert_uids, next_cert_uid>>
        BY <1>13 DEF EmitContact, SignIt, Ready, UseCert, TakeCert
    <2>2. /\ TheCert \in DOMAIN Certs /\ TheCall \in Calls
          /\ LocBefore \in Location /\ Checked.loc \in Location
        BY <2>1, SelectedCert DEF Checks
    <2>3. /\ CurN \in 1..nread' /\ nread' \in 0..Len(log') /\ nread' \in Nat /\ nread <= nread'
          /\ Cur.qso \in Qsos
        BY <2>1, WorkingRecord DEF Selected, Accepted, Records
    <2>4. DetailsOf(LocBefore) \in Details
        BY <2>2, DetailsType
    <2>5. [n |-> CurN, qso |-> Cur.qso, call |-> TheCall, cert |-> TheCert,
           station |-> loc_uid, signed |-> DetailsOf(LocBefore)]
          \in [n : 1..nread', qso : Qsos, call : Calls, cert : DOMAIN Certs,
               station : Nat, signed : Details]
        BY <2>2, <2>3, <2>4 DEF Types
    <2>6. tcontacts \subseteq [n : 1..nread', qso : Qsos, call : Calls, cert : DOMAIN Certs,
                               station : Nat, signed : Details]
        BY <2>3, ContactsLater
    <2>7. /\ tcontacts' \subseteq [n : 1..nread', qso : Qsos, call : Calls, cert : DOMAIN Certs,
                               station : Nat, signed : Details]
          /\ old' = old
        BY <1>13, <2>5, <2>6 DEF EmitContact
    <2>8. db' \in [Keys -> Details \cup {NoEntry}]
        BY <1>13, <2>4 DEF EmitContact, Store, Types
    <2> QED BY <2>1, <2>2, <2>3, <2>7, <2>8 DEF Types
<1>14. CASE Duplicate
    <2>1. Selected /\ UNCHANGED <<input, pc, loc_uid, tcontacts>> /\ rec_done' = TRUE
          /\ cert_idx' = TheCert /\ callsign' = TheCall /\ loc' = Checked.loc
          /\ UNCHANGED <<cert_uids, next_cert_uid>>
        BY <1>14 DEF Duplicate, SignIt, Ready, UseCert, TakeCert
    <2>2. LocBefore \in Location
        BY <2>1, SelectedCert
    <2>3. DetailsOf(LocBefore) \in Details
        BY <2>2, DetailsType
    <2>4. db' \in [Keys -> Details \cup {NoEntry}] /\ old' \subseteq old
        BY <1>14, <2>3 DEF Duplicate, Store, Types
    <2> QED BY <1>8, <2>1, <2>4 DEF Types
<1>15. CASE UnlockKey
    BY <1>15 DEF UnlockKey, Types
<1>16. CASE KeyRefused
    BY <1>16 DEF KeyRefused, Types
<1> QED
    BY <1>1, <1>2, <1>4, <1>6, <1>7, <1>9, <1>10, <1>11, <1>12, <1>13, <1>14, <1>15, <1>16
    DEF Next, Call

\* Which action changes what: the others leave it alone.
LEMMA Frame ==
    ASSUME Next
    PROVE  /\ UNCHANGED <<log, handling, allow_dupes>>
           /\ EmitCert \/ UNCHANGED <<cert_uids, next_cert_uid, tcerts>>
           /\ EmitStation \/ UNCHANGED <<loc_uid, tstations>>
           /\ EmitContact \/ UNCHANGED tcontacts
           /\ EmitContact \/ Duplicate \/ UNCHANGED <<db, old>>
           /\ EmitCert \/ EmitStation \/ UNCHANGED need_station_rec
           /\ EmitCert \/ UNCHANGED cert_idx \/ (Selected /\ cert_idx' = TheCert)
BY DEF Next, Call, EndOfFile, Unreadable, TornRecord, Reject, NoCertificate, EmitCert, Mismatch,
       EmitStation, CannotSign, NeedKey, EmitContact, Duplicate, UnlockKey, KeyRefused,
       Ready, SignIt, UseCert, TakeCert, input, certv, dupes, emitted

\* How a step goes on with the log: it reads no record, takes one that cannot
\* be worked on, or works on one.
LEMMA Reading ==
    ASSUME Next
    PROVE  \/ EndOfFile
           \/ Unreadable
           \/ TornRecord
           \/ Working /\ UNCHANGED log /\ pc' \in {pc, "key"} /\ (pc' = "key" => NeedKey)
           \/ /\ pc = "key" /\ pc' \in {"calling", "stopped"}
              /\ UNCHANGED <<log, nread, rec, rec_done, outcome>>
<1>1. ASSUME Working, UNCHANGED input, UNCHANGED pc
      PROVE  Working /\ UNCHANGED log /\ pc' \in {pc, "key"} /\ (pc' = "key" => NeedKey)
    BY <1>1 DEF Working, input
<1>2. CASE Reject \/ NoCertificate \/ EmitCert
    BY <1>1, <1>2 DEF Reject, NoCertificate, EmitCert, Accepted
<1>3. CASE Mismatch \/ EmitStation \/ CannotSign \/ EmitContact \/ Duplicate
    BY <1>1, <1>3 DEF Mismatch, EmitStation, CannotSign, EmitContact, Duplicate, SignIt, Ready,
                      Selected, Accepted
<1>4. CASE NeedKey
    BY <1>4 DEF NeedKey, Ready, Selected, Accepted, input
<1>5. CASE UnlockKey \/ KeyRefused
    BY <1>5 DEF UnlockKey, KeyRefused, input
<1> QED BY <1>2, <1>3, <1>4, <1>5 DEF Next, Call

LEMMA ReadOn ==
    ASSUME Types, Position, Next
    PROVE  nread \in Nat /\ nread' \in Nat /\ nread <= nread' /\ nread' <= Len(log)
<1>1. nread \in Nat /\ Len(log) \in Nat /\ nread <= Len(log)
    BY DEF Types
<1>2. CASE EndOfFile \/ (pc = "key" /\ UNCHANGED nread)
    BY <1>1, <1>2 DEF EndOfFile
<1>3. CASE Unreadable \/ TornRecord
    BY <1>1, <1>3 DEF Unreadable, TornRecord, Unread
<1>4. CASE Working /\ UNCHANGED log
    BY <1>1, <1>4, WorkingRecord
<1> QED BY <1>2, <1>3, <1>4, Reading

-----------------------------------------------------------------------------
(* The proofs: every step keeps every part of the invariant.               *)

LEMMA PositionStep ==
    ASSUME Types, Position, Next
    PROVE  Position'
<1>0. CASE EndOfFile
    <2>1. /\ pc' = "eof" /\ nread' = nread /\ log' = log /\ ~(nread < Len(log))
          /\ nread \in 0..Len(log) /\ Len(log) \in Nat
        BY <1>0 DEF EndOfFile, Unread, input, Types
    <2>2. nread' = Len(log')
        BY <2>1
    <2> QED BY <2>1, <2>2 DEF Position, InHand
<1>1. CASE Unreadable
    BY <1>1 DEF Unreadable, Position, InHand
<1>2. CASE TornRecord
    <2>1. nread' = nread + 1 /\ rec' = log'[nread'] /\ pc' = "calling" /\ nread \in Nat
        BY <1>2 DEF TornRecord, Next1, input, Types
    <2> QED BY <2>1 DEF Position
<1>3. CASE Working /\ UNCHANGED log /\ pc' \in {pc, "key"} /\ (pc' = "key" => NeedKey)
    <2>1. nread' # 0 /\ rec' = log'[nread'] /\ pc = "calling" /\ rec' = Cur
        BY <1>3, WorkingRecord DEF Working
    <2>2. pc' = "key" => rec_done' = FALSE /\ rec'.kind = "good"
        BY <1>3, <2>1 DEF NeedKey
    <2> QED BY <1>3, <2>1, <2>2 DEF Position
<1>4. CASE /\ pc = "key" /\ pc' \in {"calling", "stopped"}
           /\ UNCHANGED <<log, nread, rec, rec_done>>
    BY <1>4 DEF Position, InHand
<1> QED BY <1>0, <1>1, <1>2, <1>3, <1>4, Reading

LEMMA CertUidsStep ==
    ASSUME Types, Position, CertUids, Next
    PROVE  CertUids'
<1>1. CASE EmitCert
    <2>1. Cur \in Records /\ HasCert
        BY <1>1, WorkingRecord DEF EmitCert, Accepted, input
    <2>2. TheCert \in DOMAIN Certs /\ TheCert # 0
        BY <2>1, TheCertMatches
    <2>3. /\ next_cert_uid \in Nat \ {0} /\ cert_uids \in [DOMAIN Certs -> Nat]
          /\ cert_uids[TheCert] = 0
        BY <1>1 DEF Types, EmitCert, FirstUse
    <2>4. /\ cert_idx' = TheCert
          /\ cert_uids' = [cert_uids EXCEPT ![TheCert] = next_cert_uid]
          /\ next_cert_uid' = next_cert_uid + 1
          /\ tcerts' = tcerts \cup {[uid |-> next_cert_uid, cert |-> TheCert]}
        BY <1>1 DEF EmitCert
    <2>5. PICK k, u : k = TheCert /\ u = next_cert_uid
        OBVIOUS
    <2>6. /\ cert_uids'[k] = u /\ \A i \in DOMAIN Certs : i # k => cert_uids'[i] = cert_uids[i]
          /\ u \in Nat /\ u # 0 /\ next_cert_uid' = u + 1
          /\ cert_idx' = k /\ k \in DOMAIN Certs /\ k # 0
          /\ tcerts' = tcerts \cup {[uid |-> u, cert |-> k]}
        BY <2>2, <2>3, <2>4, <2>5
    <2>7. \A i \in DOMAIN Certs : cert_uids[i] \in Nat /\ cert_uids[i] < u
        BY <2>3, <2>5 DEF CertUids
    <2>8. \A i \in DOMAIN Certs :
             /\ cert_uids'[i] < next_cert_uid'
             /\ cert_uids'[i] # 0 => [uid |-> cert_uids'[i], cert |-> i] \in tcerts'
        <3>1. TAKE i \in DOMAIN Certs
        <3>2. CASE i = k
            BY <2>6, <3>2
        <3>3. CASE i # k
            BY <2>6, <2>7, <3>3 DEF CertUids
        <3> QED BY <3>2, <3>3
    <2>9. \A i, j \in DOMAIN Certs : cert_uids'[i] = cert_uids'[j] /\ cert_uids'[i] # 0 => i = j
        BY <2>6, <2>7 DEF CertUids
    <2>10. \A t \in tcerts' : /\ t.cert \in DOMAIN Certs
                              /\ t.uid = cert_uids'[t.cert] /\ t.uid # 0
        <3>1. cert_uids[k] = 0
            BY <2>3, <2>5
        <3> QED BY <2>6, <3>1 DEF CertUids
    <2> QED BY <2>6, <2>8, <2>9, <2>10 DEF CertUids
<1>2. CASE ~EmitCert
    <2>1. UNCHANGED <<log, cert_uids, next_cert_uid, tcerts>>
        BY <1>2, Frame
    <2>2. CASE UNCHANGED cert_idx
        BY <2>1, <2>2 DEF CertUids
    <2>3. CASE Selected /\ cert_idx' = TheCert
        <3>1. TheCert # 0 /\ cert_uids[TheCert] # 0
            BY <2>1, <2>3, SelectedCert
        <3>2. cert_idx' # 0 /\ cert_uids'[cert_idx'] # 0
            BY <2>1, <2>3, <3>1
        <3> QED BY <2>1, <3>2 DEF CertUids
    <2> QED BY <1>2, <2>2, <2>3, Frame
<1> QED BY <1>1, <1>2

\* What is added to the sets of GABBI records.
LEMMA StationEmitted ==
    ASSUME Types, Position, CertUids, EmitStation
    PROVE  \E s : /\ tstations' = tstations \cup {s}
                  /\ s.uid = loc_uid' /\ s.details = DetailsOf(Checked.loc)
                  /\ \E t \in tcerts : t.uid = s.cert
<1>1. Selected /\ UNCHANGED log
    BY DEF EmitStation, input
<1>2. PICK s : s = [uid |-> loc_uid', cert |-> cert_uid', call |-> loc'.call,
                    details |-> DetailsOf(loc')]
    OBVIOUS
<1>3. tstations' = tstations \cup {s} /\ s.cert = cert_uids[TheCert] /\ s.uid = loc_uid'
    BY <1>2 DEF EmitStation, TakeCert
<1>4. PICK l : l = Checked.loc
    OBVIOUS
<1>5. loc' = l
    BY <1>4 DEF EmitStation
<1>6. s.details = DetailsOf(l)
    BY <1>2, <1>5 DEF DetailsOf
<1>7. [uid |-> cert_uids[TheCert], cert |-> TheCert] \in tcerts
    BY <1>1, SelectedCert DEF CertUids
<1> QED BY <1>3, <1>4, <1>6, <1>7

LEMMA StationUidsStep ==
    ASSUME Types, Position, CertUids, StationUids, Next
    PROVE  StationUids'
<1>1. CASE EmitCert
    <2>1. UNCHANGED <<tstations, tcontacts>> /\ need_station_rec' = TRUE /\ tcerts \subseteq tcerts'
        BY <1>1 DEF EmitCert
    <2> QED BY <2>1 DEF StationUids
<1>2. CASE EmitStation
    <2>1. UNCHANGED <<tcerts, tcontacts>>
        BY <1>2 DEF EmitStation
    <2>2. PICK s : /\ tstations' = tstations \cup {s} /\ s.uid = loc_uid'
                   /\ \E t \in tcerts : t.uid = s.cert
        BY <1>2, StationEmitted
    <2> QED BY <2>1, <2>2 DEF StationUids
<1>3. CASE ~EmitCert /\ ~EmitStation
    <2>1. UNCHANGED <<tcerts, tstations, loc_uid, need_station_rec>>
        BY <1>3, Frame
    <2>2. cert_idx' # 0 => cert_idx # 0
        BY <1>3, Frame, SelectedCert
    <2>3. CASE EmitContact
        <3>1. PICK c : c.station = loc_uid /\ tcontacts' = tcontacts \cup {c}
            BY <2>3 DEF EmitContact
        <3>2. Selected /\ ~need_station_rec /\ UNCHANGED log
            BY <2>3 DEF EmitContact, SignIt, Ready, input
        <3>3. \E s \in tstations : s.uid = c.station
            BY <3>1, <3>2, SelectedCert DEF StationUids
        <3> QED BY <2>1, <2>2, <3>1, <3>3 DEF StationUids
    <2>4. CASE UNCHANGED tcontacts
        BY <2>1, <2>2, <2>4 DEF StationUids
    <2> QED BY <2>3, <2>4, Frame
<1> QED BY <1>1, <1>2, <1>3

LEMMA NumberedStep ==
    ASSUME Types, Position, CertUids, Numbered, Next
    PROVE  Numbered'
<1>1. CASE EmitStation
    <2>1. PICK s : tstations' = tstations \cup {s} /\ s.uid = loc_uid'
        BY <1>1, StationEmitted
    <2>2. loc_uid' = (loc_uid + 1) % UidSpan
        BY <1>1 DEF EmitStation
    <2>3. PICK k : k = Cardinality(tstations)
        OBVIOUS
    <2>4. IsFiniteSet(tstations) /\ k \in Nat
        BY <2>3, FS_CardinalityType DEF Numbered
    <2>5. /\ IsFiniteSet(tstations')
          /\ Cardinality(tstations') = IF s \in tstations THEN k ELSE k + 1
        BY <2>1, <2>3, <2>4, FS_AddElement
    <2>6. ASSUME Cardinality(tstations') < UidSpan
          PROVE  /\ loc_uid' = Cardinality(tstations')
                 /\ \A x \in tstations' : x.uid \in 1..loc_uid'
                 /\ \A x, y \in tstations' : x.uid = y.uid => x = y
        <3>1. k < UidSpan /\ UidSpan \in Nat
            BY <2>4, <2>5, <2>6, InputAssumption
        <3>2. /\ loc_uid = k
              /\ \A x \in tstations : x.uid \in 1..k
              /\ \A x, y \in tstations : x.uid = y.uid => x = y
            BY <2>3, <3>1 DEF Numbered
        <3>3. k + 1 < UidSpan
            <4>1. CASE k + 1 = UidSpan
                <5>1. s.uid = 0
                    BY <2>1, <2>2, <2>4, <3>1, <3>2, <4>1
                <5>2. s \notin tstations
                    BY <2>4, <3>2, <5>1
                <5> QED BY <2>4, <2>5, <2>6, <4>1, <5>2
            <4> QED BY <2>4, <3>1, <4>1
        <3>4. loc_uid' = k + 1
            BY <2>2, <2>4, <3>1, <3>2, <3>3
        <3>5. s \notin tstations
            BY <2>1, <2>4, <3>2, <3>4
        <3>6. Cardinality(tstations') = k + 1
            BY <2>5, <3>5
        <3>7. \A x \in tstations : x.uid \in 1..(k + 1) /\ x.uid # k + 1
            BY <2>4, <3>2
        <3> QED BY <2>1, <2>4, <3>2, <3>4, <3>6, <3>7
    <2> QED BY <2>5, <2>6 DEF Numbered
<1>2. CASE UNCHANGED <<loc_uid, tstations>>
    BY <1>2 DEF Numbered
<1> QED BY <1>1, <1>2, Frame

\* What telling the caller o about record k adds.
LEMMA ToldMore ==
    ASSUME NEW k, NEW o \in Outcomes, outcome' = outcome \cup {<<k, o>>}
    PROVE  /\ Told(k)' = Told(k) \cup {o}
           /\ \A n : n # k => Told(n)' = Told(n)
BY DEF Told

\* A record not read yet was told nothing about.
LEMMA NothingTold ==
    ASSUME Types, Accounted
    PROVE  Told(nread + 1) = {}
<1>1. nread \in Nat /\ nread + 1 \notin 1..nread
    BY DEF Types
<1> QED BY <1>1 DEF Accounted, Told

\* Only CannotSign works on a record that is stuck.
LEMMA NotStuck ==
    ASSUME \/ Reject \/ NoCertificate \/ EmitCert \/ Mismatch \/ EmitStation
           \/ NeedKey \/ EmitContact \/ Duplicate
    PROVE  rec_done \/ ~Stuck
<1> SUFFICES ASSUME ~rec_done, Stuck PROVE FALSE
    OBVIOUS
<1>1. Cur = rec
    BY DEF Cur
<1>2. /\ Cur.kind = "unsignable" /\ HasCert /\ ~FirstUse
      /\ Checked.ok /\ ~Checked.new /\ ~need_station_rec
    BY <1>1 DEF Stuck
<1> QED BY <1>2 DEF Reject, NoCertificate, EmitCert, Mismatch, EmitStation, NeedKey, EmitContact,
                    Duplicate, SignIt

\* What was told about the record in hand before a call works on it.
LEMMA ToldBefore ==
    ASSUME Types, Position, Accounted, Working, UNCHANGED log, rec_done \/ ~Stuck
    PROVE  Told(CurN) = IF Twice(CurN) THEN {"error"} ELSE {}
<1>1. CASE rec_done
    <2>1. CurN = nread + 1 /\ ~Twice(CurN)
        BY <1>1 DEF CurN, Working, Next1, Twice
    <2> QED BY <2>1, NothingTold
<1>2. CASE ~rec_done
    <2>1. CurN = nread /\ InHand
        BY <1>2, WorkingRecord
    <2> QED BY <1>2, <2>1 DEF Accounted
<1> QED BY <1>1, <1>2

\* A call that finishes its record tells one thing about it.
LEMMA FinishRecord ==
    ASSUME Types, Position, Accounted, Working, UNCHANGED log, rec_done \/ ~Stuck,
           rec_done' = TRUE, NEW o \in Outcomes, outcome' = outcome \cup {<<CurN, o>>}
    PROVE  Accounted'
<1>1. PICK k : k = CurN
    OBVIOUS
<1>2. /\ k \in Nat /\ k # 0 /\ nread \in Nat /\ nread <= k /\ nread' = k
      /\ (rec_done => k = nread + 1) /\ (~rec_done => k = nread)
    BY <1>1, WorkingRecord
<1>3. Told(k)' = Told(k) \cup {o} /\ \A n : n # k => Told(n)' = Told(n)
    BY <1>1, ToldMore
<1>4. Told(k) = IF Twice(k) THEN {"error"} ELSE {}
    BY <1>1, ToldBefore
<1>5. \A n : Twice(n)' = Twice(n)
    BY DEF Twice
<1>6. Told(k)' = IF Twice(k) THEN {"error", o} ELSE {o}
    BY <1>3, <1>4
<1>7. \A n \in 1..nread : n # k =>
          \E q \in Outcomes : Told(n)' = IF Twice(n) THEN {"error", q} ELSE {q}
    BY <1>2, <1>3 DEF Accounted, InHand
<1>8. ~InHand'
    BY DEF InHand
<1>9. outcome' \subseteq (1..nread') \X Outcomes
    BY <1>1, <1>2 DEF Accounted
<1>10. \A n \in 1..nread' :
          \E q \in Outcomes : Told(n)' = IF Twice(n)' THEN {"error", q} ELSE {q}
    <2>1. TAKE n \in 1..nread'
    <2>2. CASE n = k
        BY <1>5, <1>6, <2>2
    <2>3. CASE n # k
        BY <1>2, <1>5, <1>7, <2>3
    <2> QED BY <2>2, <2>3
<1> QED BY <1>8, <1>9, <1>10 DEF Accounted

\* A call that does not finish it may tell that it went wrong.
LEMMA GoOn ==
    ASSUME Types, Position, Accounted, UNCHANGED log, rec_done' = FALSE, pc' # "eof",
           NEW k \in 1..Len(log), k = nread + 1 \/ (k = nread /\ InHand), nread' = k,
           k = nread + 1 => ~InHand,
           outcome' \in {outcome, outcome \cup {<<k, "error">>}},
           Twice(k) /\ k = nread + 1 => outcome' # outcome,
           ~Twice(k) => Stuck' \/ (outcome' = outcome /\ Told(k) = {})
    PROVE  Accounted'
<1>1. k \in Nat /\ nread \in Nat /\ nread <= k /\ k # 0 /\ 1..k \subseteq (1..nread) \cup {k}
    BY DEF Types
<1>2. \A n : Twice(n)' = Twice(n)
    BY DEF Twice
<1>3. \A n : n # k => Told(n)' = Told(n)
    BY DEF Told
<1>4. Told(k) \subseteq {"error"} /\ (Twice(k) => Told(k) # {} \/ k = nread + 1)
    BY <1>1, NothingTold DEF Accounted
<1>5. Told(k)' \subseteq {"error"} /\ (Twice(k) => Told(k)' # {})
    <2>1. CASE outcome' = outcome
        BY <1>4, <2>1 DEF Told
    <2>2. CASE outcome' = outcome \cup {<<k, "error">>}
        BY <1>4, <2>2, ToldMore, ZenonT(60) DEF Outcomes
    <2> QED BY <2>1, <2>2
<1>6. ~Twice(k) => Told(k)' = {} \/ Stuck'
    BY DEF Told
<1>7. outcome' \subseteq (1..nread') \X Outcomes
    BY <1>1 DEF Accounted, Outcomes
<1>8. \A n \in 1..nread' : n = k \/ (n \in 1..nread /\ (n = nread => ~InHand))
    BY <1>1
<1>9. \A n \in 1..nread' : (n = nread' => ~InHand') =>
          \E o \in Outcomes : Told(n)' = IF Twice(n)' THEN {"error", o} ELSE {o}
    <2>1. InHand'
        BY DEF InHand
    <2> QED BY <1>2, <1>3, <1>8, <2>1 DEF Accounted
<1>10. /\ Told(nread)' \subseteq {"error"}
       /\ Twice(nread)' => Told(nread)' # {}
       /\ ~Twice(nread)' => Told(nread)' = {} \/ Stuck'
    BY <1>5, <1>6 DEF Told, Twice
<1> QED BY <1>7, <1>9, <1>10 DEF Accounted

\* What check_station makes of a record depends on the record, the handling and the
\* location it starts from.
LEMMA CheckedStays ==
    ASSUME Cur' = Cur, handling' = handling, LocBefore' = LocBefore
    PROVE  Checked' = Checked
<1> DEFINE s == [loc |-> LocBefore, new |-> FALSE, ok |-> TRUE]
           grid == CheckGrid(s)
           zone == CheckZone(grid)
           iota == CheckIota(zone)
<1>1. s' = s
    OBVIOUS
<1> HIDE DEF s
<1>2. grid' = grid
    BY <1>1 DEF CheckGrid, SameGrid
<1> HIDE DEF grid
<1>3. zone' = zone
    BY <1>2 DEF CheckZone
<1> HIDE DEF zone
<1>4. iota' = iota
    BY <1>3 DEF CheckIota
<1>5. /\ Checked = IF handling = "IGNORE" THEN s ELSE iota
      /\ Checked' = IF handling' = "IGNORE" THEN s' ELSE iota'
    BY DEF Checked, s, grid, zone, iota
<1> HIDE DEF iota
<1> QED BY <1>1, <1>4, <1>5

\* A record that cannot be signed is stuck from then on: the same call finds
\* everything as it left it.
LEMMA CannotSignSticks ==
    ASSUME Types, Position, CertUids, CannotSign
    PROVE  Stuck' /\ nread' = CurN /\ CurN \in 1..Len(log)
<1>1. Selected /\ Accepted /\ Working /\ HasCert /\ UNCHANGED <<log, handling, need_station_rec>>
    BY DEF CannotSign, Ready, Selected, Accepted, input
<1>2. /\ Cur \in Records /\ nread' = CurN /\ CurN \in 1..Len(log) /\ rec' = Cur
    BY <1>1, WorkingRecord DEF Working
<1>3. TheCall \in Calls /\ cert_uids[TheCert] # 0
    BY <1>1, SelectedCert
<1>4. /\ Cur.kind = "unsignable" /\ Checked.ok /\ ~Checked.new /\ ~need_station_rec
      /\ rec_done' = FALSE /\ loc' = Checked.loc /\ cert_idx' = TheCert /\ callsign' = TheCall
      /\ cert_uids' = cert_uids
    BY DEF CannotSign, Ready, UseCert, TakeCert
<1>5. loc' = LocBefore
    BY <1>2, <1>3, <1>4, CheckedKeeps
<1>6. Cur' = Cur
    BY <1>2, <1>4 DEF Cur
<1>7. TheCall' = TheCall
    BY <1>1, <1>4, <1>6 DEF TheCall
<1>8. TheCert' = TheCert
    BY <1>6, <1>7 DEF TheCert, Matching
<1>9. HasCert'
    <2>1. Matching(TheCall', Cur'.date) # {}
        BY <1>1, <1>6, <1>7 DEF HasCert
    <2>2. ~WrongCall'
        BY <1>1, <1>4, <1>6 DEF WrongCall, HasCert, TheCall
    <2> QED BY <2>1, <2>2 DEF HasCert, Matching
<1>10. ~FirstUse'
    BY <1>3, <1>4, <1>8 DEF FirstUse
<1>11. LocBefore' = LocBefore
    BY <1>4, <1>5, <1>8 DEF LocBefore
<1>12. Checked' = Checked
    BY <1>1, <1>6, <1>11, CheckedStays
<1>13. rec'.kind = "unsignable" /\ ~need_station_rec'
    BY <1>1, <1>2, <1>4
<1>14. Checked'.ok /\ ~Checked'.new
    BY <1>4, <1>12
<1> QED BY <1>2, <1>9, <1>10, <1>13, <1>14 DEF Stuck

LEMMA AccountedStep ==
    ASSUME Types, Position, CertUids, Accounted, Next
    PROVE  Accounted'
<1>1. CASE EndOfFile
    <2>1. ~InHand /\ ~InHand' /\ UNCHANGED <<log, nread, outcome>>
        BY <1>1 DEF EndOfFile, InHand, input
    <2> QED BY <2>1 DEF Accounted, Told, Twice
<1>2. CASE Unreadable
    <2>1. PICK k : k = nread + 1
        OBVIOUS
    <2>2. /\ nread' = k /\ k = nread + 1 /\ nread \in Nat
          /\ rec_done /\ rec_done' = rec_done /\ UNCHANGED <<log, pc>>
          /\ outcome' = outcome \cup {<<k, "error">>} /\ ~Twice(k) /\ Told(k) = {}
        BY <1>2, <2>1, NothingTold DEF Unreadable, Tell, CurN, Next1, Twice, Types, input
    <2>3. Told(k)' = {"error"} /\ \A n : n # k => Told(n)' = Told(n)
        BY <2>2, ToldMore DEF Outcomes
    <2>4. ~InHand /\ ~InHand' /\ \A n : Twice(n)' = Twice(n)
        BY <2>2 DEF InHand, Twice
    <2>5. \A n \in 1..nread' : n = k \/ n \in 1..nread
        BY <2>2
    <2>6. outcome' \subseteq (1..nread') \X Outcomes
        BY <2>2 DEF Accounted, Outcomes
    <2> QED BY <2>2, <2>3, <2>4, <2>5, <2>6 DEF Accounted, Outcomes
<1>3. CASE TornRecord
    <2>1. PICK k : k = nread + 1
        OBVIOUS
    <2>2. /\ nread' = k /\ k = nread + 1 /\ k \in 1..Len(log) /\ pc' # "eof"
          /\ UNCHANGED log /\ outcome' = outcome \cup {<<k, "error">>} /\ Twice(k)
        BY <1>3, <2>1 DEF TornRecord, Tell, CurN, Next1, Twice, Types, Unread, input
    <2>3. rec_done' = FALSE /\ ~InHand
        BY <1>3 DEF TornRecord, InHand
    <2>4. outcome' # outcome
        <3>1. <<k, "error">> \notin outcome
            BY <2>2 DEF Accounted, Types
        <3> QED BY <2>2, <3>1
    <2> QED BY <2>2, <2>3, <2>4, GoOn
<1>4. CASE CannotSign
    <2>1. PICK k : k = CurN
        OBVIOUS
    <2>2. /\ rec_done' = FALSE /\ UNCHANGED <<log, pc>> /\ Working
          /\ outcome' = outcome \cup {<<k, "error">>}
        BY <1>4, <2>1 DEF CannotSign, Ready, Selected, Accepted, Tell, input
    <2>3. Stuck' /\ nread' = k /\ k \in 1..Len(log)
        BY <1>4, <2>1, CannotSignSticks
    <2>4. /\ k = nread + 1 \/ (k = nread /\ InHand)
          /\ k = nread + 1 => ~InHand /\ ~Twice(k)
        BY <2>1, <2>2, WorkingRecord DEF Working, Next1, Twice, InHand, CurN
    <2>5. pc' # "eof"
        BY <2>2 DEF Working
    <2> QED BY <2>2, <2>3, <2>4, <2>5, GoOn
<1>5. CASE EmitCert \/ EmitStation \/ NeedKey
    <2>1. PICK k : k = CurN
        OBVIOUS
    <2>2. rec_done' = FALSE /\ UNCHANGED <<log, outcome>> /\ Working /\ pc' # "eof"
        BY <1>5 DEF EmitCert, EmitStation, NeedKey, Ready, Selected, Accepted, Working, input
    <2>3. /\ k \in 1..Len(log) /\ nread' = k
          /\ k = nread + 1 \/ (k = nread /\ InHand)
          /\ k = nread + 1 => ~InHand /\ ~Twice(k)
        BY <2>1, <2>2, WorkingRecord DEF Working, Next1, Twice, InHand, CurN
    <2>4. Told(k) = IF Twice(k) THEN {"error"} ELSE {}
        BY <1>5, <2>1, <2>2, ToldBefore, NotStuck
    <2> QED BY <2>2, <2>3, <2>4, GoOn
<1>6. ASSUME Reject \/ NoCertificate \/ Mismatch \/ EmitContact \/ Duplicate PROVE Accounted'
    <2>1. Working /\ UNCHANGED log /\ rec_done' = TRUE
        BY <1>6 DEF Reject, NoCertificate, Mismatch, EmitContact, Duplicate, SignIt, Ready,
                    Selected, Accepted, input
    <2>2. \E o \in Outcomes : outcome' = outcome \cup {<<CurN, o>>}
        BY <1>6 DEF Reject, NoCertificate, Mismatch, EmitContact, Duplicate, Tell, Outcomes
    <2> QED BY <1>6, <2>1, <2>2, FinishRecord, NotStuck
<1>7. CASE UnlockKey \/ KeyRefused
    <2>1. UNCHANGED <<log, nread, rec_done, outcome>> /\ pc = "key" /\ pc' # "eof"
        BY <1>7 DEF UnlockKey, KeyRefused, input
    <2>2. InHand /\ InHand' /\ ~Stuck
        BY <2>1 DEF Position, InHand, Stuck
    <2> QED BY <2>1, <2>2 DEF Accounted, Told, Twice
<1> QED BY <1>1, <1>2, <1>3, <1>4, <1>5, <1>6, <1>7 DEF Next, Call

\* The contact that a call emits, with what it knows of it.
LEMMA ContactEmitted ==
    ASSUME Types, Position, CertUids, EmitContact
    PROVE  \E c : /\ tcontacts' = tcontacts \cup {c}
                  /\ c.n = CurN /\ c.qso = Cur.qso /\ c.call = TheCall /\ c.cert = TheCert
                  /\ c.station = loc_uid /\ c.signed = DetailsOf(LocBefore)
                  /\ Cur = log[CurN] /\ CurN \in 1..Len(log) /\ nread' = CurN
                  /\ outcome' = outcome \cup {<<CurN, "signed">>}
                  /\ Selected /\ Working /\ UNCHANGED <<log, handling>>
<1>1. PICK c : c = [n |-> CurN, qso |-> Cur.qso, call |-> TheCall, cert |-> TheCert,
                    station |-> loc_uid, signed |-> DetailsOf(LocBefore)]
    OBVIOUS
<1>2. /\ tcontacts' = tcontacts \cup {c} /\ outcome' = outcome \cup {<<CurN, "signed">>}
      /\ Selected /\ Working /\ UNCHANGED <<log, handling>>
    BY <1>1 DEF EmitContact, SignIt, Ready, Selected, Accepted, Tell, input
<1>3. Cur = log[CurN] /\ CurN \in 1..Len(log) /\ nread' = CurN
    BY <1>2, WorkingRecord
<1> QED BY <1>1, <1>2, <1>3

\* What a record is told when it is not signed.
LEMMA NotSigned ==
    ASSUME Next, ~EmitContact
    PROVE  \A n : <<n, "signed">> \in outcome' <=> <<n, "signed">> \in outcome
BY DEF Next, Call, EndOfFile, Unreadable, TornRecord, Reject, NoCertificate, EmitCert, Mismatch,
       EmitStation, CannotSign, NeedKey, Duplicate, UnlockKey, KeyRefused, Tell

LEMMA SignaturesStep ==
    ASSUME Types, Position, CertUids, Accounted, Signatures, Next
    PROVE  Signatures'
<1>1. nread \in Nat /\ nread' \in Nat /\ nread <= nread'
    BY ReadOn
<1>2. \A n \in 1..nread' : n \in 1..nread \/
          (<<n, "signed">> \notin outcome /\ ~\E c \in tcontacts : c.n = n)
    BY <1>1 DEF Accounted, Types
<1>3. CASE EmitContact
    <2>1. PICK c : /\ tcontacts' = tcontacts \cup {c} /\ c.n = nread'
                   /\ outcome' = outcome \cup {<<nread', "signed">>}
        BY <1>3, ContactEmitted
    <2> QED BY <1>2, <2>1 DEF Signatures
<1>4. CASE ~EmitContact
    <2>1. UNCHANGED tcontacts
        BY <1>4, Frame
    <2> QED BY <1>2, <1>4, <2>1, NotSigned DEF Signatures
<1> QED BY <1>3, <1>4

LEMMA ContactsStep ==
    ASSUME Types, Position, CertUids, Contacts, Next
    PROVE  Contacts'
<1>1. UNCHANGED <<log, handling>>
    BY Frame
<1>2. CASE EmitContact
    <2>1. PICK c : /\ tcontacts' = tcontacts \cup {c}
                   /\ c.n = CurN /\ c.qso = Cur.qso /\ c.call = TheCall /\ c.cert = TheCert
                   /\ Cur = log[CurN] /\ Selected
        BY <1>2, ContactEmitted
    <2>2. Certs[c.cert].call = c.call /\ log[c.n].date \in Certs[c.cert].dates
        BY <1>1, <2>1, SelectedCert
    <2>3. handling # "IGNORE" /\ log[c.n].call # None => c.call = log[c.n].call
        BY <2>1 DEF Selected, HasCert, WrongCall, TheCall, Types, Handling
    <2> QED BY <1>1, <2>1, <2>2, <2>3 DEF Contacts, SignedByMatchingCert
<1>3. CASE UNCHANGED tcontacts
    BY <1>1, <1>3 DEF Contacts, SignedByMatchingCert
<1> QED BY <1>2, <1>3, Frame

\* What becomes of the location in a step.
LEMMA LocationFrame ==
    ASSUME Next
    PROVE  \/ EmitCert \/ EmitStation \/ Mismatch
           \/ Ready /\ loc' = Checked.loc
           \/ UNCHANGED <<loc, cert_idx>>
BY DEF Next, Call, EndOfFile, Unreadable, TornRecord, Reject, NoCertificate, CannotSign, NeedKey,
       EmitContact, Duplicate, UnlockKey, KeyRefused, SignIt, certv

\* Nothing the caller was told is taken back.
LEMMA ToldForever ==
    ASSUME Next
    PROVE  outcome \subseteq outcome'
BY DEF Next, Call, EndOfFile, Unreadable, TornRecord, Reject, NoCertificate, EmitCert, Mismatch,
       EmitStation, CannotSign, NeedKey, EmitContact, Duplicate, UnlockKey, KeyRefused, Tell

LEMMA RefusedForever ==
    ASSUME Next, NEW m \in Nat, NEW n \in Nat, m <= n, RefusedUpTo(m)
    PROVE  RefusedUpTo(n)'
<1>1. PICK i \in 1..m : <<i, "mismatch">> \in outcome
    BY DEF RefusedUpTo
<1>2. i \in 1..n
    OBVIOUS
<1> QED BY <1>1, <1>2, ToldForever DEF RefusedUpTo

\* Signing finds the location as the tSTATION in use has it, unless a record
\* before this one was refused.
LEMMA ReadyIsCurrent ==
    ASSUME Types, Position, CertUids, Accounted, Current, Ready, UNCHANGED log
    PROVE  \/ RefusedUpTo(CurN - 1)
           \/ /\ LocBefore.zone.item = ItemOf(LocBefore.zone.cdata)
              /\ \E s \in tstations : s.uid = loc_uid /\ s.details = DetailsOf(LocBefore)
<1>1. Selected /\ ~need_station_rec /\ Working
    BY DEF Ready, Selected, Accepted
<1>2. cert_idx # 0 /\ TheCall \in Calls
    BY <1>1, SelectedCert
<1>3. CASE ~RefusedUpTo(nread)
    BY <1>1, <1>2, <1>3, LocBeforeType DEF Current
<1>4. CASE RefusedUpTo(nread)
    <2>1. PICK m \in 1..nread : <<m, "mismatch">> \in outcome
        BY <1>4 DEF RefusedUpTo
    <2>2. /\ CurN \in Nat /\ nread \in Nat
          /\ CurN = nread + 1 \/ (CurN = nread /\ InHand)
        BY <1>1, WorkingRecord
    <2>3. InHand => m # nread
        BY <2>1 DEF Accounted, Told, Outcomes
    <2>4. m \in 1..(CurN - 1)
        BY <2>2, <2>3
    <2> QED BY <2>1, <2>4 DEF RefusedUpTo
<1> QED BY <1>3, <1>4

LEMMA CurrentStep ==
    ASSUME Types, Position, CertUids, Accounted, Current, Next
    PROVE  Current'
<1>1. /\ nread \in Nat /\ nread' \in Nat /\ nread <= nread' /\ UNCHANGED log
      /\ \A c \in tcontacts : c.n \in Nat /\ c.n - 1 \in Int /\ 1 <= c.n
    BY ReadOn, Frame DEF Types
<1>2. \A c \in tcontacts : RefusedUpTo(c.n - 1) => RefusedUpTo(c.n - 1)'
    BY ToldForever DEF RefusedUpTo
<1>3. RefusedUpTo(nread) => RefusedUpTo(nread)'
    <2>1. PICK k : k = nread'
        OBVIOUS
    <2>2. RefusedUpTo(nread) => RefusedUpTo(k)'
        BY <1>1, <2>1, RefusedForever
    <2> QED BY <2>1, <2>2 DEF RefusedUpTo
<1>4. tstations \subseteq tstations'
    BY Frame, StationEmitted
<1>5. \A c \in tcontacts' :
          RefusedUpTo(c.n - 1)' \/ \E s \in tstations' : s.uid = c.station /\ s.details = c.signed
    <2>1. CASE EmitContact
        <3>1. PICK c : /\ tcontacts' = tcontacts \cup {c} /\ c.n = CurN
                       /\ c.station = loc_uid /\ c.signed = DetailsOf(LocBefore)
            BY <2>1, ContactEmitted
        <3>2. RefusedUpTo(c.n - 1) \/
                  \E s \in tstations : s.uid = c.station /\ s.details = c.signed
            BY <1>1, <2>1, <3>1, ReadyIsCurrent DEF EmitContact, SignIt
        <3>3. RefusedUpTo(c.n - 1) => RefusedUpTo(c.n - 1)'
            BY ToldForever DEF RefusedUpTo
        <3> QED BY <1>2, <1>4, <3>1, <3>2, <3>3 DEF Current
    <2>2. CASE UNCHANGED tcontacts
        BY <1>2, <1>4, <2>2 DEF Current
    <2> QED BY <2>1, <2>2, Frame
<1> DEFINE Agrees(l, u, st, idx, need) ==
               /\ l.zone.item = ItemOf(l.zone.cdata)
               /\ idx # 0 => need \/ \E s \in st : s.uid = u /\ s.details = DetailsOf(l)
<1>6. RefusedUpTo(nread)' \/
          Agrees(loc', loc_uid', tstations', cert_idx', need_station_rec' = TRUE)
    <2>1. CASE EmitCert
        <3>1. Accepted /\ HasCert /\ loc' = SwitchedLoc /\ need_station_rec' = TRUE
            BY <2>1 DEF EmitCert
        <3>2. TheCall \in Calls
            BY <1>1, <3>1, WorkingRecord, TheCertMatches DEF Accepted
        <3> QED BY <3>1, <3>2, LocBeforeType
    <2>2. CASE Mismatch
        <3>1. Working /\ outcome' = outcome \cup {<<CurN, "mismatch">>}
            BY <2>2 DEF Mismatch, Selected, Accepted, Tell
        <3>2. nread' = CurN /\ nread' \in 1..nread'
            BY <1>1, <3>1, WorkingRecord
        <3> QED BY <3>1, <3>2 DEF RefusedUpTo
    <2>3. CASE EmitStation
        <3>1. Selected /\ Accepted /\ Working /\ Checked.ok /\ loc' = Checked.loc
            BY <2>3 DEF EmitStation, Selected, Accepted
        <3>2. TheCall \in Calls /\ Cur \in Records
            BY <1>1, <3>1, SelectedCert, WorkingRecord
        <3>3. PICK s : /\ tstations' = tstations \cup {s}
                       /\ s.uid = loc_uid' /\ s.details = DetailsOf(Checked.loc)
            BY <2>3, StationEmitted
        <3>4. s.details = DetailsOf(loc')
            BY <3>1, <3>3 DEF DetailsOf
        <3>5. RefusedUpTo(nread) \/ loc'.zone.item = ItemOf(loc'.zone.cdata)
            BY <3>1, <3>2, CheckedKeeps, LocBeforeType DEF Current
        <3> QED BY <1>3, <3>3, <3>4, <3>5
    <2>4. CASE Ready /\ loc' = Checked.loc /\ ~EmitCert /\ ~EmitStation
        <3>1. UNCHANGED <<loc_uid, tstations>>
            BY <2>4, Frame
        <3>2. Selected /\ Checked.ok /\ ~Checked.new /\ Working
            BY <2>4 DEF Ready, Selected, Accepted
        <3>3. Cur \in Records /\ TheCall \in Calls /\ nread' = CurN /\ CurN \in Nat
            BY <1>1, <3>2, SelectedCert, WorkingRecord
        <3>4. PICK l : l = LocBefore
            OBVIOUS
        <3>5. loc' = l
            BY <2>4, <3>2, <3>3, <3>4, CheckedKeeps
        <3>6. CASE RefusedUpTo(CurN - 1)
            <4>1. PICK m \in 1..(CurN - 1) : <<m, "mismatch">> \in outcome
                BY <3>6 DEF RefusedUpTo
            <4>2. m \in 1..nread'
                BY <3>3, <4>1
            <4> QED BY <4>1, <4>2, ToldForever DEF RefusedUpTo
        <3>7. CASE /\ LocBefore.zone.item = ItemOf(LocBefore.zone.cdata)
                   /\ \E s \in tstations : s.uid = loc_uid /\ s.details = DetailsOf(LocBefore)
            <4>1. /\ l.zone.item = ItemOf(l.zone.cdata)
                  /\ \E s \in tstations : s.uid = loc_uid /\ s.details = DetailsOf(l)
                BY <3>4, <3>7
            <4> QED BY <3>1, <3>5, <4>1
        <3> QED BY <1>1, <2>4, <3>6, <3>7, ReadyIsCurrent
    <2>5. CASE UNCHANGED <<loc, cert_idx>> /\ ~EmitCert /\ ~EmitStation
        <3>1. UNCHANGED <<loc_uid, tstations, need_station_rec>>
            BY <2>5, Frame
        <3> QED BY <1>3, <2>5, <3>1 DEF Current, DetailsOf
    <2> QED BY <2>1, <2>2, <2>3, <2>4, <2>5, LocationFrame
<1> QED BY <1>5, <1>6 DEF Current, DetailsOf

\* A record found to be a duplicate.
LEMMA DuplicateFound ==
    ASSUME Types, Position, CertUids, Duplicate
    PROVE  /\ Selected /\ UNCHANGED <<log, tcontacts>> /\ CurN \in 1..Len(log) /\ nread' = CurN
           /\ Cur = log[CurN] /\ TheKey \in Keys /\ TheCall \in Calls /\ TheKey = <<TheCall, Cur.qso>>
           /\ outcome' = outcome \cup {<<CurN, "duplicate">>}
           /\ \/ /\ OldKey \in old /\ old' \subseteq old
                 /\ db' = [db EXCEPT ![TheKey] = DetailsOf(LocBefore)]
              \/ UNCHANGED <<db, old>> /\ db[TheKey] # NoEntry
<1>1. Selected /\ Working /\ UNCHANGED <<log, tcontacts>>
    BY DEF Duplicate, SignIt, Ready, Selected, Accepted, input
<1>2. /\ Cur \in Records /\ Cur = log[CurN] /\ CurN \in 1..Len(log) /\ nread' = CurN
      /\ TheCall \in Calls
    BY <1>1, WorkingRecord, SelectedCert
<1>3. TheKey \in Keys /\ TheKey = <<TheCall, Cur.qso>>
    BY <1>2 DEF TheKey, Keys, Records
<1>4. outcome' = outcome \cup {<<CurN, "duplicate">>}
    BY DEF Duplicate, Tell
<1>5. \/ /\ OldKey \in old /\ old' \subseteq old
         /\ db' = [db EXCEPT ![TheKey] = DetailsOf(LocBefore)]
      \/ UNCHANGED <<db, old>> /\ db[TheKey] # NoEntry
    BY DEF Duplicate, InOld, Uploadable, Store, dupes
<1> QED BY <1>1, <1>2, <1>3, <1>4, <1>5

\* What signing does to the database.
LEMMA SignatureStored ==
    ASSUME Types, Position, CertUids, EmitContact, ~allow_dupes
    PROVE  /\ TheKey \in Keys /\ TheKey = <<TheCall, Cur.qso>>
           /\ db' = [db EXCEPT ![TheKey] = DetailsOf(LocBefore)] /\ UNCHANGED old
           /\ OldKey \notin old
           /\ db[TheKey] = NoEntry \/ Resignable(db[TheKey], DetailsOf(LocBefore))
<1>1. Selected /\ Working /\ UNCHANGED log
    BY DEF EmitContact, SignIt, Ready, Selected, Accepted, input
<1>2. Cur \in Records /\ TheCall \in Calls
    BY <1>1, WorkingRecord, SelectedCert
<1>3. TheKey \in Keys /\ TheKey = <<TheCall, Cur.qso>>
    BY <1>2 DEF TheKey, Keys, Records
<1> QED BY <1>3 DEF EmitContact, InOld, Uploadable, Store

\* The details a call signs and stores.
LEMMA StoredDetails ==
    ASSUME Types, Position, CertUids, EmitContact \/ Duplicate
    PROVE  DetailsOf(LocBefore) \in Details /\ DetailsOf(LocBefore) # NoEntry
<1>1. Selected /\ UNCHANGED log
    BY DEF EmitContact, Duplicate, SignIt, Ready, input
<1>2. PICK l : l = LocBefore
    OBVIOUS
<1>3. DetailsOf(l) \in Details /\ DetailsOf(l) # NoEntry
    BY <1>1, <1>2, SelectedCert, DetailsType
<1> QED BY <1>2, <1>3

\* No entry of the duplicates database is removed, and those in the old format
\* only become fewer.
LEMMA EntriesStay ==
    ASSUME Types, Position, CertUids, Next
    PROVE  /\ \A k \in Keys : db[k] # NoEntry => db'[k] # NoEntry
           /\ old' \subseteq old
<1>1. CASE EmitContact
    <2>1. CASE allow_dupes
        BY <1>1, <2>1 DEF EmitContact, dupes
    <2>2. CASE ~allow_dupes
        BY <1>1, <2>2, SignatureStored, StoredDetails DEF Types
    <2> QED BY <2>1, <2>2
<1>2. CASE Duplicate
    BY <1>2, DuplicateFound, StoredDetails DEF Types
<1>3. CASE UNCHANGED <<db, old>>
    BY <1>3
<1> QED BY <1>1, <1>2, <1>3, Frame

\* Who is told that a record is a duplicate.
LEMMA NotDuplicate ==
    ASSUME Next, ~Duplicate
    PROVE  \A n : <<n, "duplicate">> \in outcome' <=> <<n, "duplicate">> \in outcome
BY DEF Next, Call, EndOfFile, Unreadable, TornRecord, Reject, NoCertificate, EmitCert, Mismatch,
       EmitStation, CannotSign, NeedKey, EmitContact, UnlockKey, KeyRefused, Tell

LEMMA LedgeredStep ==
    ASSUME Types, Position, CertUids, Ledgered, Next
    PROVE  Ledgered'
<1> SUFFICES ASSUME ~allow_dupes
             PROVE  /\ \A c \in tcontacts' : db'[<<c.call, c.qso>>] # NoEntry
                    /\ \A n \in DOMAIN log' : <<n, "duplicate">> \in outcome' =>
                           \E c \in Calls : db'[<<c, log'[n].qso>>] # NoEntry
    BY Frame DEF Ledgered
<1>1. log' = log /\ log \in Seq(Records)
    BY Frame DEF Types
<1>2. \A c \in tcontacts : <<c.call, c.qso>> \in Keys
    BY DEF Types, Keys
<1>3. \A n \in DOMAIN log, c \in Calls : <<c, log[n].qso>> \in Keys
    <2>1. \A n \in DOMAIN log : log[n] \in Records
        BY <1>1
    <2> QED BY <2>1 DEF Records, Keys
<1>4. \A c \in tcontacts' : db'[<<c.call, c.qso>>] # NoEntry
    <2>1. CASE EmitContact
        <3>1. PICK c : /\ tcontacts' = tcontacts \cup {c} /\ c.qso = Cur.qso /\ c.call = TheCall
            BY <2>1, ContactEmitted
        <3>2. db'[<<c.call, c.qso>>] # NoEntry
            BY <2>1, <3>1, SignatureStored, StoredDetails DEF Types
        <3> QED BY <1>2, <3>1, <3>2, EntriesStay DEF Ledgered
    <2>2. CASE UNCHANGED tcontacts
        BY <1>2, <2>2, EntriesStay DEF Ledgered
    <2> QED BY <2>1, <2>2, Frame
<1>5. \A n \in DOMAIN log : <<n, "duplicate">> \in outcome' =>
          \E c \in Calls : db'[<<c, log[n].qso>>] # NoEntry
    <2>1. CASE Duplicate
        <3>1. db'[<<TheCall, Cur.qso>>] # NoEntry /\ TheCall \in Calls /\ Cur = log[CurN]
              /\ outcome' = outcome \cup {<<CurN, "duplicate">>}
            BY <2>1, DuplicateFound, StoredDetails DEF Types
        <3>2. \A n \in DOMAIN log : n # CurN /\ <<n, "duplicate">> \in outcome' =>
                  <<n, "duplicate">> \in outcome
            BY <3>1
        <3> QED BY <1>3, <3>1, <3>2, EntriesStay DEF Ledgered
    <2>2. CASE ~Duplicate
        BY <1>3, <2>2, NotDuplicate, EntriesStay DEF Ledgered
    <2> QED BY <2>1, <2>2
<1> QED BY <1>1, <1>4, <1>5

LEMMA OldNotResignedStep ==
    ASSUME Types, Position, CertUids, OldNotResigned, Next
    PROVE  OldNotResigned'
<1> SUFFICES ASSUME handling # "IGNORE", ~allow_dupes
             PROVE  \A c \in tcontacts' : OldEntryOf(c) \notin old'
    BY Frame DEF OldNotResigned, OldEntryOf
<1>1. CASE EmitContact
    <2>1. PICK c : /\ tcontacts' = tcontacts \cup {c} /\ c.qso = Cur.qso /\ c.cert = TheCert
                   /\ c.signed = DetailsOf(LocBefore)
        BY <1>1, ContactEmitted
    <2>2. OldEntryOf(c) = OldKey
        BY <2>1 DEF OldEntryOf, OldKey, Noted
    <2> QED BY <1>1, <2>1, <2>2, SignatureStored DEF OldNotResigned
<1>2. CASE UNCHANGED tcontacts
    BY <1>2, EntriesStay DEF OldNotResigned
<1> QED BY <1>1, <1>2, Frame

\* The record being signed or dropped comes after those signed before, and
\* after those dropped before.
LEMMA LaterThanBefore ==
    ASSUME Types, Position, CertUids, Accounted, Signatures, EmitContact \/ Duplicate
    PROVE  /\ \A c \in tcontacts : c.n \in Nat /\ c.n < CurN
           /\ \A m \in 1..nread : <<m, "duplicate">> \in outcome => m \in Nat /\ m < CurN
           /\ CurN \in Nat
<1>1. Working /\ UNCHANGED log
    BY DEF EmitContact, Duplicate, SignIt, Ready, Selected, Accepted, input
<1>2. /\ CurN \in Nat /\ nread \in Nat
      /\ CurN = nread + 1 \/ (CurN = nread /\ InHand)
    BY <1>1, WorkingRecord
<1>3. \A c \in tcontacts : c.n \in 1..nread /\ <<c.n, "signed">> \in outcome
    BY DEF Types, Signatures
<1>4. InHand => <<nread, "signed">> \notin outcome /\ <<nread, "duplicate">> \notin outcome
    BY DEF Accounted, Told, Outcomes
<1>5. \A k : k \in 1..nread /\ (<<k, "signed">> \in outcome \/ <<k, "duplicate">> \in outcome)
          => k \in Nat /\ k < CurN
    <2>1. TAKE k
    <2>2. HAVE k \in 1..nread /\ (<<k, "signed">> \in outcome \/ <<k, "duplicate">> \in outcome)
    <2>3. InHand => k # nread
        BY <1>4, <2>2
    <2>4. k \in Nat /\ k <= nread
        BY <1>2, <2>2
    <2> QED BY <1>2, <2>3, <2>4
<1> QED BY <1>2, <1>3, <1>5

\* The entry of a contact after which no other was signed.
LEMMA EntriesStep ==
    ASSUME Types, Position, CertUids, Accounted, Signatures, Entries, Next
    PROVE  Entries'
<1> DEFINE Old == UNION OldEntries
<1> SUFFICES ASSUME ~allow_dupes, NEW c \in tcontacts',
                    \A e \in tcontacts' : Same(c, e) => e.n <= c.n
             PROVE  \/ db'[<<c.call, c.qso>>] = c.signed
                    \/ \E m \in (c.n + 1)..nread', e \in Old :
                           /\ <<m, "duplicate">> \in outcome' /\ log'[m].qso = c.qso
                           /\ e.qso = c.qso /\ db'[<<c.call, c.qso>>] = e.signed
    BY Frame DEF Entries, Same
<1>1. log' = log /\ nread \in Nat /\ nread' \in Nat /\ nread <= nread' /\ outcome \subseteq outcome'
    BY Frame, ReadOn, ToldForever
<1>2. db \in [Keys -> Details \cup {NoEntry}]
    BY DEF Types
<1>3. ASSUME c \in tcontacts PROVE c.n \in Nat /\ <<c.call, c.qso>> \in Keys
    BY <1>3 DEF Types, Keys
<1>4. ASSUME c \in tcontacts, db'[<<c.call, c.qso>>] = db[<<c.call, c.qso>>]
      PROVE  \/ db'[<<c.call, c.qso>>] = c.signed
             \/ \E m \in (c.n + 1)..nread', e \in Old :
                    /\ <<m, "duplicate">> \in outcome' /\ log'[m].qso = c.qso
                    /\ e.qso = c.qso /\ db'[<<c.call, c.qso>>] = e.signed
    <2>1. \A e \in tcontacts : Same(c, e) => e.n <= c.n
        <3>1. tcontacts \subseteq tcontacts'
            BY Frame, ContactEmitted
        <3> QED BY <3>1
    <2>2. CASE db[<<c.call, c.qso>>] = c.signed
        BY <1>4, <2>2
    <2>3. CASE \E m \in (c.n + 1)..nread, e \in Old :
                   /\ <<m, "duplicate">> \in outcome /\ log[m].qso = c.qso
                   /\ e.qso = c.qso /\ db[<<c.call, c.qso>>] = e.signed
        <3>1. \A m \in (c.n + 1)..nread : m \in (c.n + 1)..nread'
            BY <1>1, <1>3, <1>4
        <3> QED BY <1>1, <1>4, <2>3, <3>1
    <2> QED BY <1>4, <2>1, <2>2, <2>3 DEF Entries
<1>5. CASE EmitContact
    <2>1. PICK d : /\ tcontacts' = tcontacts \cup {d} /\ d.n = CurN /\ d.qso = Cur.qso
                   /\ d.call = TheCall /\ d.signed = DetailsOf(LocBefore)
        BY <1>5, ContactEmitted
    <2>2. /\ TheKey \in Keys /\ TheKey = <<d.call, d.qso>>
          /\ db' = [db EXCEPT ![TheKey] = d.signed]
        BY <1>5, <2>1, SignatureStored
    <2>3. CASE c = d
        BY <1>2, <2>2, <2>3
    <2>4. CASE c # d
        <3>1. c \in tcontacts /\ c.n < d.n /\ c.n \in Nat /\ d.n \in Nat
            BY <1>5, <2>1, <2>4, LaterThanBefore
        <3>2. ~Same(c, d)
            BY <2>1, <3>1
        <3>3. <<c.call, c.qso>> # TheKey
            BY <2>2, <3>2 DEF Same
        <3> QED BY <1>2, <1>3, <1>4, <2>2, <3>1, <3>3
    <2> QED BY <2>3, <2>4
<1>6. CASE Duplicate
    <2>1. /\ c \in tcontacts /\ nread' = CurN /\ TheKey \in Keys /\ TheKey = <<TheCall, Cur.qso>>
          /\ Cur = log[CurN] /\ <<CurN, "duplicate">> \in outcome'
        BY <1>6, DuplicateFound
    <2>2. CASE UNCHANGED db
        BY <1>4, <2>1, <2>2
    <2>3. CASE OldKey \in old /\ db' = [db EXCEPT ![TheKey] = DetailsOf(LocBefore)]
        <3>1. CASE <<c.call, c.qso>> # TheKey
            BY <1>2, <1>3, <1>4, <2>1, <2>3, <3>1
        <3>2. CASE <<c.call, c.qso>> = TheKey
            <4>1. PICK e \in Old : e.qso = Cur.qso /\ e.signed = DetailsOf(LocBefore)
                BY <2>3 DEF Types, OldKey
            <4>2. c.qso = Cur.qso /\ db'[<<c.call, c.qso>>] = e.signed
                BY <1>2, <2>1, <2>3, <3>2, <4>1
            <4>3. CurN \in (c.n + 1)..nread'
                BY <1>6, <2>1, LaterThanBefore
            <4> QED BY <1>1, <2>1, <4>1, <4>2, <4>3
        <3> QED BY <3>1, <3>2
    <2> QED BY <1>6, <2>2, <2>3, DuplicateFound
<1>7. CASE UNCHANGED <<db, old, tcontacts>>
    BY <1>4, <1>7
<1> QED BY <1>5, <1>6, <1>7, Frame, DuplicateFound

LEMMA NoResignStep ==
    ASSUME Types, Position, CertUids, Accounted, Signatures, Entries, NoResign, Next
    PROVE  NoResign'
<1> DEFINE Between(c, d) == (c.n + 1)..(d.n - 1)
           Old == UNION OldEntries
<1> SUFFICES ASSUME ~allow_dupes, NEW c \in tcontacts', NEW d \in tcontacts',
                    c.n < d.n, c.call = d.call, c.qso = d.qso,
                    ~\E e \in tcontacts' : /\ e.n \in Between(c, d)
                                           /\ e.call = c.call /\ e.qso = c.qso
             PROVE  \/ Resignable(c.signed, d.signed)
                    \/ \E m \in Between(c, d), e \in Old :
                         /\ <<m, "duplicate">> \in outcome' /\ log'[m].qso = c.qso
                         /\ e.qso = c.qso /\ Resignable(e.signed, d.signed)
    BY Frame DEF NoResign, Resignable, Changed
<1>1. log' = log /\ outcome \subseteq outcome' /\ tcontacts \subseteq tcontacts' /\ nread \in Nat
    BY Frame, ToldForever, ContactEmitted DEF Types
<1>2. CASE d \in tcontacts /\ c \in tcontacts
    BY <1>1, <1>2 DEF NoResign
<1>3. CASE EmitContact /\ ~(d \in tcontacts /\ c \in tcontacts)
    <2>1. PICK x : /\ tcontacts' = tcontacts \cup {x} /\ x.n = CurN /\ x.qso = Cur.qso
                   /\ x.call = TheCall /\ x.signed = DetailsOf(LocBefore)
        BY <1>3, ContactEmitted
    <2>2. \A y \in tcontacts : y.n \in Nat /\ y.n < x.n
        BY <1>3, <2>1, LaterThanBefore
    <2>3. x.n \in Nat
        BY <1>3, <2>1, LaterThanBefore
    <2>4. d = x /\ c \in tcontacts
        BY <1>3, <2>1, <2>2, <2>3
    <2>5. \A e \in tcontacts : Same(c, e) => e.n <= c.n
        <3>1. TAKE e \in tcontacts
        <3>2. HAVE Same(c, e)
        <3>3. e.n \notin Between(c, d)
            BY <1>1, <3>2 DEF Same
        <3> QED BY <2>2, <2>3, <2>4, <3>3
    <2>6. TheKey = <<c.call, c.qso>>
        BY <1>3, <2>1, <2>4, SignatureStored
    <2>7. db[TheKey] = NoEntry \/ Resignable(db[TheKey], d.signed)
        BY <1>3, <2>1, <2>4, SignatureStored
    <2>8. \A x1 \in Details : x1 # NoEntry
        BY DEF Details, NoEntry
    <2>9. CASE db[TheKey] = c.signed
        BY <2>4, <2>7, <2>8, <2>9 DEF Types
    <2>10. CASE \E m \in (c.n + 1)..nread, e \in Old :
                   /\ <<m, "duplicate">> \in outcome /\ log[m].qso = c.qso
                   /\ e.qso = c.qso /\ db[TheKey] = e.signed
        <3>1. PICK m \in (c.n + 1)..nread :
                  /\ <<m, "duplicate">> \in outcome /\ log[m].qso = c.qso
                  /\ \E e \in Old : e.qso = c.qso /\ db[TheKey] = e.signed
            BY <2>10
        <3>2. PICK e \in Old : e.qso = c.qso /\ db[TheKey] = e.signed
            BY <3>1
        <3>3. e.signed \in Details
            BY InputAssumption DEF OldKeys
        <3>4. Resignable(e.signed, d.signed)
            BY <2>7, <2>8, <3>2, <3>3
        <3>5. m \in 1..nread
            BY <1>1, <2>2, <2>4
        <3>6. m < d.n
            BY <1>3, <2>1, <2>4, <3>1, <3>5, LaterThanBefore
        <3>7. m \in Between(c, d)
            BY <1>1, <2>2, <2>3, <2>4, <3>6
        <3> QED BY <1>1, <3>1, <3>2, <3>4, <3>7
    <2> QED BY <2>4, <2>5, <2>6, <2>9, <2>10 DEF Entries
<1> QED BY <1>2, <1>3, Frame

-----------------------------------------------------------------------------
(* The proofs: the invariant and what follows from it.                     *)

LEMMA InitInv == Init => ConverterInv
<1> SUFFICES ASSUME Init PROVE ConverterInv
    OBVIOUS
<1>1. Types
    BY CertsAssumption, InputAssumption DEF Init, Types, Location
<1>2. Position /\ Contacts /\ StationUids /\ Accounted /\ Signatures
    BY <1>1 DEF Init, Types, Position, InHand, Contacts, SignedByMatchingCert, StationUids,
                Accounted, Signatures
<1>3. CertUids
    BY <1>1, CertsAssumption DEF Init, Types, CertUids
<1>4. Numbered
    BY FS_EmptySet DEF Init, Numbered
<1>5. Current
    BY InputAssumption DEF Init, Current
<1>6. Ledgered /\ OldNotResigned /\ Entries /\ NoResign
    BY DEF Init, Ledgered, OldNotResigned, Entries, NoResign
<1> QED BY <1>1, <1>2, <1>3, <1>4, <1>5, <1>6 DEF ConverterInv

LEMMA NextKeeps == ConverterInv /\ [Next]_vars => ConverterInv'
<1> SUFFICES ASSUME ConverterInv, [Next]_vars PROVE ConverterInv'
    OBVIOUS
<1> USE DEF ConverterInv
<1>1. CASE Next
    BY <1>1, TypesStep, PositionStep, CertUidsStep, StationUidsStep, NumberedStep, AccountedStep,
       SignaturesStep, CurrentStep, ContactsStep, LedgeredStep, OldNotResignedStep, EntriesStep,
       NoResignStep
<1>2. CASE UNCHANGED vars
    <2>1. /\ log' = log /\ handling' = handling /\ pc' = pc /\ nread' = nread /\ rec' = rec
          /\ cert_idx' = cert_idx /\ cert_uids' = cert_uids /\ next_cert_uid' = next_cert_uid
          /\ loc_uid' = loc_uid /\ callsign' = callsign /\ loc' = loc /\ db' = db /\ old' = old
          /\ tcerts' = tcerts /\ tstations' = tstations /\ tcontacts' = tcontacts
          /\ outcome' = outcome
        BY <1>2 DEF vars, input, certv, dupes, emitted
    <2>2. rec_done' = rec_done
        BY <1>2 DEF vars
    <2>3. (allow_dupes' <=> allow_dupes) /\ (need_station_rec' <=> need_station_rec)
        BY <1>2 DEF vars, input
    <2>4. Types'
        BY <2>1, <2>2 DEF Types
    <2>5. InHand' <=> InHand
        BY <2>1, <2>2 DEF InHand
    <2>6. Position'
        BY <2>1, <2>2, <2>5 DEF Position
    <2>7. CertUids' /\ StationUids' /\ Numbered' /\ Signatures'
        BY <2>1, <2>3 DEF CertUids, StationUids, Numbered, Signatures
    <2>8. Cur' = Cur
        BY <2>1, <2>2 DEF Cur, Next1
    <2>9. TheCall' = TheCall
        BY <2>1, <2>8 DEF TheCall
    <2>10. TheCert' = TheCert
        BY <2>1, <2>8, <2>9 DEF TheCert, Matching
    <2>11. (HasCert' <=> HasCert) /\ (FirstUse' <=> FirstUse)
        BY <2>1, <2>8, <2>9, <2>10 DEF HasCert, FirstUse, WrongCall, Matching
    <2>12. LocBefore' = LocBefore
        BY <2>1, <2>9, <2>10 DEF LocBefore, SwitchedLoc
    <2>13. Checked' = Checked
        BY <2>1, <2>8, <2>12, CheckedStays
    <2>14. Stuck => Stuck'
        BY <2>1, <2>3, <2>11, <2>13 DEF Stuck
    <2>15. Accounted'
        BY <2>1, <2>5, <2>14 DEF Accounted, Told, Twice
    <2>16. Current'
        BY <2>1, <2>3 DEF Current, RefusedUpTo, DetailsOf
    <2>17. Contacts' /\ Ledgered' /\ OldNotResigned' /\ Entries' /\ NoResign'
        BY <2>1, <2>3 DEF Contacts, SignedByMatchingCert, Ledgered, OldNotResigned, OldEntryOf,
                          Entries, Same, NoResign, Resignable, Changed
    <2> QED BY <2>4, <2>6, <2>7, <2>15, <2>16, <2>17
<1> QED BY <1>1, <1>2

\* The inductive invariant of the converter.
THEOREM Converting == Spec => []ConverterInv
BY InitInv, NextKeeps, PTL DEF Spec

\* SignedByMatchingCert for every log and list of certificates: no order of the
\* records leaves a certificate in use that does not fit the record signed.
THEOREM SignedProperly == Spec => []SignedByMatchingCert
<1>1. ConverterInv => SignedByMatchingCert
    BY DEF ConverterInv, Contacts
<1> QED BY <1>1, Converting, PTL

\* AllAccounted for every log: at the end of the file each record was reported
\* once, and the contacts are those of the records reported signed.
THEOREM RecordsAccounted == Spec => []AllAccounted
<1>1. ASSUME ConverterInv PROVE AllAccounted
    <2>1. log \in Seq(Records) /\ DOMAIN log = 1..Len(log) /\ nread \in Nat
        BY <1>1 DEF ConverterInv, Types
    <2>2. ASSUME pc = "eof", NEW n \in DOMAIN log
          PROVE  IF Twice(n) THEN "error" \in Told(n) /\ Cardinality(Told(n)) <= 2
                 ELSE Cardinality(Told(n)) = 1
        <3>1. nread = Len(log) /\ ~InHand
            BY <1>1, <2>2 DEF ConverterInv, Position, InHand
        <3>2. PICK o \in Outcomes : Told(n) = IF Twice(n) THEN {"error", o} ELSE {o}
            BY <1>1, <2>1, <3>1 DEF ConverterInv, Accounted
        <3>3. IsFiniteSet({o}) /\ Cardinality({o}) = 1
            BY FS_Singleton
        <3>4. {"error", o} = {o} \cup {"error"}
            OBVIOUS
        <3>5. Cardinality({"error", o}) = IF "error" \in {o} THEN 1 ELSE 1 + 1
            BY <3>3, <3>4, FS_AddElement
        <3>6. Cardinality({"error", o}) <= 2
            BY <3>5
        <3> QED BY <3>2, <3>3, <3>6
    <2>3. \A n \in DOMAIN log : <<n, "signed">> \in outcome <=> \E c \in tcontacts : c.n = n
        <3>1. TAKE n \in DOMAIN log
        <3>2. CASE n \in 1..nread
            BY <1>1, <3>2 DEF ConverterInv, Signatures
        <3>3. CASE n \notin 1..nread
            BY <1>1, <3>3 DEF ConverterInv, Accounted, Types
        <3> QED BY <3>2, <3>3
    <2> QED BY <2>2, <2>3 DEF AllAccounted, Told, Twice
<1> QED BY <1>1, Converting, PTL

\* StreamWellFormed as long as the counter of STATION_UIDs has not wrapped: a
\* conversion of fewer than UidSpan station records, 2^31 in the code, refers to
\* its records without doubt.
THEOREM StreamUnderstood == Spec => [](Cardinality(tstations) < UidSpan => StreamWellFormed)
<1>1. ASSUME ConverterInv, Cardinality(tstations) < UidSpan PROVE StreamWellFormed
    <2>1. \A c \in tcontacts : \E s \in tstations : s.uid = c.station
        BY <1>1 DEF ConverterInv, StationUids
    <2>2. \A s \in tstations : \E t \in tcerts : t.uid = s.cert
        BY <1>1 DEF ConverterInv, StationUids
    <2>3. \A s, t \in tcerts : s.uid = t.uid <=> s.cert = t.cert
        BY <1>1 DEF ConverterInv, CertUids
    <2>4. \A s, t \in tstations : s.uid = t.uid => s = t
        BY <1>1 DEF ConverterInv, Numbered
    <2> QED BY <2>1, <2>2, <2>3, <2>4 DEF StreamWellFormed
<1> QED BY <1>1, Converting, PTL

\* StationIsCurrent, until the counter wraps: a signature covers the details of
\* the station record it names, unless a record before was refused.
THEOREM SignatureMatchesStation ==
    Spec => [](Cardinality(tstations) < UidSpan => StationIsCurrent)
<1>1. ASSUME ConverterInv, Cardinality(tstations) < UidSpan PROVE StationIsCurrent
    <2> SUFFICES ASSUME NEW c \in tcontacts
                 PROVE  \/ \E m \in 1..(c.n - 1) : <<m, "mismatch">> \in outcome
                        \/ StationOf(c).details = c.signed
        BY DEF StationIsCurrent
    <2>1. CASE RefusedUpTo(c.n - 1)
        BY <2>1 DEF RefusedUpTo
    <2>2. CASE \E s \in tstations : s.uid = c.station /\ s.details = c.signed
        <3>1. PICK s \in tstations : s.uid = c.station /\ s.details = c.signed
            BY <2>2
        <3>2. \A t \in tstations : t.uid = c.station => t = s
            BY <1>1, <3>1 DEF ConverterInv, Numbered
        <3>3. StationOf(c) = s
            BY <3>1, <3>2 DEF StationOf
        <3> QED BY <3>1, <3>3
    <2> QED BY <1>1, <2>1, <2>2 DEF ConverterInv, Current
<1> QED BY <1>1, Converting, PTL

\* Ledgered for every log and database: nothing is signed, or dropped as a
\* duplicate, without its entry.
THEOREM EverythingLedgered == Spec => []Ledgered
<1>1. ConverterInv => Ledgered
    BY DEF ConverterInv
<1> QED BY <1>1, Converting, PTL

\* OldNotResigned for every database: an entry in the old format is as good as
\* one in the current format.
THEOREM OldEntriesCount == Spec => []OldNotResigned
<1>1. ConverterInv => OldNotResigned
    BY DEF ConverterInv
<1> QED BY <1>1, Converting, PTL

\* NoResign for every log and database: a QSO is signed again only as a valid
\* update of what is recorded.
THEOREM ResignedIsUpdate == Spec => []NoResign
<1>1. ConverterInv => NoResign
    BY DEF ConverterInv
<1> QED BY <1>1, Converting, PTL

\* An action property: no call of the converter removes an entry of a QSO from
\* the duplicates database, or adds one in the old format.
THEOREM EntriesForever ==
    Spec => [][/\ \A k \in Keys : db[k] # NoEntry => db'[k] # NoEntry
               /\ old' \subseteq old]_vars
<1>1. ConverterInv /\ [Next]_vars =>
          [/\ \A k \in Keys : db[k] # NoEntry => db'[k] # NoEntry
           /\ old' \subseteq old]_vars
    BY EntriesStay DEF ConverterInv
<1> QED BY <1>1, Converting, PTL DEF Spec
=============================================================================
