----------------------------- MODULE CertStore ------------------------------
(***************************************************************************)
(* The store of callsign certificates and private keys, and the commands   *)
(* of the main window that change it.                                      *)
(*                                                                         *)
(* src/openssl_cert.cpp keeps, in the user's TQSL directory,               *)
(*   keys/<CALL>        the key records of a call sign; a record carries a  *)
(*                      DELETED mark, and is never taken out of the file    *)
(*   keys/<CALL>.save   the file before the last rewrite                   *)
(*   keys/<CALL>.new    the file being written                             *)
(*   certs/user         the installed callsign certificates, in load order  *)
(*   certtrash/<CALL>   what the last deletion for the call took away       *)
(*   cert_status.xml    what LoTW last said about a serial number           *)
(* and caches certs/user in the static variable xcerts of the process.     *)
(*                                                                         *)
(* A key pair is a number, in the order of creation.  A certificate is its  *)
(* call sign, key and serial number, and the serial number it supersedes   *)
(* (0: none).  LoTW hands out serial numbers and expiry dates in the same   *)
(* order, so the serial number also stands for the expiry date.  An entry   *)
(* with serial number 0 is a request: a key without a certificate          *)
(* ("keyonly").  DXCC entity, QSO dates, pass phrases and the chain of      *)
(* authority are left out: there is one entity and one provider.           *)
(***************************************************************************)
EXTENDS Integers, Sequences, FiniteSets, Functions, Selection

CONSTANTS
    Calls,        \* call signs
    Copies,       \* running copies of TQSL
    Null,         \* no file, no cache, no backup
    MaxKeys,      \* bound: key pairs created
    MaxRecs,      \* bound: records of a key file
    MaxCrashes,   \* bound: crashes of a copy while it rewrites a file
    MaxLoads      \* bound: files loaded, deletions undone

ASSUME CopiesAssumption == Copies # {}
ASSUME KeysAssumption   == MaxKeys \in Nat /\ MaxRecs \in Nat
ASSUME LimitAssumption  == MaxCrashes \in Nat /\ MaxLoads \in Nat

Keys    == 1..MaxKeys
Serials == 0..MaxKeys

KeyRecs == [key : Keys, del : BOOLEAN]
Entries == [call : Calls, key : Keys, serial : Nat, repl : Nat]
Backups == [entry : Entries, key : Keys \cup {0}]

ASSUME NullAssumption ==
    Null \notin Calls /\ Null \notin Seq(KeyRecs) /\ Null \notin Backups

\* How a call ends: it returns, or the process dies after the key file was
\* moved to .save, or after certs/user was unlinked.
Ends == {"done", "keysTorn", "userTorn"}

VARIABLES
    keys,       \* [Calls -> key file or Null]
    save,       \* [Calls -> .save file or Null]
    new,        \* [Calls -> .new file or Null]
    user,       \* certs/user
    userNew,    \* certs/user.new, or Null
    trash,      \* [Calls -> [entry, key] or Null]
    status,     \* cert_status.xml
    pending,    \* RequestPending: calls whose request was sent
    xcerts,     \* [Copies -> cached certs/user or Null]
    work,       \* [Copies -> what the command still has to do]
    containers, \* .p12 files the user saved
    made,       \* [Calls -> keys created for the call]
    requests,   \* requests that reached LoTW, as entries
    issued,     \* certificates LoTW issued: the .tq6 files
    expired,    \* serial numbers whose certificate has expired
    torn,       \* [Calls -> "no" | "torn" | "over"]: a rewrite of the key
                \*   file was interrupted, and the file was rewritten since
    crashes,    \* crashes so far
    loads       \* files loaded and deletions undone so far

keyVars   == <<keys, save, new, torn, made>>
userVars  == <<user, userNew>>
lotwVars  == <<requests, issued, expired>>
boundVars == <<crashes, loads>>
vars == <<keyVars, userVars, trash, status, pending, xcerts, work, containers,
          lotwVars, boundVars>>

Idle  == [phase |-> "idle", call |-> Null, serial |-> 0, todo |-> << >>]
Build == [Idle EXCEPT !.phase = "build"]   \* the list is to be built again
Start == [Idle EXCEPT !.phase = "start"]   \* the copy is not running
Cleanup(c, s) == [phase |-> "cleanup", call |-> c, serial |-> s, todo |-> << >>]

-----------------------------------------------------------------------------
(* Key files.                                                              *)

\* tqsl_open_key_file, tqsl_read_key: the records of a key file.
ReadKeys(file) == IF file = Null THEN << >> ELSE file

\* tqsl_key_exists: whether a record of the key is there, deleted or not.
KeyExists(recs, k) == \E i \in DOMAIN recs : recs[i].key = k

\* tqsl_make_key_list: only records without the mark are seen.
KeyListed(recs, k) == \E i \in DOMAIN recs : recs[i].key = k /\ ~recs[i].del

SetDeleted(recs, k, d) ==
    [i \in DOMAIN recs |->
        IF recs[i].key = k THEN [recs[i] EXCEPT !.del = d] ELSE recs[i]]

\* Mutant: the records of the same key are dropped.
ReplacedDropped(recs, k, private) ==
    LET others == Only(recs, {i \in DOMAIN recs : recs[i].key # k})
    IN  IF private THEN Append(others, [key |-> k, del |-> FALSE]) ELSE others

\* tqsl_replace_key: the records of the same key are marked and, when the new
\* record has a private key, it is added.  The test that is to drop doubles
\* starts a new list for every record, so it drops none.
Replaced(recs, k, private) ==
    IF private THEN Append(SetDeleted(recs, k, TRUE), [key |-> k, del |-> FALSE])
               ELSE SetDeleted(recs, k, TRUE)

\* tqsl_clear_deleted
Undeleted(recs, k) == SetDeleted(recs, k, FALSE)

\* The end of tqsl_replace_key and of tqsl_clear_deleted: write .new, unlink
\* .save, rename the file to .save and .new to the file.
Swap(c, recs, end) ==
    /\ keys' = [keys EXCEPT ![c] = IF end = "keysTorn" THEN Null ELSE recs]
    /\ save' = [save EXCEPT ![c] = keys[c]]
    /\ new'  = [new EXCEPT ![c] = IF end = "keysTorn" THEN recs ELSE Null]
    /\ torn' = [torn EXCEPT ![c] = CASE @ = "torn" -> "over"
                                     [] @ = "no" /\ end = "keysTorn" /\ keys[c] # Null -> "torn"
                                     [] OTHER -> @]
    /\ UNCHANGED made

\* Mutant: only records without the mark are searched.
NeverUndelete(c, k) == FALSE

\* tqsl_find_matching_key finds a record without the mark, or else one with
\* it and takes the mark away.
MustUndelete(c, k) ==
    /\ ~KeyListed(ReadKeys(keys[c]), k)
    /\ KeyExists(ReadKeys(keys[c]), k)

\* ... and the effect of a search that found a key, whether or not its
\* pass phrase is known.
FindMatchingKey(c, k, end) ==
    IF MustUndelete(c, k) THEN Swap(c, Undeleted(ReadKeys(keys[c]), k), end)
                          ELSE UNCHANGED keyVars

\* tqsl_getKeyEncoded: a request carries its key; the key of a certificate is
\* looked for among the listed ones.
KeyEncoded(e) ==
    e.serial = 0 \/ KeyListed(ReadKeys(keys[e.call]), e.key)

-----------------------------------------------------------------------------
(* Certificates.                                                           *)

\* tqsl_ssl_load_certs_from_file behind the static xcerts.
Loaded(p) == IF xcerts[p] = Null THEN user ELSE xcerts[p]
Cached(p) == [xcerts EXCEPT ![p] = Loaded(p)]
Freed(p)  == [xcerts EXCEPT ![p] = Null]

ForCall(certs, c) == Only(certs, {i \in DOMAIN certs : certs[i].call = c})

\* tqsl_selectCertificates with TQSL_SELECT_CERT_WITHKEYS: listed keys of the
\* call that no certificate of the cached file has.
KeyOnly(p, c, recs) ==
    LET free == Only(recs, {n \in DOMAIN recs :
            /\ ~recs[n].del
            /\ \A i \in DOMAIN Loaded(p) : Loaded(p)[i].key # recs[n].key})
    IN  [i \in DOMAIN free |->
            [call |-> c, key |-> free[i].key, serial |-> 0, repl |-> 0]]

\* tqsl_selectCertificates for one call, expired and superseded ones too.
SelectCertificates(p, c) ==
    ForCall(Loaded(p), c) \o KeyOnly(p, c, ReadKeys(keys[c]))

Listed(p) == UNION {Range(SelectCertificates(p, c)) : c \in Calls}

\* tqsl_getCertificateStatus
StatusIs(e, s) == status[e.serial] = s

\* tqsl_isCertificateExpired
IsExpired(e) ==
    e.serial # 0 /\ (StatusIs(e, "Expired") \/ e.serial \in expired)

\* tqsl_isCertificateSuperceded
IsSuperceded(p, e) ==
    /\ e.serial # 0
    /\ \/ StatusIs(e, "Superceded")
       \/ \E i \in DOMAIN Loaded(p) : Loaded(p)[i].repl = e.serial

\* tqsl_store_cert, the search for doubles: the file is read in order; the
\* same serial number ends the search, and before that a certificate of the
\* same call that expires later refuses the new one, unless force.
StoreOutcome(e, force) ==
    LET n     == Len(user)
        Same(i)  == user[i].serial = e.serial
        Newer(i) == ~force /\ user[i].call = e.call /\ user[i].serial > e.serial
        Hits  == {i \in 1..n : Same(i) \/ Newer(i)}
    IN  IF Hits = {} THEN "stored"
        ELSE LET first == CHOOSE i \in Hits : \A j \in Hits : i <= j
             IN  IF Same(first) THEN "duplicate" ELSE "newer"

\* Mutant: the cache is kept.
StoreCertCached(p, e, outcome) ==
    /\ user' = IF outcome = "stored" THEN Append(user, e) ELSE user
    /\ UNCHANGED <<userNew, xcerts>>

\* ... and its effect.  The cache is dropped even when nothing is stored.
StoreCert(p, e, outcome) ==
    /\ user' = IF outcome = "stored" THEN Append(user, e) ELSE user
    /\ xcerts' = Freed(p)
    /\ UNCHANGED userNew

\* tqsl_backup_cert: one file for each call sign.  The result of
\* tqsl_getKeyEncoded is not looked at: without a key the file has a key part
\* that does not decode (0).
BackupCert(e) ==
    trash' = [trash EXCEPT ![e.call] =
        [entry |-> e, key |-> IF KeyEncoded(e) THEN e.key ELSE 0]]

\* The certificates that stay when e is deleted.
Others(certs, e) == Only(certs, {i \in DOMAIN certs : certs[i].serial # e.serial})

\* Mutant: the key is marked before the backup is made.
DeleteCertificateLateBackup(p, e, end) ==
    LET rest == Others(Loaded(p), e)
    IN  /\ end = "done"
        /\ Swap(e.call, Replaced(ReadKeys(keys[e.call]), e.key, FALSE), end)
        /\ trash' = [trash EXCEPT ![e.call] =
              [entry |-> e, key |-> IF e.serial = 0 THEN e.key ELSE 0]]
        /\ user' = IF e.serial = 0 THEN user ELSE rest
        /\ xcerts' = Freed(p)
        /\ UNCHANGED userNew

\* tqsl_deleteCertificate: backup, mark the key, then write the cached
\* certificates but this one to user.new and put that in place.
DeleteCertificate(p, e, end) ==
    LET rest == Others(Loaded(p), e)
    IN  /\ e.serial = 0 => end # "userTorn"
        /\ BackupCert(e)
        /\ Swap(e.call, Replaced(ReadKeys(keys[e.call]), e.key, FALSE), end)
        /\ user' = IF e.serial = 0 \/ end = "keysTorn" THEN user
                   ELSE IF end = "done" THEN rest ELSE << >>
        /\ userNew' = IF end = "userTorn" THEN rest ELSE userNew
        /\ xcerts' = Freed(p)

\* The process dies when the call does not end.
EndOf(p, end, next) ==
    /\ end # "done" => crashes < MaxCrashes
    /\ crashes' = IF end = "done" THEN crashes ELSE crashes + 1
    /\ work' = [work EXCEPT ![p] = IF end = "done" THEN next ELSE Start]

CountLoad == loads < MaxLoads /\ loads' = loads + 1
-----------------------------------------------------------------------------
(* Requests: CRQWizard and CRQWizardRenew (apps/tqsl.cpp).                  *)

\* OnCertTreeSel: a renewal is offered for a certificate that is neither
\* expired nor superseded.
RenewOffered(p, e) == e.serial # 0 /\ ~IsExpired(e) /\ ~IsSuperceded(p, e)

\* CRQWizardRenew and CRQ_CallsignPage::validate: no request for the call is
\* pending, and a new one must not overlap an entry of the list.
MayRequest(p, c, repl) ==
    /\ c \notin pending
    /\ IF repl = 0 THEN SelectCertificates(p, c) = << >>
       ELSE \E e \in Range(ForCall(Loaded(p), c)) : e.serial = repl /\ RenewOffered(p, e)

NextKey == 1 + Cardinality(UNION {made[c] : c \in Calls})

\* tqsl_createCertRequest, after the .tq5 file is written: the new key record
\* goes to the end of the key file.
NewKeyFile(c) == Append(ReadKeys(keys[c]), [key |-> NextKey, del |-> FALSE])

\* The request is written, and uploaded or left for the user to mail.
RequestSent(p, c, repl) ==
    /\ work[p] = Idle
    /\ NextKey \in Keys /\ Len(ReadKeys(keys[c])) < MaxRecs
    /\ MayRequest(p, c, repl)
    /\ keys' = [keys EXCEPT ![c] = NewKeyFile(c)]
    /\ made' = [made EXCEPT ![c] = @ \cup {NextKey}]
    /\ requests' = requests \cup
          {[call |-> c, key |-> NextKey, serial |-> 0, repl |-> repl]}
    /\ pending' = pending \cup {c}
    /\ xcerts' = Cached(p)
    /\ work' = [work EXCEPT ![p] = Build]
    /\ UNCHANGED <<save, new, torn, userVars, trash, status, containers, issued,
                   expired, boundVars>>

\* deleteRequest takes the first request of the call in the list for the one
\* that failed.
DeleteRequest(p, c, recs) ==
    LET list == KeyOnly(p, c, recs)
    IN  IF list = << >>
        THEN /\ keys' = [keys EXCEPT ![c] = recs]
             /\ xcerts' = Cached(p)
             /\ UNCHANGED <<save, new, torn, trash>>
        ELSE /\ trash' = [trash EXCEPT ![c] =
                             [entry |-> Head(list), key |-> Head(list).key]]
             /\ keys' = [keys EXCEPT ![c] = Replaced(recs, Head(list).key, FALSE)]
             /\ save' = [save EXCEPT ![c] = recs]
             /\ new'  = [new EXCEPT ![c] = Null]
             /\ torn' = [torn EXCEPT ![c] = IF @ = "torn" THEN "over" ELSE @]
             /\ xcerts' = Freed(p)

\* The user cancels the file dialog, or the request cannot be made: no key
\* was created yet.
RequestAbandoned(p, c, repl) ==
    /\ work[p] = Idle
    /\ MayRequest(p, c, repl)
    /\ ReadKeys(keys[c]) # << >>
    /\ DeleteRequest(p, c, ReadKeys(keys[c]))
    /\ UNCHANGED <<made, userVars, status, pending, work, containers, lotwVars,
                   boundVars>>

\* The request is made and its upload fails, or the file cannot be read back
\* for the upload; retval is 0 in that case and the call counts as pending.
RequestUploadFails(p, c, repl, unread) ==
    /\ work[p] = Idle
    /\ NextKey \in Keys /\ Len(ReadKeys(keys[c])) < MaxRecs
    /\ MayRequest(p, c, repl)
    /\ DeleteRequest(p, c, NewKeyFile(c))
    /\ made' = [made EXCEPT ![c] = @ \cup {NextKey}]
    /\ pending' = IF unread THEN pending \cup {c} ELSE pending
    /\ work' = [work EXCEPT ![p] = Build]
    /\ UNCHANGED <<userVars, status, containers, lotwVars, boundVars>>

-----------------------------------------------------------------------------
(* Loading a file: LoadCertWiz, cert_cleanup, CertTree::Build.              *)

\* notifyImport, the callback: a certificate that was stored ends the wait
\* for it.
NotifyImport(e, outcome) ==
    pending' = IF outcome = "stored" THEN pending \ {e.call} ELSE pending

HasKey(e) == KeyExists(ReadKeys(keys[e.call]), e.key)

\* tqsl_handle_user_cert: the key is looked for, and its mark taken away,
\* before the certificate is stored.  Without a key nothing happens.
HandleUserCert(p, e, end) ==
    LET outcome == StoreOutcome(e, FALSE)
    IN  /\ end = "keysTorn" => HasKey(e) /\ MustUndelete(e.call, e.key)
        /\ FindMatchingKey(e.call, e.key, end)
        /\ IF HasKey(e) /\ end = "done"
           THEN StoreCert(p, e, outcome) /\ NotifyImport(e, outcome)
           ELSE /\ xcerts' = IF HasKey(e) THEN Freed(p) ELSE xcerts
                /\ UNCHANGED <<userVars, pending>>

\* tqsl_import_cert: the call and the serial number of the certificate are left
\* for the clean-up when its handler returns without an error, which it does
\* too when the callback lets the store's refusal pass.
AfterImport(e) == IF e.serial # 0 /\ HasKey(e) THEN Cleanup(e.call, e.serial) ELSE Build

ImportTQSLFile(p, e, end) ==
    /\ HandleUserCert(p, e, end)
    /\ EndOf(p, end, AfterImport(e))

\* LoadCertWiz with a .tq6 file.
LoadTQ6(p, e, end) ==
    /\ work[p] = Idle
    /\ CountLoad
    /\ ImportTQSLFile(p, e, end)
    /\ UNCHANGED <<trash, status, containers, lotwVars>>

\* tqsl_importPKCS12, before it touches the store: what may be wrong with a
\* container, in the order of the tests, and how the call then ends.
P12Flaws == {"unreadable", "mac", "safes", "bag", "notOurs", "attribute", "prompt"}
P12Error(flaw) ==
    CASE flaw = "mac"     -> "PASSWORD_ERROR"
      [] flaw = "bag"     -> "PKCS12_ERROR"
      [] flaw = "notOurs" -> "CERT_TYPE_ERROR"     \* no AROcallsign
      [] flaw = "prompt"  -> "OPERATOR_ABORT"      \* no new pass phrase
      [] OTHER            -> "OPENSSL_ERROR"

\* LoadCertWiz then: a wrong pass phrase is asked for again, on the page for it,
\* until the user gives up; the list is built either way.
LoadP12Refused(p, flaw) ==
    /\ work[p] = Idle
    /\ CountLoad
    /\ work' = [work EXCEPT ![p] = Build]
    /\ P12Error(flaw) = "PASSWORD_ERROR" => containers # {}
    /\ UNCHANGED <<keyVars, userVars, trash, status, pending, xcerts, containers, lotwVars, crashes>>

\* tqsl_importPKCS12: the key goes to the key file first.  A certificate the
\* store refuses, other than as a double, puts .save back in its place; when
\* there is no .save the new file stays.
LoadP12(p, e) ==
    LET recs    == ReadKeys(keys[e.call])
        outcome == IF e.serial = 0 THEN "none" ELSE StoreOutcome(e, FALSE)
        undo    == outcome = "newer" /\ keys[e.call] # Null
    IN  /\ work[p] = Idle
        /\ CountLoad
        /\ Len(recs) < MaxRecs
        /\ keys' = [keys EXCEPT ![e.call] = IF undo THEN @ ELSE Replaced(recs, e.key, TRUE)]
        /\ save' = [save EXCEPT ![e.call] = IF undo THEN Null ELSE keys[e.call]]
        /\ new'  = [new EXCEPT ![e.call] = Null]
        /\ torn' = [torn EXCEPT ![e.call] = IF @ = "torn" THEN "over" ELSE @]
        /\ IF e.serial = 0 THEN UNCHANGED <<userVars, xcerts>>
                           ELSE StoreCert(p, e, outcome)
        /\ work' = [work EXCEPT ![p] =
                       IF e.serial = 0 THEN Build ELSE Cleanup(e.call, e.serial)]
        /\ UNCHANGED <<made, trash, status, pending, containers, lotwVars, crashes>>

\* tqsl_setCertificateStatus: one entry for each serial number.
SetCertificateStatus(n, s) == status' = [status EXCEPT ![n] = s]

\* What LoTW says about a serial number; "Unknown" when it cannot be asked.
LotwStatus(s) ==
    {"Unknown", IF s \in expired THEN "Expired"
                ELSE IF \E e \in issued : e.repl = s THEN "Superceded"
                ELSE "Unrevoked"}

\* cert_cleanup, up to the list of the call's entries.  It runs after a
\* certificate was found to have a key here, stored or not.
CleanupList(p) ==
    LET w == work[p] IN
    /\ w.phase = "cleanup" /\ w.todo = << >>
    /\ \E s \in LotwStatus(w.serial) :
          /\ SetCertificateStatus(w.serial, s)
          /\ IF s \in {"Unrevoked", "Unknown"} /\ SelectCertificates(p, w.call) # << >>
             THEN /\ work' = [work EXCEPT ![p].todo = SelectCertificates(p, w.call),
                                          ![p].phase = "deleting"]
                  /\ xcerts' = Cached(p)
             ELSE work' = [work EXCEPT ![p] = Build] /\ UNCHANGED xcerts
    /\ UNCHANGED <<keyVars, userVars, trash, pending, containers, lotwVars, boundVars>>

Rest(p) == IF Tail(work[p].todo) = << >> THEN Build
           ELSE [work[p] EXCEPT !.todo = Tail(@)]

\* Mutant: the certificate just loaded is not spared.
IsLeftoverAny(p, e) == e.serial = 0 \/ e.serial = work[p].serial \/ IsExpired(e)

\* What cert_cleanup deletes: requests of the call, and its certificates that
\* are superseded or expired, but not the one just loaded.
IsLeftover(p, e) ==
    \/ e.serial = 0
    \/ e.serial # work[p].serial /\ (IsSuperceded(p, e) \/ IsExpired(e))

CleanupDelete(p, end) ==
    LET e == Head(work[p].todo) IN
    /\ work[p].phase = "deleting"
    /\ IsLeftover(p, e)
    /\ DeleteCertificate(p, e, end)
    /\ EndOf(p, end, Rest(p))
    /\ UNCHANGED <<status, pending, containers, lotwVars, loads>>

CleanupKeep(p) ==
    /\ work[p].phase = "deleting"
    /\ ~IsLeftover(p, Head(work[p].todo))
    /\ work' = [work EXCEPT ![p] = Rest(p)]
    /\ xcerts' = Cached(p)
    /\ UNCHANGED <<keyVars, userVars, trash, status, pending, containers, lotwVars,
                   boundVars>>

\* tqsl_getCertificatePrivateKeyType tries to unlock the key, with an empty
\* pass phrase, to see whether there is one.
GetPrivateKeyType(e, end) == FindMatchingKey(e.call, e.key, end)

\* CertTree::Build asks for the type of every certificate's private key, which
\* takes the DELETED mark from the key of a listed certificate.
BuildFindsKey(p, e, end) ==
    /\ work[p] \in {Build, Start}
    /\ e \in Range(Loaded(p))
    /\ MustUndelete(e.call, e.key)
    /\ GetPrivateKeyType(e, end)
    /\ xcerts' = IF end = "done" THEN Cached(p) ELSE Freed(p)
    /\ EndOf(p, end, work[p])
    /\ end # "userTorn"
    /\ UNCHANGED <<userVars, trash, status, pending, containers, lotwVars, loads>>

\* When a copy starts, FirstTime also drops the call signs from RequestPending
\* that have no request in the list.
BuildEnds(p) ==
    /\ work[p] \in {Build, Start}
    /\ \A e \in Range(Loaded(p)) : ~MustUndelete(e.call, e.key)
    /\ xcerts' = Cached(p)
    /\ pending' = IF work[p] = Build THEN pending
                  ELSE {c \in pending : KeyOnly(p, c, ReadKeys(keys[c])) # << >>}
    /\ work' = [work EXCEPT ![p] = Idle]
    /\ UNCHANGED <<keyVars, userVars, trash, status, containers, lotwVars, boundVars>>

\* The user closes the window.
Exit(p) ==
    /\ work[p] = Idle
    /\ xcerts' = Freed(p)
    /\ work' = [work EXCEPT ![p] = Start]
    /\ UNCHANGED <<keyVars, userVars, trash, status, pending, containers, lotwVars,
                   boundVars>>

-----------------------------------------------------------------------------
(* The other commands of the window.                                       *)

OnCertDelete(p, e, end) ==
    /\ work[p] = Idle
    /\ e \in Listed(p)
    /\ pending' = pending \ {e.call}
    /\ DeleteCertificate(p, e, end)
    /\ EndOf(p, end, Build)
    /\ UNCHANGED <<status, containers, lotwVars, loads>>

\* tqsl_importKeyPairEncoded: the key is added unless a record of it is
\* there; then the certificate, if there is one, without the test for a newer
\* one.
ImportKeyPair(p, t, end) ==
    LET c    == t.entry.call
        recs == ReadKeys(keys[c])
    IN  /\ IF t.key # 0 /\ ~KeyExists(recs, t.key)
           THEN Swap(c, Replaced(recs, t.key, TRUE), end)
           ELSE end = "done" /\ UNCHANGED keyVars
        /\ IF t.entry.serial = 0 \/ end # "done" THEN UNCHANGED <<userVars, xcerts>>
           ELSE StoreCert(p, t.entry, StoreOutcome(t.entry, TRUE))

\* tqsl_make_backup_list: a deleted certificate that is installed again is
\* not offered.
BackupList(p) ==
    {c \in Calls : /\ trash[c] # Null
                   /\ \/ trash[c].entry.serial = 0
                      \/ \A e \in Range(SelectCertificates(p, c)) :
                             e.serial # trash[c].entry.serial}

\* tqsl_restoreCallsignCertificate: the backup goes once it is imported.
RestoreCallsignCertificate(p, c, end) ==
    /\ ImportKeyPair(p, trash[c], end)
    /\ trash' = [trash EXCEPT ![c] = IF end = "done" THEN Null ELSE @]

OnCertUndelete(p, c, end) ==
    /\ work[p] = Idle
    /\ c \in BackupList(p)
    /\ CountLoad
    /\ Len(ReadKeys(keys[c])) < MaxRecs
    /\ end # "userTorn"
    /\ RestoreCallsignCertificate(p, c, end)
    /\ EndOf(p, end, Build)
    /\ UNCHANGED <<status, pending, containers, lotwVars>>

\* tqsl_exportPKCS12: the key has to be found and unlocked.
ExportPKCS12(e) ==
    /\ HasKey(e)
    /\ FindMatchingKey(e.call, e.key, "done")
    /\ containers' = containers \cup {e}

OnCertExport(p, e) ==
    /\ work[p] = Idle
    /\ e \in Listed(p) \ containers
    /\ ExportPKCS12(e)
    /\ UNCHANGED <<userVars, trash, status, pending, xcerts, work, lotwVars, boundVars>>

\* DoCheckExpiringCerts asks LoTW about every certificate not yet expired.
CheckCertStatus(p, e) ==
    /\ e \in Range(Loaded(p)) /\ ~IsExpired(e)
    /\ \E s \in LotwStatus(e.serial) : SetCertificateStatus(e.serial, s)
    /\ UNCHANGED <<keyVars, userVars, trash, pending, xcerts, work, containers,
                   lotwVars, boundVars>>

-----------------------------------------------------------------------------
(* LoTW and the calendar.                                                  *)

Issue(r) ==
    /\ \A e \in issued : e.key # r.key
    /\ issued' = issued \cup {[r EXCEPT !.serial = 1 + Cardinality(issued)]}
    /\ UNCHANGED <<keyVars, userVars, trash, status, pending, xcerts, work,
                   containers, requests, expired, boundVars>>

Expire(s) ==
    /\ s \notin expired /\ \A i \in 1..(s - 1) : i \in expired
    /\ \E e \in issued : e.serial = s
    /\ expired' = expired \cup {s}
    /\ UNCHANGED <<keyVars, userVars, trash, status, pending, xcerts, work,
                   containers, requests, issued, boundVars>>

Init ==
    /\ keys = [c \in Calls |-> Null] /\ save = keys /\ new = keys
    /\ torn = [c \in Calls |-> "no"]
    /\ made = [c \in Calls |-> {}]
    /\ user = << >> /\ userNew = Null
    /\ trash = [c \in Calls |-> Null]
    /\ status = [s \in Keys |-> "Unknown"]
    /\ pending = {} /\ containers = {}
    /\ xcerts = [p \in Copies |-> Null]
    /\ work = [p \in Copies |-> Start]
    /\ requests = {} /\ issued = {} /\ expired = {}
    /\ crashes = 0 /\ loads = 0

Request(p) == \E c \in Calls, repl \in Serials :
    \/ RequestSent(p, c, repl)
    \/ RequestAbandoned(p, c, repl)
    \/ \E unread \in BOOLEAN : RequestUploadFails(p, c, repl, unread)

Load(p) ==
    \/ \E e \in issued, end \in {"done", "keysTorn"} : LoadTQ6(p, e, end)
    \/ \E e \in containers : LoadP12(p, e)
    \/ \E flaw \in P12Flaws : LoadP12Refused(p, flaw)
    \/ CleanupList(p)
    \/ \E end \in Ends : CleanupDelete(p, end)
    \/ CleanupKeep(p)
    \/ \E e \in Range(Loaded(p)), end \in Ends : BuildFindsKey(p, e, end)
    \/ BuildEnds(p)

Command(p) ==
    \/ \E e \in Listed(p), end \in Ends : OnCertDelete(p, e, end)
    \/ \E c \in Calls, end \in Ends : OnCertUndelete(p, c, end)
    \/ \E e \in Listed(p) : OnCertExport(p, e)
    \/ \E e \in Range(Loaded(p)) : CheckCertStatus(p, e)
    \/ Exit(p)

Lotw == (\E r \in requests : Issue(r)) \/ (\E s \in Keys : Expire(s))

Next == Lotw \/ \E p \in Copies : Request(p) \/ Load(p) \/ Command(p)

Spec == Init /\ [][Next]_vars

-----------------------------------------------------------------------------
(* Properties.                                                             *)

\* No private key is ever lost: through requests, deletions, restored
\* deletions, imports that are taken back and clean-ups, a key that was
\* created stays in its key file (tqsl_replace_key marks records, it drops
\* none).  After a crash between the two renames the keys are in the .save
\* and .new files, until the next rewrite unlinks .save.
KeysKept ==
    \A c \in Calls : \A k \in made[c] :
        \/ torn[c] = "no" /\ KeyExists(ReadKeys(keys[c]), k)
        \/ torn[c] = "torn" /\ \E f \in {keys[c], save[c], new[c]} :
                                  KeyExists(ReadKeys(f), k)
        \/ torn[c] = "over"

\* No certificate is installed twice and, when the window waits for the user,
\* every installed one has a listed key, so it can sign and be saved: a
\* restored certificate gets back its key, which the deletion marked and the
\* restoration leaves marked, because CertTree::Build unlocks every key.
InstalledUsable ==
    /\ \A i, j \in DOMAIN user : user[i].serial = user[j].serial => i = j
    /\ (\A p \in Copies : work[p] = Idle) =>
           \A e \in Range(user) :
               torn[e.call] = "no" => KeyListed(ReadKeys(keys[e.call]), e.key)

\* The backup a deletion leaves carries the private key, so that it can be
\* restored even where the key file is gone (tqsl_backup_cert does not look
\* at the result of tqsl_getKeyEncoded).
BackupHasKey ==
    \A c \in Calls :
        trash[c] # Null /\ torn[c] = "no" => trash[c].key = trash[c].entry.key

\* While one copy runs, the cached certificates are those of certs/user:
\* a deletion, which writes the file from the cache, cannot undo an import.
CacheFresh == \A p \in Copies : xcerts[p] \in {Null, user}

\* Usable: an unexpired certificate of the call that nothing supersedes,
\* with its key on file.
Usable(c) ==
    \E e \in Range(user) :
        /\ e.call = c /\ ~IsExpired(e)
        /\ \A x \in Range(user) : x.repl # e.serial
        /\ status[e.serial] # "Superceded"
        /\ KeyExists(ReadKeys(keys[c]), e.key)

\* LoTW has said that the newest installed certificate of the call is
\* superseded, by one that is not here.
NewestSuperceded(c) ==
    \E e \in Range(user) :
        /\ e.call = c /\ status[e.serial] = "Superceded"
        /\ \A x \in Range(user) : x.call = c => x.serial <= e.serial

\* A call that loses its last usable certificate lost it to the user's own
\* deletion, the calendar, an answer of LoTW, a crash, or a certificate
\* installed over the one in use when LoTW has already superseded it.
LossExplained(c) ==
    \/ expired' # expired \/ status' # status \/ crashes' # crashes
    \/ torn[c] # "no"
    \/ user' # user /\ NewestSuperceded(c)'
    \/ \E p \in Copies : /\ work[p] = Idle
                        /\ \E e \in Range(user) : OnCertDelete(p, e, "done")

UsableKept == \A c \in Calls : Usable(c) /\ ~Usable(c)' => LossExplained(c)

\* Loading files, cleaning up afterwards, requesting, renewing, restoring and
\* saving never leave a call sign that could sign without a certificate that
\* can, but for the losses above.
UsableStaysUsable == [][UsableKept]_vars

\* A certificate leaves certs/user only into the trash, unless the copy
\* crashes ("No match -- keep this one" in tqsl_deleteCertificate): nothing is
\* lost beside what was deleted.
LeavesThroughTrash ==
    [][\A e \in Range(user) \ Range(user') :
          crashes' # crashes \/ (trash'[e.call] # Null /\ trash'[e.call].entry = e)]_vars
=============================================================================
