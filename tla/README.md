# TrustedQSL in TLA+

TrustedQSL (TQSL) signs amateur radio logs with callsign certificates and hands
them to the LoTW server. This directory holds TLA+ models of its core, the TLC
runs that check them and TLAPS proofs about them. `PROJECT.json` is the index:
components, runs, the source lines of every definition, findings and hazards.

## The system

| Component | State | Operations | Talks to |
| --- | --- | --- | --- |
| Signing jobs (`apps/tqsl.cpp`: `ConvertLogToString`, `ConvertLogFile`, `UploadLogFile`, `UploadFile`) | job options, output, counters, converter handle, lock file | convert, ask, restart, write, upload, retry, commit, roll back | converter, duplicates database, LoTW, other copies through the lock file |
| Duplicates database (`src/tqslconvert.cpp`, LMDB) | QSO keys with station details, one write transaction | open, look up, put, delete, commit, abort, remove and recreate | every copy of TQSL on the computer |
| Converter (`src/tqslconvert.cpp`) | current record, certificate, station location, UIDs | one call per GABBI record | ADIF and Cabrillo readers, locations, certificates, database |
| Station locations (`src/location.cpp`, `apps/tqslwiz.cpp`) | the form's fields and lists that depend on one another; the station data file and its trash | pick, type, page, save, load, delete, restore, merge | converter, windows, backup |
| Certificate store (`src/openssl_cert.cpp`) | key files, installed certificates, trash, status file, cache | request, import, select, delete, restore, save, clean up | wizards, LoTW, converter |
| Request and renewal wizard (`apps/crqwiz.cpp`) | controls, collected data, page | edit, validate, Next, Back, Finish | certificate store, FCC database |
| QSO dialog (`apps/qsodatadialog.cpp`) | list of contacts, working record, controls | edit, move, add, delete, save, close | ADIF reader and writer |
| Readers (`src/adif.cpp`, `src/cabrillo.cpp`) | position in the input, partial record, contest | next field | converter, QSO dialog |
| Backup and restore (`apps/tqsl.cpp`) | last backup, dated backups | rename, prune, write, merge | station data, lock file |
| Library basics (`src/tqsllib.cpp`, `src/xml.cpp`) | configuration, error code | dates, callsigns, configuration tree | all |
| Update check (`apps/tqsl.cpp`) | result of the check | ask the server | a thread |
| Help, preferences, samples, wxJSON | presentation | - | - |

What is hard here: several copies of TQSL share a database, guarded by a lock
file *and* by the LMDB write mutex, and the lock file is given up before the
upload; an upload can arrive without its answer arriving; a job has many exits
and each must end the converter, release the lock and report the right status;
the converter needs up to four calls for a record, and changes its certificate
and location on the way. Key, certificate and station files are rewritten by
several renames or in place, so a crash or a failed write can leave a part. The
wizards and dialogs keep the same data several times, and the user chooses the
order in which the copies are brought up to date.

## Modules

* `UploadLedger` - abstract specification of the duplicates database: a copy
  *claims* QSOs nobody claimed or recorded, they are *delivered*, then the claim
  is *recorded* or dropped.
* `Signing` - any number of copies, each running signing jobs, with crashes, a
  database that fails or is removed, lost answers and retries. It instantiates
  `UploadLedger` with the refinement mapping: the claim of a copy is what it
  put in its transaction.
* `Converter` - one converter and the loop that calls it.
* `CertStore` - key files, certificates and their trash, LoTW and the commands of
  the window that change them, with crashes.
* `Dates` - the date arithmetic of the library, as operators.
* `RequestWizard` - the pages of the request and renewal wizard and the checks of
  `tqsl_createCertRequest`; extends `Dates`.
* `StationFiles` - station data file, trash and rotating backups under crashes and
  failing writes.
* `StationForm` - the station location form, one location being captured.
* `LogEditor` - the QSO dialog between reading and writing an ADIF file.
* `Cabrillo` - the Cabrillo reader and the loop that takes its fields.
* `Selection` - the elements of a list at some positions, in their order; used by
  `CertStore` and `StationFiles`.
* `SigningProofs`, `ConverterProofs`, `CertStoreProofs`, `RequestWizardProofs`,
  `StationFilesProofs`, `LogEditorProofs`, `CabrilloProofs` - TLAPS proofs about the
  modules they are named for. `SelectionProofs` holds the lemmas several of them use.
* `MC...` - the instances for TLC.

Operators introduced by a comment `Mutant:` are wrong versions of the operator
that follows. They are used only to confirm that a property notices the error.

### Signing and the code

A copy's program counter `pc` names the places of a job where other copies can
intervene or a decision is due: `lockwait` is `lock_db(true)`, `begin` the label
`restart`, `converting` the loop over `tqsl_getConverterGABBI`, `txnwait` inside
`mdb_txn_begin`, `error` the error handling of the loop, `errdlg` and `dupes` the
two dialogs, `cancelled`, `aborted` and `finished` the three ways out of the
loop, `deliver` the code after `ConvertLogToString` returned, `uploading` and
`retry` are `UploadFile`, `handed` and `failed` precede commit and roll back, and
`done` is the end, with the exit status. `out` is the signed output, `pend` the
keys in the open transaction, `writer[g]` the LMDB write mutex of the database
files of generation `g` (removing the files starts a new generation), `flock` the
lock on `dblock`. A record is reduced to its duplicate key and to whether it
signs, is refused or is filtered. A key that is found counts as a duplicate; the
rule about changed station details is in `Converter`.

The lock can be missing altogether: `lock_db` goes on when the lock file cannot
be opened, so `StartSigning` has that alternative, and no property rests on it.

### Converter and the code

Every action is one call of `tqsl_getConverterGABBI`: it emits a tCERT, tSTATION
or tCONTACT, or reports an error, a duplicate or a filtered QSO; `NeedKey` and
`UnlockKey` are the `TQSL_SIGNINIT_ERROR` round trip through the caller.
`rec_done` decides whether a call reads a record or goes on with the last one.
`loc` is the station location being changed record by record. A field chosen from
a list has a text (`cdata`, which comparisons use) and a selected item (which is
emitted and signed); `tqsl_setLocationField` can change one without the other.
`Checked` is the chain of comparisons in the order of the code, stopping at the
first refusal and keeping what was changed before it. `serial` is the certificate
serial number last noted, used for entries in the old database format.

Left out: Cabrillo input, DXCC entities (all callsigns are in one), lists of
grids, the refresh of fields that depend on others (state to county and zones),
the location named `[None]` without a callsign, and the identification record at
the start. The database transaction is the one of the run; sharing it is the
subject of `Signing`.

### CertStore and the code

Each command of the window is an action, or several when the list is built again
in between: `work[p]` says what the copy `p` still has to do. A file that is
rewritten is followed through its renames: `end` says whether the call returned
or the process died after the key file became `.save` (`keysTorn`) or after
`certs/user` was unlinked (`userTorn`). `xcerts` is the static cache of
`certs/user`. `Replaced` is `tqsl_replace_key`, which marks and never removes;
`MustUndelete` and `FindMatchingKey` are `tqsl_find_matching_key` with its second
pass over marked records. `LoadTQ6`, `LoadP12` and `LoadP12Refused` are the
imports, `CleanupList`, `CleanupDelete` and `CleanupKeep` `cert_cleanup`,
`BuildFindsKey` and `BuildEnds` `CertTree::Build`. `Issue` and `Expire` are LoTW
and the calendar (external). Left out: entities, dates, pass phrases and chains.

### RequestWizard and the code

`form` holds the controls, `crq` the `CRQWiz` object. `ValidateCallsign` is
`CRQ_CallsignPage::validate`, which rewrites dates when the entity changes
(`Redated`) and finds the first complaint. `LeaveCallsign` is Next or Back there,
with the FCC lookup and the questions; `Show` is what showing a page does, since
wxWizard (external) asks a page for its successor, refreshes and validates it.
`signIt` is set in four places, as in the code. `CreateCertRequest` is the call
the window makes afterwards. The garbage value of the dates of no entity is a
free choice.

### StationFiles and the code

`files` are the station data file and its trash, each whole or cut off;
`job` is the operation under way with the files it still has to write. Opening a
file for writing empties it, closing makes it whole, and a crash or a failed
write leaves some of its locations, the last one perhaps torn. `AfterDump` keeps
the ignored result of the first write of a move. `main` and `dated` are the last
backup and the renamed ones.

### StationForm and the code

A field has the list it offers, the index, the text and the number, as
`TQSL_LOCATION_FIELD` does; a combo box has the strings it was filled with and
its selection. `UpdatePage` is `update_page`, list by list; `UpdateFields` is the
loop over the controls that fills boxes again, reverts picks and takes defaults.
`LoadLoc` and `Texts` are loading and saving. Zones, states and counties are
those of the constants; grid and IOTA are free text and only the validity of the
grid is kept. The module uses a RECURSIVE operator for the chain of pages.

### LogEditor and the code

`d` is the dialog: the list, the record shown, the controls and the flags of the
buttons. A handler is an operator on `d` and the button an action. The controls
are pulled by every keystroke (`OnFieldChanged`) and by `TransferDataFromWindow`;
storing outside the list may have no effect or crash (`oob`). `LoadQSOfile` and
`Written` are reading and writing, with the mapping of modes and submodes from
the configuration (`ModeMap`, `SubModeMap`). `Long` are the texts that do not fit:
no control limits what is typed, so a call sign or frequency in `Long` is written as
a field the reader refuses, and a field the editor does not know that is as long as
the reader takes does not fit in the buffer it is written through and is left out.
`NoBlankWritten` speaks of edited logs: a new log starts with a blank record already.

### Cabrillo and the code

`BeginCabrillo` reads the header and takes the contest from the configuration or
from the user's own entries (`CallField`). `GetCabrilloField` delivers one field and
what the converter's loop does with it: a date or a time it does not accept spoils the
record (`Spoils`), which is complained about when the line has been read to its end.
After an error inside a line the record is not marked as done, so the next call reads
nothing and looks at what there is (`TakePartial`): if an element is missing
(`Missing`), that is a second complaint about the same line, and the window counts and
logs both. `loc` is the call column, which for an unknown contest is guessed from a
line and kept.

## Runs

| Run | Instance | Shows |
| --- | --- | --- |
| `signing` | a copy with a window, a batch copy, six jobs over two QSOs, two jobs in all, database working | the recorded QSOs were delivered, checks stay fresh until the commit, copies never share a claim, only whole jobs enter the database, exit status of saved files, refinement of `UploadLedger` |
| `signing_db_fails` | the same copies, two jobs, opening and using the database can fail, the files can be removed once, commits can be lost | the inductive invariant survives |
| `signing_live` | two copies with windows | every job ends, if no abandoned transaction stays for ever |
| `converter` | two callsigns, three certificates, logs of up to three records, two locations, filled and empty database, all handlings | stream well formed, right certificate, one fate per record, station details current, no QSO signed twice, conversion ends |
| `certs` | one call sign, two key pairs, three records in a key file, three loads, one crash | keys stay, installed certificates can sign, backups carry keys, the cache is fresh, clean-up spares what is usable, nothing leaves but into the trash |
| `wizard` | four call signs, three entities (one that ended), five begin and end dates (29 February of a leap and of a common year), four e-mail addresses, empty and filled settings, stores with and without certificates and with requests that have no end date, a renewal, five edits | what is accepted is sound, is not refused by the library, and is signed by the certificate selected last |
| `station_files` | two spellings of a name and the hidden one, two contents, four operations, two minutes, one crash, one failed write, one version kept | a moved or deleted location stays in one of the files, some backup is readable |
| `station_form` | two calls, one with an expired certificate for a second entity; an entity with states, counties and zones of its own per state, one of the pairs outside the entity's map; one with a zone map only; two edits (selections or a grid) while the form is open | the form shows what the location holds, saved locations fit, those with zones of the entity's map load unchanged, a pick stays |
| `log_editor` | three logs of up to two contacts, with a submode, a satellite, unknown fields (one too long to write), a band that is not listed and a field the reader refuses; a call sign that is too long may be typed; lists of up to three, two edits | the saved file reads back as the list, looking changes no old record with listed values, no blank record |
| `cabrillo` | logs with two QSO lines, right or wrong in one column, a flawed line between them and lines after END-OF-LOG; contests of the configuration, redefined by the user and unknown; a missing header, and one that comes after a contact | a record is a line, each line is delivered or complained about |
| `converter_stale`, `log_silent` | the instances of `converter` and `log_editor` | the findings below |

Bounds. `MaxJobs` = 2 lets two jobs overlap or follow one another, which is what
the exclusion properties need: they relate two copies. `MaxTries` = 1 allows one
repeated upload after the automatic one for TLS. `MaxGen` = 1 lets one copy
recreate the files under another. Two QSOs allow a log that is partly known.
Three records allow certificate A, B and A again, and a refused record between
two good ones; three certificates cover a second period of one callsign and a
second callsign. `UidSpan` replaces 2^31 as the size of the STATION_UID counter.
Two key pairs are a certificate and its renewal, three records of a key file allow
a key to be marked, added again and followed by another. Key files of different
call signs are separate, so one call sign is enough. Five edits allow a call sign,
an entity, two dates and one change of mind. Four operations allow save, delete,
save again and restore; two minutes allow two backups with different names and
two with the same.
Deadlock is not checked where the system may stop: a copy may not be asked for
another job, a conversion ends with its file, a window may be closed.

Fairness. `Signing!FairSpec` is weak fairness of each copy's own steps: the
process is scheduled, dialogs are answered, the transfer ends or times out.
Starting a job, cancelling and crashing are never forced. `EveryJobEnds` adds the
hypothesis that no abandoned transaction is kept for ever, because a window can
keep one. `Converter!FairSpec` is weak
fairness of `Next`: the loop of `ConvertLogToString` calls again after every
result and the key dialog is answered. The other modules state safety only: what
happens next in them is up to the user.

## Findings

* `converter_stale`: after a location mismatch in UPDATE mode the location stays
  changed; the next QSOs are signed with details that no tSTATION shows. IOTA is
  free text, which `tqsl_setLocationField` never finds in a list, so each change
  of IOTA is refused and then applied.
* `log_silent`: closing the QSO dialog asks only when the record shown differs
  from its last copy, and every keystroke makes that copy; added, edited and
  deleted contacts are dropped without a question.

Met while modelling and not the subject of a run:

* Signing: several paths return without `tqsl_endConverter`, so an idle window
  keeps the write transaction (`apps/tqsl.cpp:2475`, `2609`); batch mode tests only
  the lock file (`2071`) and then waits for the LMDB mutex of a copy that is
  uploading; `TQSL_EXIT_BUSY` is replaced by "no QSOs" (`2609`); a database that
  cannot be opened keeps batch mode in its loop; an upload that left records out
  exits with status 0, unlike a saved file; the result of `mdb_txn_commit` is
  ignored, so `SuccessIsRecorded` needs a working database.
* Converter: returning to an earlier certificate emits no tSTATION
  (`src/tqslconvert.cpp:1780`); while MY_ fields are ignored the lookup of old
  entries can use the other certificate's serial number (`1965`); a zone "0" makes
  REPORT mode ask for station records for ever (`1401`); `tqslconvert.h` says the
  QTH handling defaults to 0 and the constructor sets UPDATE; a filtered record
  still changes the callsign for the records after it; a record inside which the
  parser failed is reported and then signed; the comparison of grid lists always
  succeeds for lists of equal length.
* Certificates: `RequestPending` can name a call sign without a request in the
  list, when the request could not be read back for the upload
  (`apps/tqsl.cpp:6425`), while `crqwiz.cpp:978` tells the user to delete it;
  two copies with different caches undo each other's imports.
* Request wizard: a pending request without an end date never counts as
  overlapping, since it is compared with three zeros (`crqwiz.cpp:947`); only
  `RequestPending` stops a second request, and loading a certificate removes the
  call from that list as a substring (`loadcertwiz.cpp:275`), out of the middle of
  longer calls too. The page for the signature takes the selected certificate
  whatever the answer is (`crqwiz.cpp:1374`), and hiding the tree does not clear the
  selection, so "No" after a selection still signs. "NONE always requires signature"
  and "1x1 always requires signature" (`crqwiz.cpp:335`, `339`) only bring up that
  page, which asks for a certificate for the answer Yes alone (`1334`): with another
  answer the request goes out unsigned. TLC finds both, as violations of stronger
  forms of `SignedBySelected`, which leaves them out.
* Station locations: a failed write of the trash loses the location that is
  deleted (`src/location.cpp:2891`); after a change of entity the CQ and ITU zones
  that are kept need not be a pair of its map, and Next is not refused, as
  `apps/help/tqslapp/stnloc1.htm:16` says it is. A location is loaded with the
  entity's zone map before the state is known, so a pair that only the map of the
  state has is lost in part, and `RoundTrip` leaves such pairs out. `src/config.xml`
  has one: Nunavut has 09:04 (line 721), Canada does not (line 295), and a location
  saved with that pair is read back without its CQ zone. The instance has a state of
  this kind, for which TLC refutes `RoundTrip` without its restriction.
* Cabrillo: a grid of six characters is taken for the call worked when the column is
  guessed. The loop over the text has moved `p` to its end when `src/cabrillo.cpp:729`
  asks for its length, so "Gridsquare. Don't use it." (`735`) is never reached; the
  test for four characters (`710-714`) stands before the loop and works. The column is
  then that of the grids, or two candidates are found and the line is refused.
  `RecordIsLine` promises nothing of the call in such a log, and the instance has
  both cases. A line refused in the middle is complained about twice, first for the
  field and then as an invalid contact that lacks what was not read
  (`src/tqslconvert.cpp:1506`, `1557-1586`; `apps/tqsl.cpp:2229-2254` counts both);
  contacts above the CONTEST line are passed over silently (`src/cabrillo.cpp:552`);
  "122G" has a band and no frequency.

## Proofs

Every theorem holds for all values of the constants that satisfy the named
assumptions of the module it is about. `PROJECT.json` lists the theorems with the
properties they state. Nearly none of the properties is inductive; the invariant
that is has been checked by TLC before it was proved.

`SigningProofs`. That two copies never share a QSO depends on why one of them
cannot have a transaction while the other does, so `SigningInv` says: a converter
with a transaction holds the mutex of the files it has open (`TxnHoldsMutex`);
its transaction holds only keys that are not recorded (`PendIsNew`); while its
input is open these are exactly the keys of its output (`PendIsOut`); what is
about to be committed was handed over (`HandedIsDelivered`). The step proof goes
action by action; the actions that do not touch converters are covered by
`QuietKeeps`, those that end a converter by `EndKeeps`, those that drop a
transaction by `ClosedKeeps`. A second invariant, `JobsInv`, follows one job: each
record read so far was signed or noted as left out (`LogAccountedFor`), and a
status is set only at the end; no other copy writes those variables
(`OnlyOwnJob`). It gives `SavedMeansAllSigned`. `SuccessIsRecorded` is proved under
`~DbMayFail`: the code ignores the result of `mdb_txn_commit`, so it does not hold
without it. The other properties of `signing` are checked by TLC with a working
database only; that they hold with one that fails or is made again is what the
theorems say, from `SigningInv`, which `signing_db_fails` checks.
`Refinement` shows that `Signing` implements `UploadLedger`: signing a record is a
claim, ending a converter a drop, writing and uploading a delivery, the commit a
record (or a drop, if the database loses it), everything else a stutter.

`ConverterProofs`. A record takes several calls, so `ConverterInv` says what is
known of the record in hand between two of them (`Position`, `Accounted`), that the
numbers of certificates and stations are those of records emitted (`CertUids`,
`StationUids`, `Numbered`), that the station in use has the details of the location
until a record is refused for it (`Current`), and that the entry of a QSO is what was
signed for it last (`Entries`).
`StreamWellFormed` and `StationIsCurrent` are proved while fewer than `UidSpan`
station records were emitted: the code's counter wraps after 2^31, and a reference
is then ambiguous. `NoResign` compares a contact
with the one signed before it for the same QSO, not with every earlier one: the code
compares with the entry of the database alone, so station details that lose a field
and later gain another value are signed each time, as an update of the last.

`CertStoreProofs` proves types and `KeysKept` for any number of copies and crashes,
and the rest for `Copies = {p}`: two copies have a cache of
`certs/user` each and write the file from it, so none of `InstalledUsable`,
`BackupHasKey` and `CacheFresh` holds for two. The invariant `Orderly` says what
LoTW issues (`Issues`), that every file holds only what it issued (`Sources`), what a
clean-up still has to do (`Todo`), that no certificate is installed twice
(`UserUnique`) and that the key of each is listed except while the window is being
built again (`KeysListed`). Trying
to prove it showed that two CASE expressions of the model had alternatives that
overlap, which TLC takes in order and the language leaves open, and that
`UsableStaysUsable` was too strong: with three keys and four loads TLC finds a
certificate installed over the one in use, of which LoTW has said that it is
superseded, and a key file torn before. The property now names these losses
(`LossExplained`). Lists are filtered with `Only`, which the provers can expand and the
library's `SelectSeq` they cannot.

`RequestWizardProofs`. That the library takes the request depends on checks made
pages ago, and who signs it on `signIt`, which four pages write. `WizardInv` says
what each page may count on: after the page for the call sign the object holds what
that page checked (`Checked`: call, entity, dates, no overlap), after the names a
name, after the e-mail page an accepted address; a request without a certificate is
still to be signed if it can be (`CrqOK`); the page for the signature is never shown
in a renewal. `ShowKeeps` is the centre of the argument: a page whose data is ready
(`Ready`) is shown with its data in order (`OnPage`), although showing the page for
the call sign validates again and can rewrite the dates. `AcceptedIsSound` counts
days, so it rests on the calendar: `MonthsBefore` and `DeltaCounts` find what the
recursive functions of `julian_day` and of the loop of `tqsl_subtractDates` give
(`DayCount`, with the leap years in closed form), and `CompareIsOrder` that comparing
year, month and day compares those numbers. An entry without an end date is left
out of the property (see above). `SignatureAsSelected` follows from `Selected`: on
every page but that for the signature, the certificate of a new request is the selection
of the tree, since only that page changes either. Assumed beyond the plain ones: dates of entities
and of entries are in the calendar or empty (`EntityAssumption`, `StoreAssumption`;
those of `src/config.xml` are, and entries come from accepted requests).

`StationFilesProofs`. `FilesInv` says which write comes next (`Planned`), that a
location being moved is in the file it leaves until the other has it (`Carried`,
for `MovedKept`), that a deleted one is in the trash or in the write under way
(`Retained`, for `DeletedRetainedUnlessFailed`), and how many backups there are and
what the newest holds (`Stacked`, for `BackupHolds`); pruning keeps the newest ones.
`None` stands for no file and is assumed to be no list.

`LogEditorProofs`. What is saved is read again by a loop over fields, so `ReadBack`
follows the reader through a file of any length: the fields of a record, in the order
they are written, put its texts in place one by one (`RecordReads`), the fields that
are not known in any order (`ExtrasRead`), EOR delivers it, and
so on for the next (`ListReads`). Both folds are turned into chains of states, and that
no state of a chain is wrong is shown by the least one that would be. The dialog needs
`LogInv`. The record on display lives in four places, and the handlers copy them while
others still hold the record before, so it says when they agree: an old record that
nobody touched is mirrored by controls and working record (`Displays`, `Mirrors`), as
far as the choices offer its values. A record without a call sign that the file did not
have is the one on display (`BlankHere`), until the list was accessed outside its
bounds. A dialog that ended has written its list (`Ended`). The handlers are proved
from their parts (`WindowTakes`, `SetKeeps`, `EraseKeeps`, `RedisplayKeeps` and so on),
each of which keeps `DialogInv`. Proving `SavedReadsBack` showed that the model had
promised too much: texts had no length in it, and the property now says which ones come
back. Assumed: as in `src/config.xml`, the text of an entry with a submode is that
submode, and a mode that is written is mapped when it is read (`ModesAssumption`); the
empty text is short; the value of a choice without a selection is no satellite.

`CabrilloProofs`. The reader stops anywhere in a line, so `CabrilloInv` says how far
it is (`Place`), that the column of an unknown contest does not change once guessed
(`ColumnKept`), that the record in hand is the beginning of that line and whether its
date or time was refused (`HandKept`), and that the lines before were delivered or
complained about (`LinesKept`). After an error inside a line the complaint is the last
one and the element the reader stopped at is missing (`StoppedIsMissing`), so the next
call adds the second complaint and never gives a record. `LinesAccounted` is about the
lines below the CONTEST line, where the reader starts. For `RecordsAreLines` the column
the code uses is compared with the one that holds calls: they are the same unless a
six-character grid was in the line it was guessed from (`ColumnsAgree`).

`SelectionProofs`. The induction theorems of the library take an operator as a
parameter, which the provers cannot instantiate. Recursive functions are handled
through least elements instead: there is no least argument at which the function is
not defined, or has not the value claimed (`LeastExists`, `SelectsExists`). `OnlyLists`
and `OnlyRange` say what `Only` returns.

Only model-checked: liveness (`EveryJobEnds`, `ConversionEnds`), which needs
fairness and is out of the prover's reach; `ShownIsHeld`, `SavedFits`, `RoundTrip`
and `PickSticks` of `StationForm`, whose chain of pages is a RECURSIVE operator,
which leaves the provers without arithmetic and sets.
Three of the four are facts about the configuration as much as about the code.
`RoundTrip` leaves out zones that only a state's map has. TLC refutes `SavedFits`
when two entities with a page of their own share the text of a state, whose box
both use, and `PickSticks` when [None] is picked in a list of zones that the
filter then cuts to one, which is selected at once. A theorem would assume both
away; the instance keeps to configurations that have neither.

## Not modelled

The wxJSON library is third-party code. Help, preferences and layout are
presentation. Cryptography, LMDB, curl, wxWidgets and the LoTW server are external
and modelled by what the code sees of them. The BDB variant of the database is
built only where LMDB is not found. Not yet modelled: the update check and the
configuration download (a thread that posts events to the window), the import and
export of the whole duplicates database, certificates and preferences in a backup,
chains of authority, and the ADIF reader character by character.

## Plan

Done, in the order of what is at stake (a QSO lost, repeated or signed for the
wrong station; a key lost; a location or an edited log lost): `UploadLedger`,
`Signing`, `Converter`, `CertStore`, `RequestWizard`, `StationFiles`,
`StationForm`, `LogEditor`, `Cabrillo`, and the proofs above. What remains:

1. Proofs about `StationForm`, once the chain of its pages is written without a
   RECURSIVE operator.
2. Two copies over `CertStore`, where the cache is not fresh.
3. `AdifReader`: the automaton, with "an error never hides a record".
4. `UpdateCheck`: the thread and the window.
