-------------------------- MODULE CertStoreProofs ---------------------------
(***************************************************************************)
(* Proofs about module CertStore.                                          *)
(***************************************************************************)
EXTENDS CertStore, SelectionProofs, FiniteSetTheorems, TLAPS

-----------------------------------------------------------------------------
(* Key files.                                                               *)

Files   == {Null} \cup Seq(KeyRecs)
Phases  == {"idle", "build", "start", "cleanup", "deleting"}
Answers == {"Unknown", "Expired", "Superceded", "Unrevoked"}

\* An open key file has records; a file that is there is read as it is.
LEMMA ReadKeysType ==
  /\ \A f \in Files : ReadKeys(f) \in Seq(KeyRecs)
  /\ \A f \in Seq(KeyRecs) : ReadKeys(f) = f /\ f \in Files
BY NullAssumption DEF ReadKeys, Files

\* Marking a key, or taking its mark away, drops no record and touches no
\* other key.
LEMMA SetDeletedKeeps ==
  ASSUME NEW recs \in Seq(KeyRecs), NEW k, NEW d \in BOOLEAN
  PROVE  /\ SetDeleted(recs, k, d) \in Seq(KeyRecs)
         /\ \A x : KeyExists(recs, x) => KeyExists(SetDeleted(recs, k, d), x)
         /\ \A x : x # k /\ KeyListed(recs, x) => KeyListed(SetDeleted(recs, k, d), x)
         /\ ~d /\ KeyExists(recs, k) => KeyListed(SetDeleted(recs, k, d), k)
<1> DEFINE s == SetDeleted(recs, k, d)
<1>1. /\ s \in Seq(KeyRecs) /\ DOMAIN s = DOMAIN recs
      /\ \A i \in DOMAIN recs : /\ s[i].key = recs[i].key
                                /\ recs[i].key # k => s[i] = recs[i]
                                /\ recs[i].key = k => s[i].del = d
  <2>1. \A i \in DOMAIN recs : recs[i] \in KeyRecs
    OBVIOUS
  <2>2. /\ DOMAIN s = DOMAIN recs
        /\ \A i \in DOMAIN recs :
              s[i] = IF recs[i].key = k THEN [recs[i] EXCEPT !.del = d] ELSE recs[i]
    BY DEF SetDeleted
  <2>3. \A i \in DOMAIN recs : s[i] \in KeyRecs
    BY <2>1, <2>2 DEF KeyRecs
  <2>4. s \in Seq(KeyRecs)
    <3>1. Len(recs) \in Nat /\ DOMAIN recs = 1..Len(recs)
      OBVIOUS
    <3>2. s \in [1..Len(recs) -> KeyRecs]
      BY <2>3, <3>1 DEF SetDeleted
    <3> QED
      BY <3>1, <3>2
  <2> QED
    BY <2>1, <2>2, <2>4 DEF KeyRecs
<1> HIDE DEF s
<1>2. \A x : KeyExists(recs, x) => KeyExists(s, x)
  BY <1>1 DEF KeyExists
<1>3. \A x : x # k /\ KeyListed(recs, x) => KeyListed(s, x)
  BY <1>1 DEF KeyListed
<1>4. ~d /\ KeyExists(recs, k) => KeyListed(s, k)
  BY <1>1 DEF KeyExists, KeyListed
<1> QED
  BY <1>1, <1>2, <1>3, <1>4 DEF s

\* A record goes to the end of the file.
LEMMA AppendKeeps ==
  ASSUME NEW recs \in Seq(KeyRecs), NEW k \in Keys
  PROVE  LET s == Append(recs, [key |-> k, del |-> FALSE])
         IN  /\ s \in Seq(KeyRecs)
             /\ \A x : KeyExists(recs, x) => KeyExists(s, x)
             /\ \A x : KeyListed(recs, x) => KeyListed(s, x)
             /\ KeyListed(s, k)
<1> DEFINE r == [key |-> k, del |-> FALSE]
           s == Append(recs, r)
<1>1. r \in KeyRecs /\ r.key = k /\ ~r.del
  BY DEF KeyRecs
<1> HIDE DEF r
<1>2. /\ s \in Seq(KeyRecs) /\ Len(recs) + 1 \in DOMAIN s /\ s[Len(recs) + 1] = r
      /\ \A i \in DOMAIN recs : i \in DOMAIN s /\ s[i] = recs[i]
  BY <1>1
<1> HIDE DEF s
<1>3. \A x : KeyExists(recs, x) => KeyExists(s, x)
  BY <1>2 DEF KeyExists
<1>4. \A x : KeyListed(recs, x) => KeyListed(s, x)
  BY <1>2 DEF KeyListed
<1>5. KeyListed(s, k)
  BY <1>1, <1>2 DEF KeyListed
<1> QED
  BY <1>2, <1>3, <1>4, <1>5 DEF s, r

\* tqsl_replace_key drops no key, and lists the key it is given if it is
\* given its private part.
LEMMA ReplacedKeeps ==
  ASSUME NEW recs \in Seq(KeyRecs), NEW k \in Keys, NEW private \in BOOLEAN
  PROVE  /\ Replaced(recs, k, private) \in Seq(KeyRecs)
         /\ \A x : KeyExists(recs, x) => KeyExists(Replaced(recs, k, private), x)
         /\ \A x : x # k /\ KeyListed(recs, x) => KeyListed(Replaced(recs, k, private), x)
         /\ private => KeyListed(Replaced(recs, k, private), k)
<1> DEFINE m == SetDeleted(recs, k, TRUE)
<1>1. /\ m \in Seq(KeyRecs)
      /\ \A x : KeyExists(recs, x) => KeyExists(m, x)
      /\ \A x : x # k /\ KeyListed(recs, x) => KeyListed(m, x)
  BY SetDeletedKeeps
<1> HIDE DEF m
<1>2. Replaced(recs, k, private) =
        IF private THEN Append(m, [key |-> k, del |-> FALSE]) ELSE m
  BY DEF Replaced, m
<1> QED
  BY <1>1, <1>2, AppendKeeps

KeyTypes ==
    /\ keys \in [Calls -> Files] /\ save \in [Calls -> Files] /\ new \in [Calls -> Files]
    /\ torn \in [Calls -> {"no", "torn", "over"}]
    /\ made \in [Calls -> SUBSET Keys]

\* KeysKept for one call.
KeptFor(c) ==
    \A k \in made[c] :
        \/ torn[c] = "no" /\ KeyExists(ReadKeys(keys[c]), k)
        \/ torn[c] = "torn" /\ \E f \in {keys[c], save[c], new[c]} : KeyExists(ReadKeys(f), k)
        \/ torn[c] = "over"

LEMMA KeptForAll == KeysKept <=> \A c \in Calls : KeptFor(c)
BY DEF KeysKept, KeptFor

\* Every list of records of a key file that a step of the store computes has
\* the records of the file.
Extends(recs, c) ==
    recs \in Seq(KeyRecs) /\ \A k : KeyExists(ReadKeys(keys[c]), k) => KeyExists(recs, k)

\* The files of one call alone are written.
OnlyCall(c) ==
    \A d \in Calls \ {c} :
        /\ keys'[d] = keys[d] /\ save'[d] = save[d] /\ new'[d] = new[d]
        /\ torn'[d] = torn[d] /\ made'[d] = made[d]

\* A step that writes the files of one call keeps every key if it keeps those
\* of that call.
LEMMA OneCallKeeps ==
  ASSUME KeysKept, NEW c \in Calls, OnlyCall(c), KeptFor(c)'
  PROVE  KeysKept'
<1> SUFFICES ASSUME NEW d \in Calls PROVE KeptFor(d)'
  BY DEF KeysKept, KeptFor
<1>1. CASE d = c
  BY <1>1
<1>2. CASE d # c
  BY <1>2 DEF KeysKept, KeptFor, OnlyCall
<1> QED
  BY <1>1, <1>2

\* A call that has no key file, and none torn, has no key.
LEMMA NoFileNoKey ==
  ASSUME KeysKept, NEW c \in Calls, torn[c] = "no", keys[c] = Null
  PROVE  made[c] = {}
BY DEF KeysKept, KeyExists, ReadKeys

\* The end of tqsl_replace_key and tqsl_clear_deleted, complete or torn
\* between the two renames, loses no key of the file.
LEMMA SwapKeeps ==
  ASSUME KeyTypes, KeysKept, NEW c \in Calls, NEW recs, Extends(recs, c),
         NEW end \in Ends, Swap(c, recs, end)
  PROVE  KeyTypes' /\ OnlyCall(c) /\ KeysKept'
<1>1. recs \in Files /\ ReadKeys(recs) = recs
  BY ReadKeysType DEF Extends
<1>2. Null \in Files
  BY DEF Files
<1>3. /\ keys' = [keys EXCEPT ![c] = IF end = "keysTorn" THEN Null ELSE recs]
      /\ save' = [save EXCEPT ![c] = keys[c]]
      /\ new'  = [new EXCEPT ![c] = IF end = "keysTorn" THEN recs ELSE Null]
      /\ made' = made
  BY DEF Swap
<1>4. /\ torn' \in [Calls -> {"no", "torn", "over"}]
      /\ \A d \in Calls \ {c} : torn'[d] = torn[d]
      /\ torn[c] # "no" => torn'[c] = "over"
      /\ torn[c] = "no" /\ end = "keysTorn" /\ keys[c] # Null => torn'[c] = "torn"
      /\ torn[c] = "no" /\ ~(end = "keysTorn" /\ keys[c] # Null) => torn'[c] = "no"
  <2>1. torn' = [torn EXCEPT ![c] = CASE torn[c] = "torn" -> "over"
                                      [] torn[c] = "no" /\ end = "keysTorn" /\ keys[c] # Null -> "torn"
                                      [] OTHER -> torn[c]]
    BY DEF Swap
  <2>2. torn[c] \in {"no", "torn", "over"} /\ torn \in [Calls -> {"no", "torn", "over"}]
    BY DEF KeyTypes
  <2>3. CASE torn[c] = "torn"
    BY <2>1, <2>2, <2>3
  <2>4. CASE torn[c] = "no"
    BY <2>1, <2>2, <2>4
  <2>5. CASE torn[c] = "over"
    BY <2>1, <2>2, <2>5
  <2> QED
    BY <2>2, <2>3, <2>4, <2>5
<1>5. KeyTypes'
  BY <1>1, <1>2, <1>3, <1>4 DEF KeyTypes
<1>6. OnlyCall(c)
  BY <1>3, <1>4 DEF OnlyCall
<1>7. KeptFor(c)'
  <2> SUFFICES ASSUME NEW k \in made[c], torn[c] = "no"
               PROVE  \/ torn'[c] = "no" /\ KeyExists(ReadKeys(keys'[c]), k)
                      \/ torn'[c] = "torn" /\ \E f \in {keys'[c], save'[c], new'[c]} :
                                                  KeyExists(ReadKeys(f), k)
    BY <1>3, <1>4 DEF KeptFor, KeyTypes
  <2>1. KeyExists(ReadKeys(keys[c]), k)
    BY DEF KeysKept
  <2>2. keys[c] # Null
    BY <2>1, NoFileNoKey
  <2>3. CASE end = "keysTorn"
    <3>1. save'[c] = keys[c] /\ torn'[c] = "torn"
      BY <1>3, <1>4, <2>2, <2>3 DEF KeyTypes
    <3> QED
      BY <2>1, <3>1
  <2>4. CASE end # "keysTorn"
    <3>1. keys'[c] = recs /\ torn'[c] = "no"
      BY <1>3, <1>4, <2>4 DEF KeyTypes
    <3>2. KeyExists(recs, k)
      BY <2>1 DEF Extends
    <3> QED
      BY <1>1, <3>1, <3>2
  <2> QED
    BY <2>3, <2>4
<1> QED
  BY <1>5, <1>6, <1>7, OneCallKeeps

\* tqsl_createCertRequest: the file gets one more record, and .save and .new
\* are left alone.
LEMMA RewriteInPlaceKeeps ==
  ASSUME KeyTypes, KeysKept, NEW c \in Calls, NEW recs, Extends(recs, c),
         NEW K \in SUBSET Keys, \A k \in K : KeyExists(recs, k),
         keys' = [keys EXCEPT ![c] = recs], made' = [made EXCEPT ![c] = @ \cup K],
         UNCHANGED <<save, new, torn>>
  PROVE  KeyTypes' /\ OnlyCall(c) /\ KeysKept'
<1>1. recs \in Files /\ ReadKeys(recs) = recs
  BY ReadKeysType DEF Extends
<1>2. KeyTypes'
  BY <1>1 DEF KeyTypes
<1>3. OnlyCall(c)
  BY DEF OnlyCall, KeyTypes
<1>4. keys'[c] = recs /\ made'[c] = made[c] \cup K
  BY DEF KeyTypes
<1>5. KeptFor(c)'
  <2> SUFFICES ASSUME NEW k \in made[c] \cup K, torn[c] # "over"
               PROVE  \/ torn[c] = "no" /\ KeyExists(ReadKeys(keys'[c]), k)
                      \/ torn[c] = "torn" /\ \E f \in {keys'[c], save[c], new[c]} :
                                                 KeyExists(ReadKeys(f), k)
    BY <1>4 DEF KeptFor
  <2>1. CASE KeyExists(recs, k)
    BY <1>1, <1>4, <2>1 DEF KeyTypes
  <2>2. CASE ~KeyExists(recs, k)
    <3>1. k \in made[c] /\ ~KeyExists(ReadKeys(keys[c]), k)
      BY <2>2 DEF Extends
    <3> QED
      BY <3>1 DEF KeysKept
  <2> QED
    BY <2>1, <2>2
<1> QED
  BY <1>2, <1>3, <1>5, OneCallKeeps

\* A complete rewrite after which new keys may count as made.
LEMMA RewriteKeeps ==
  ASSUME KeyTypes, KeysKept, NEW c \in Calls, NEW recs, Extends(recs, c),
         NEW K \in SUBSET Keys, \A k \in K : KeyExists(recs, k), NEW s \in Files,
         keys' = [keys EXCEPT ![c] = recs], made' = [made EXCEPT ![c] = @ \cup K],
         save' = [save EXCEPT ![c] = s], new' = [new EXCEPT ![c] = Null],
         torn' = [torn EXCEPT ![c] = IF @ = "torn" THEN "over" ELSE @]
  PROVE  KeyTypes' /\ OnlyCall(c) /\ KeysKept'
<1>1. recs \in Files /\ ReadKeys(recs) = recs /\ Null \in Files
  BY ReadKeysType DEF Extends, Files
<1>2. KeyTypes'
  BY <1>1 DEF KeyTypes
<1>3. OnlyCall(c)
  BY DEF OnlyCall, KeyTypes
<1>4. /\ keys'[c] = recs /\ made'[c] = made[c] \cup K
      /\ torn[c] = "no" => torn'[c] = "no"
      /\ torn[c] # "no" => torn'[c] = "over"
  BY DEF KeyTypes
<1>5. KeptFor(c)'
  <2> SUFFICES ASSUME NEW k \in made[c] \cup K, torn[c] = "no"
               PROVE  KeyExists(ReadKeys(keys'[c]), k)
    BY <1>4 DEF KeptFor
  <2>1. KeyExists(recs, k)
    BY DEF KeysKept, Extends
  <2> QED
    BY <1>1, <1>4, <2>1
<1> QED
  BY <1>2, <1>3, <1>5, OneCallKeeps

-----------------------------------------------------------------------------
(* Lists of certificates.                                                   *)

ListTypes ==
    /\ user \in Seq(Entries)
    /\ xcerts \in [Copies -> {Null} \cup Seq(Entries)]
    /\ trash \in [Calls -> {Null} \cup Backups]
    /\ containers \subseteq Entries

\* The certificates a copy sees are a list of certificates.
LEMMA LoadedType ==
  ASSUME ListTypes, NEW p \in Copies
  PROVE  Loaded(p) \in Seq(Entries)
BY DEF ListTypes, Loaded

\* ForCall picks the certificates of the call, each once.
LEMMA ForCallLists ==
  ASSUME NEW certs \in Seq(Entries), NEW c
  PROVE  /\ ForCall(certs, c) \in Seq(Entries)
         /\ Range(ForCall(certs, c)) = {e \in Range(certs) : e.call = c}
         /\ Lists(ForCall(certs, c), certs, {i \in DOMAIN certs : certs[i].call = c})
<1> DEFINE T == {i \in DOMAIN certs : certs[i].call = c}
<1>1. /\ Only(certs, T) \in Seq(Entries)
      /\ Range(Only(certs, T)) = {certs[i] : i \in T}
      /\ Lists(Only(certs, T), certs, T)
  BY OnlyRange, OnlyLists
<1>2. {certs[i] : i \in T} = {e \in Range(certs) : e.call = c}
  BY DEF Range
<1> QED
  BY <1>1, <1>2 DEF ForCall

\* What stays when e is deleted has another serial number, and nothing else
\* goes.
LEMMA OthersLists ==
  ASSUME NEW certs \in Seq(Entries), NEW e
  PROVE  /\ Others(certs, e) \in Seq(Entries)
         /\ Range(Others(certs, e)) = {x \in Range(certs) : x.serial # e.serial}
         /\ Lists(Others(certs, e), certs, {i \in DOMAIN certs : certs[i].serial # e.serial})
<1> DEFINE T == {i \in DOMAIN certs : certs[i].serial # e.serial}
<1>1. /\ Only(certs, T) \in Seq(Entries)
      /\ Range(Only(certs, T)) = {certs[i] : i \in T}
      /\ Lists(Only(certs, T), certs, T)
  BY OnlyRange, OnlyLists
<1>2. {certs[i] : i \in T} = {x \in Range(certs) : x.serial # e.serial}
  BY DEF Range
<1> QED
  BY <1>1, <1>2 DEF Others

\* An entry that is only a key: its call is c, it has no serial number and no
\* certificate the copy sees has its key.
Request0(p, c, t) ==
    /\ t \in Entries /\ t.call = c /\ t.serial = 0
    /\ \A e \in Range(Loaded(p)) : e.key # t.key

LEMMA KeyOnlyLists ==
  ASSUME ListTypes, NEW p \in Copies, NEW c \in Calls, NEW recs \in Seq(KeyRecs)
  PROVE  /\ KeyOnly(p, c, recs) \in Seq(Entries)
         /\ \A t \in Range(KeyOnly(p, c, recs)) : Request0(p, c, t)
<1> DEFINE T == {n \in DOMAIN recs :
                   /\ ~recs[n].del
                   /\ \A i \in DOMAIN Loaded(p) : Loaded(p)[i].key # recs[n].key}
           free == Only(recs, T)
           list == [i \in DOMAIN free |->
                      [call |-> c, key |-> free[i].key, serial |-> 0, repl |-> 0]]
<1>1. free \in Seq(KeyRecs) /\ Range(free) = {recs[n] : n \in T}
  BY OnlyRange
<1>2. \A i \in DOMAIN free : \E n \in T : free[i] = recs[n]
  BY <1>1 DEF Range
<1>3. KeyOnly(p, c, recs) = list
  BY DEF KeyOnly
<1> HIDE DEF free
<1>4. \A i \in DOMAIN free : free[i] \in KeyRecs
  BY <1>1
<1>5. \A i \in DOMAIN free : list[i] \in Entries
  BY <1>4 DEF Entries, KeyRecs
<1>6. Len(free) \in Nat /\ DOMAIN free = 1..Len(free)
  BY <1>1
<1>7. list \in [1..Len(free) -> Entries]
  BY <1>5, <1>6
<1>8. list \in Seq(Entries)
  BY <1>6, <1>7
<1>9. \A i \in DOMAIN free : \A j \in DOMAIN Loaded(p) : Loaded(p)[j].key # free[i].key
  BY <1>2
<1>10. \A i \in DOMAIN free : Request0(p, c, list[i])
  BY <1>5, <1>9 DEF Request0, Range
<1>11. \A t \in Range(list) : Request0(p, c, t)
  BY <1>10 DEF Range
<1> QED
  BY <1>3, <1>8, <1>11

\* tqsl_selectCertificates returns certificates the copy sees and requests.
LEMMA SelectLists ==
  ASSUME KeyTypes, ListTypes, NEW p \in Copies, NEW c \in Calls
  PROVE  /\ SelectCertificates(p, c) \in Seq(Entries)
         /\ \A t \in Range(SelectCertificates(p, c)) :
               (t \in Range(Loaded(p)) /\ t.call = c) \/ Request0(p, c, t)
<1> DEFINE a == ForCall(Loaded(p), c)
           b == KeyOnly(p, c, ReadKeys(keys[c]))
<1>1. a \in Seq(Entries) /\ Range(a) = {e \in Range(Loaded(p)) : e.call = c}
  BY LoadedType, ForCallLists
<1>2. ReadKeys(keys[c]) \in Seq(KeyRecs)
  BY ReadKeysType DEF KeyTypes
<1>3. b \in Seq(Entries) /\ \A t \in Range(b) : Request0(p, c, t)
  BY <1>2, KeyOnlyLists
<1>4. SelectCertificates(p, c) = a \o b
  BY DEF SelectCertificates
<1> HIDE DEF a, b
<1>5. a \o b \in Seq(Entries) /\ Range(a \o b) \subseteq Range(a) \cup Range(b)
  BY <1>1, <1>3 DEF Range
<1> QED
  BY <1>1, <1>3, <1>4, <1>5

\* The entries of the list of certificates.
LEMMA ListedEntries ==
  ASSUME KeyTypes, ListTypes, NEW p \in Copies, NEW t \in Listed(p)
  PROVE  /\ t \in Entries /\ t.call \in Calls
         /\ t \in Range(Loaded(p)) \/ Request0(p, t.call, t)
<1>1. PICK c \in Calls : t \in Range(SelectCertificates(p, c))
  BY DEF Listed
<1>2. SelectCertificates(p, c) \in Seq(Entries)
  BY SelectLists
<1>3. t \in Entries
  BY <1>1, <1>2 DEF Range
<1>4. (t \in Range(Loaded(p)) /\ t.call = c) \/ Request0(p, c, t)
  BY <1>1, SelectLists
<1> QED
  BY <1>3, <1>4 DEF Request0, Entries

-----------------------------------------------------------------------------
(* Types, and the keys of every call.                                       *)

\* What a copy still has to do.
Works ==
    {w \in [phase : Phases, call : Calls \cup {Null}, serial : Nat, todo : Seq(Entries)] :
        /\ w.phase = "cleanup" => w.call \in Calls
        /\ w.phase = "deleting" => w.todo # << >>}

WorkTypes == work \in [Copies -> Works]

LotwTypes ==
    /\ requests \subseteq Entries /\ issued \subseteq Entries /\ IsFiniteSet(issued)
    /\ expired \subseteq Nat
    /\ status \in [Keys -> Answers]

Types == KeyTypes /\ ListTypes /\ WorkTypes /\ LotwTypes

Sound == Types /\ KeysKept

LEMMA WorkValues ==
  /\ Idle \in Works /\ Build \in Works /\ Start \in Works
  /\ \A c \in Calls, s \in Nat : Cleanup(c, s) \in Works
<1>1. << >> \in Seq(Entries)
  OBVIOUS
<1> QED
  BY <1>1 DEF Idle, Build, Start, Cleanup, Works, Phases

\* Taking the head off the clean-up's list.
LEMMA RestWorks ==
  ASSUME WorkTypes, NEW p \in Copies, work[p].phase = "deleting"
  PROVE  Rest(p) \in Works
<1>1. PICK w \in Works : w = work[p] /\ w.phase = "deleting"
  BY DEF WorkTypes
<1>2. w.todo \in Seq(Entries) /\ w.todo # << >>
  BY <1>1 DEF Works
<1>3. PICK t \in Seq(Entries) : t = Tail(w.todo)
  <2>1. PICK q \in Seq(Entries) : q = w.todo /\ q # << >>
    BY <1>2
  <2>2. Tail(q) \in Seq(Entries)
    BY <2>1
  <2> QED
    BY <2>1, <2>2
<1>4. CASE t = << >>
  BY <1>1, <1>3, <1>4, WorkValues DEF Rest
<1>5. CASE t # << >>
  <2>1. Rest(p) = [w EXCEPT !.todo = t]
    BY <1>1, <1>3, <1>5 DEF Rest
  <2>2. PICK v : v = [w EXCEPT !.todo = t]
    OBVIOUS
  <2>3. w \in [phase : Phases, call : Calls \cup {Null}, serial : Nat, todo : Seq(Entries)]
    BY DEF Works
  <2>4. /\ v \in [phase : Phases, call : Calls \cup {Null}, serial : Nat, todo : Seq(Entries)]
        /\ v.phase = "deleting" /\ v.todo = t
    BY <1>1, <2>2, <2>3
  <2>5. v \in Works
    BY <1>5, <2>4 DEF Works
  <2> QED
    BY <2>1, <2>2, <2>5
<1> QED
  BY <1>4, <1>5

\* Whatever a copy does with its cache, it stays empty or a list.
LEMMA CacheTypes ==
  ASSUME ListTypes, NEW p \in Copies, xcerts' \in {xcerts, Cached(p), Freed(p)}
  PROVE  xcerts' \in [Copies -> {Null} \cup Seq(Entries)]
BY LoadedType DEF ListTypes, Cached, Freed

\* tqsl_store_cert stores entries.
LEMMA StoreCertTypes ==
  ASSUME ListTypes, NEW p \in Copies, NEW e \in Entries, NEW o, StoreCert(p, e, o)
  PROVE  /\ user' \in Seq(Entries)
         /\ xcerts' \in [Copies -> {Null} \cup Seq(Entries)]
<1>1. xcerts' = Freed(p)
  BY DEF StoreCert
<1>2. user \in Seq(Entries) /\ Append(user, e) \in Seq(Entries)
  BY DEF ListTypes
<1> QED
  BY <1>1, <1>2, CacheTypes DEF StoreCert

\* The file that tqsl_replace_key writes has every record of the old one.
LEMMA ReplacedExtends ==
  ASSUME KeyTypes, NEW c \in Calls, NEW k \in Keys, NEW private \in BOOLEAN
  PROVE  Extends(Replaced(ReadKeys(keys[c]), k, private), c)
<1>1. PICK recs \in Seq(KeyRecs) : recs = ReadKeys(keys[c])
  BY ReadKeysType DEF KeyTypes
<1> QED
  BY <1>1, ReplacedKeeps DEF Extends

\* Deleting a certificate or a request.
LEMMA DeleteTypes ==
  ASSUME KeyTypes, KeysKept, ListTypes, NEW p \in Copies, NEW e \in Entries,
         NEW end \in Ends, DeleteCertificate(p, e, end)
  PROVE  /\ KeyTypes' /\ OnlyCall(e.call) /\ KeysKept'
         /\ user' \in Seq(Entries)
         /\ xcerts' \in [Copies -> {Null} \cup Seq(Entries)]
         /\ trash' \in [Calls -> {Null} \cup Backups]
<1>1. e.call \in Calls /\ e.key \in Keys
  BY DEF Entries
<1>2. PICK recs : recs = Replaced(ReadKeys(keys[e.call]), e.key, FALSE)
  OBVIOUS
<1>3. Extends(recs, e.call) /\ Swap(e.call, recs, end)
  BY <1>1, <1>2, ReplacedExtends DEF DeleteCertificate
<1>4. KeyTypes' /\ OnlyCall(e.call) /\ KeysKept'
  BY <1>1, <1>3, SwapKeeps
<1>5. user' \in Seq(Entries)
  <2>1. Others(Loaded(p), e) \in Seq(Entries)
    BY LoadedType, OthersLists
  <2>2. user' \in {user, Others(Loaded(p), e), << >>}
    BY DEF DeleteCertificate
  <2>3. << >> \in Seq(Entries) /\ user \in Seq(Entries)
    BY DEF ListTypes
  <2> QED
    BY <2>1, <2>2, <2>3
<1>6. xcerts' \in [Copies -> {Null} \cup Seq(Entries)]
  BY CacheTypes DEF DeleteCertificate
<1>7. trash' \in [Calls -> {Null} \cup Backups]
  <2>1. [entry |-> e, key |-> IF KeyEncoded(e) THEN e.key ELSE 0] \in Backups
    BY <1>1 DEF Backups
  <2> QED
    BY <1>1, <2>1 DEF DeleteCertificate, BackupCert, ListTypes
<1> QED
  BY <1>4, <1>5, <1>6, <1>7

\* Looking for a key.
LEMMA FindTypes ==
  ASSUME KeyTypes, KeysKept, NEW c \in Calls, NEW k, NEW end \in Ends,
         FindMatchingKey(c, k, end)
  PROVE  KeyTypes' /\ OnlyCall(c) /\ KeysKept'
<1>1. CASE MustUndelete(c, k)
  <2>1. PICK old \in Seq(KeyRecs) : old = ReadKeys(keys[c])
    BY ReadKeysType DEF KeyTypes
  <2>2. PICK recs : recs = Undeleted(old, k)
    OBVIOUS
  <2>3. Extends(recs, c)
    BY <2>1, <2>2, SetDeletedKeeps DEF Extends, Undeleted
  <2>4. Swap(c, recs, end)
    BY <1>1, <2>1, <2>2 DEF FindMatchingKey
  <2> QED
    BY <2>3, <2>4, SwapKeeps
<1>2. CASE ~MustUndelete(c, k)
  <2>1. UNCHANGED keyVars
    BY <1>2 DEF FindMatchingKey
  <2> QED
    BY <2>1 DEF keyVars, KeyTypes, OnlyCall, KeysKept
<1> QED
  BY <1>1, <1>2

\* The next key is new.
LEMMA NewKeyExtends ==
  ASSUME KeyTypes, NEW c \in Calls, NextKey \in Keys
  PROVE  Extends(NewKeyFile(c), c) /\ KeyExists(NewKeyFile(c), NextKey)
<1>1. PICK k \in Keys : k = NextKey
  OBVIOUS
<1>2. PICK recs \in Seq(KeyRecs) : recs = ReadKeys(keys[c])
  BY ReadKeysType DEF KeyTypes
<1>3. PICK s : s = Append(recs, [key |-> k, del |-> FALSE])
  OBVIOUS
<1>4. s \in Seq(KeyRecs) /\ (\A x : KeyExists(recs, x) => KeyExists(s, x)) /\ KeyListed(s, k)
  BY <1>3, AppendKeeps
<1>5. NewKeyFile(c) = s
  BY <1>1, <1>2, <1>3 DEF NewKeyFile
<1>6. Extends(s, c) /\ KeyExists(s, k)
  BY <1>2, <1>4 DEF Extends, KeyListed, KeyExists
<1> QED
  BY <1>1, <1>5, <1>6

\* deleteRequest, called on a file that may have got new keys.
LEMMA DeleteRequestTypes ==
  ASSUME KeyTypes, KeysKept, ListTypes, NEW p \in Copies, NEW c \in Calls, NEW recs,
         Extends(recs, c), NEW K \in SUBSET Keys, \A k \in K : KeyExists(recs, k),
         made' = [made EXCEPT ![c] = @ \cup K], DeleteRequest(p, c, recs)
  PROVE  /\ KeyTypes' /\ OnlyCall(c) /\ KeysKept'
         /\ xcerts' \in [Copies -> {Null} \cup Seq(Entries)]
         /\ trash' \in [Calls -> {Null} \cup Backups]
<1> DEFINE list == KeyOnly(p, c, recs)
<1>0. recs \in Seq(KeyRecs) /\ list \in Seq(Entries)
  BY KeyOnlyLists DEF Extends
<1>1. xcerts' \in [Copies -> {Null} \cup Seq(Entries)]
  BY CacheTypes DEF DeleteRequest
<1>2. CASE list = << >>
  <2>1. keys' = [keys EXCEPT ![c] = recs] /\ UNCHANGED <<save, new, torn, trash>>
    BY <1>2 DEF DeleteRequest
  <2>2. KeyTypes' /\ OnlyCall(c) /\ KeysKept'
    BY <2>1, RewriteInPlaceKeeps
  <2> QED
    BY <1>1, <2>1, <2>2 DEF ListTypes
<1>3. CASE list # << >>
  <2>1. PICK e \in Entries : e = Head(list)
    BY <1>0, <1>3
  <2>2. PICK s : s = Replaced(recs, e.key, FALSE)
    OBVIOUS
  <2>3. e.key \in Keys
    BY DEF Entries
  <2>4. s \in Seq(KeyRecs) /\ \A x : KeyExists(recs, x) => KeyExists(s, x)
    BY <1>0, <2>2, <2>3, ReplacedKeeps
  <2>5. Extends(s, c) /\ \A k \in K : KeyExists(s, k)
    BY <2>4 DEF Extends
  <2>6. recs \in Files
    BY <1>0 DEF Files
  <2>7. /\ keys' = [keys EXCEPT ![c] = s]
        /\ save' = [save EXCEPT ![c] = recs]
        /\ new'  = [new EXCEPT ![c] = Null]
        /\ torn' = [torn EXCEPT ![c] = IF @ = "torn" THEN "over" ELSE @]
        /\ trash' = [trash EXCEPT ![c] = [entry |-> e, key |-> e.key]]
    BY <1>3, <2>1, <2>2 DEF DeleteRequest
  <2>8. KeyTypes' /\ OnlyCall(c) /\ KeysKept'
    BY <2>5, <2>6, <2>7, RewriteKeeps
  <2>9. [entry |-> e, key |-> e.key] \in Backups
    BY <2>3 DEF Backups
  <2>10. trash' \in [Calls -> {Null} \cup Backups]
    BY <2>7, <2>9 DEF ListTypes
  <2> QED
    BY <1>1, <2>8, <2>10
<1> QED
  BY <1>2, <1>3

\* Every step keeps every type and every key.
LEMMA SoundStep == Sound /\ [Next]_vars => Sound'
<1> SUFFICES ASSUME Sound, [Next]_vars PROVE Sound'
  OBVIOUS
<1>0. KeyTypes /\ KeysKept /\ ListTypes /\ WorkTypes /\ LotwTypes
  BY DEF Sound, Types
<1>a. Idle \in Works /\ Build \in Works /\ Start \in Works
  BY WorkValues
<1>b. "done" \in Ends
  BY DEF Ends
<1>1. CASE UNCHANGED vars
  BY <1>0, <1>1 DEF Sound, Types, KeyTypes, KeysKept, ListTypes, WorkTypes, LotwTypes, vars,
    keyVars, userVars, lotwVars
<1>2. ASSUME NEW r \in requests, Issue(r) PROVE Sound'
  <2>1. UNCHANGED <<keyVars, userVars, trash, xcerts, work, containers, requests, expired, status>>
    BY <1>2 DEF Issue
  <2>2. r \in Entries /\ Cardinality(issued) \in Nat
    BY <1>0, FS_CardinalityType DEF LotwTypes
  <2>3. PICK n \in Nat : n = 1 + Cardinality(issued)
    BY <2>2
  <2>4. [r EXCEPT !.serial = n] \in Entries
    BY <2>2 DEF Entries
  <2>5. issued' = issued \cup {[r EXCEPT !.serial = n]}
    BY <1>2, <2>3 DEF Issue
  <2>6. IsFiniteSet(issued')
    BY <1>0, <2>5, FS_AddElement DEF LotwTypes
  <2>7. LotwTypes'
    BY <1>0, <2>1, <2>4, <2>5, <2>6 DEF LotwTypes
  <2> QED
    BY <1>0, <2>1, <2>7 DEF Sound, Types, KeyTypes, KeysKept, ListTypes, WorkTypes, keyVars, userVars
<1>3. ASSUME NEW s \in Keys, Expire(s) PROVE Sound'
  <2>1. s \in Nat
    BY KeysAssumption DEF Keys
  <2> QED
    BY <1>0, <1>3, <2>1 DEF Expire, Sound, Types, KeyTypes, KeysKept, ListTypes, WorkTypes,
      LotwTypes, keyVars, userVars
<1>4. ASSUME NEW p \in Copies, Request(p) PROVE Sound'
  <2>1. PICK c \in Calls, repl \in Serials :
           \/ RequestSent(p, c, repl)
           \/ RequestAbandoned(p, c, repl)
           \/ \E unread \in BOOLEAN : RequestUploadFails(p, c, repl, unread)
    BY <1>4 DEF Request
  <2>2. repl \in Nat
    BY KeysAssumption DEF Serials
  <2>3. CASE RequestSent(p, c, repl)
    <3>1. PICK k \in Keys : k = NextKey
      BY <2>3 DEF RequestSent
    <3>2. PICK recs : recs = NewKeyFile(c)
      OBVIOUS
    <3>3. Extends(recs, c) /\ \A x \in {k} : KeyExists(recs, x)
      BY <1>0, <3>1, <3>2, NewKeyExtends
    <3>4. /\ keys' = [keys EXCEPT ![c] = recs] /\ made' = [made EXCEPT ![c] = @ \cup {k}]
          /\ UNCHANGED <<save, new, torn>>
      BY <2>3, <3>1, <3>2 DEF RequestSent
    <3>5. KeyTypes' /\ KeysKept'
      <4>1. PICK K \in SUBSET Keys : K = {k}
        OBVIOUS
      <4>2. made' = [made EXCEPT ![c] = @ \cup K] /\ \A x \in K : KeyExists(recs, x)
        BY <3>3, <3>4, <4>1
      <4> QED
        BY <1>0, <3>3, <3>4, <4>2, RewriteInPlaceKeeps
    <3>6. /\ requests' = requests \cup {[call |-> c, key |-> k, serial |-> 0, repl |-> repl]}
          /\ xcerts' = Cached(p) /\ work' = [work EXCEPT ![p] = Build]
          /\ UNCHANGED <<userVars, trash, status, containers, issued, expired>>
      BY <2>3, <3>1 DEF RequestSent
    <3>7. [call |-> c, key |-> k, serial |-> 0, repl |-> repl] \in Entries
      BY <2>2 DEF Entries
    <3>8. ListTypes'
      BY <1>0, <3>6, CacheTypes DEF ListTypes, userVars
    <3>9. WorkTypes' /\ LotwTypes'
      BY <1>0, <1>a, <3>6, <3>7 DEF WorkTypes, LotwTypes
    <3> QED
      BY <3>5, <3>8, <3>9 DEF Sound, Types
  <2>4. CASE RequestAbandoned(p, c, repl)
    <3>1. PICK recs : recs = ReadKeys(keys[c])
      OBVIOUS
    <3>2. Extends(recs, c)
      BY <1>0, <3>1, ReadKeysType DEF Extends, KeyTypes
    <3>3. made' = [made EXCEPT ![c] = @ \cup {}]
      BY <1>0, <2>4 DEF RequestAbandoned, KeyTypes
    <3>4. DeleteRequest(p, c, recs)
      BY <2>4, <3>1 DEF RequestAbandoned
    <3>5. /\ KeyTypes' /\ KeysKept'
          /\ xcerts' \in [Copies -> {Null} \cup Seq(Entries)]
          /\ trash' \in [Calls -> {Null} \cup Backups]
      <4>1. PICK K \in SUBSET Keys : K = {}
        OBVIOUS
      <4>2. made' = [made EXCEPT ![c] = @ \cup K] /\ \A x \in K : KeyExists(recs, x)
        BY <3>3, <4>1
      <4> QED
        BY <1>0, <3>2, <3>4, <4>2, DeleteRequestTypes
    <3>6. UNCHANGED <<userVars, status, work, containers, lotwVars>>
      BY <2>4 DEF RequestAbandoned
    <3> QED
      BY <1>0, <3>5, <3>6 DEF Sound, Types, ListTypes, WorkTypes, LotwTypes, userVars, lotwVars
  <2>5. ASSUME NEW unread \in BOOLEAN, RequestUploadFails(p, c, repl, unread) PROVE Sound'
    <3>1. PICK k \in Keys : k = NextKey
      BY <2>5 DEF RequestUploadFails
    <3>2. PICK recs : recs = NewKeyFile(c)
      OBVIOUS
    <3>3. Extends(recs, c) /\ \A x \in {k} : KeyExists(recs, x)
      BY <1>0, <3>1, <3>2, NewKeyExtends
    <3>4. DeleteRequest(p, c, recs) /\ made' = [made EXCEPT ![c] = @ \cup {k}]
      BY <2>5, <3>1, <3>2 DEF RequestUploadFails
    <3>5. /\ KeyTypes' /\ KeysKept'
          /\ xcerts' \in [Copies -> {Null} \cup Seq(Entries)]
          /\ trash' \in [Calls -> {Null} \cup Backups]
      <4>1. PICK K \in SUBSET Keys : K = {k}
        OBVIOUS
      <4>2. made' = [made EXCEPT ![c] = @ \cup K] /\ \A x \in K : KeyExists(recs, x)
        BY <3>3, <3>4, <4>1
      <4> QED
        BY <1>0, <3>3, <3>4, <4>2, DeleteRequestTypes
    <3>6. UNCHANGED <<userVars, status, containers, lotwVars>> /\ work' = [work EXCEPT ![p] = Build]
      BY <2>5 DEF RequestUploadFails
    <3> QED
      BY <1>0, <1>a, <3>5, <3>6 DEF Sound, Types, ListTypes, WorkTypes, LotwTypes, userVars, lotwVars
  <2> QED
    BY <2>1, <2>3, <2>4, <2>5
<1>5. ASSUME NEW p \in Copies, Load(p) PROVE Sound'
  <2>1. ASSUME NEW e \in issued, NEW end \in {"done", "keysTorn"}, LoadTQ6(p, e, end)
        PROVE  Sound'
    <3>1. e \in Entries /\ end \in Ends
      BY <1>0 DEF LotwTypes, Ends
    <3>2. e.call \in Calls /\ e.serial \in Nat
      BY <3>1 DEF Entries
    <3>3. FindMatchingKey(e.call, e.key, end)
      BY <2>1 DEF LoadTQ6, ImportTQSLFile, HandleUserCert
    <3>4. KeyTypes' /\ KeysKept'
      BY <1>0, <3>1, <3>2, <3>3, FindTypes
    <3>5. user' \in Seq(Entries) /\ xcerts' \in [Copies -> {Null} \cup Seq(Entries)]
      <4>1. PICK o : o = StoreOutcome(e, FALSE)
        OBVIOUS
      <4>2. \/ StoreCert(p, e, o)
            \/ xcerts' \in {xcerts, Freed(p)} /\ UNCHANGED userVars
        BY <2>1, <4>1 DEF LoadTQ6, ImportTQSLFile, HandleUserCert
      <4> QED
        BY <1>0, <3>1, <4>2, StoreCertTypes, CacheTypes DEF ListTypes, userVars
    <3>6. AfterImport(e) \in Works
      BY <1>a, <3>2, WorkValues DEF AfterImport
    <3>7. WorkTypes'
      BY <1>0, <1>a, <2>1, <3>6 DEF LoadTQ6, ImportTQSLFile, EndOf, WorkTypes
    <3>8. UNCHANGED <<trash, status, containers, lotwVars>>
      BY <2>1 DEF LoadTQ6
    <3> QED
      BY <1>0, <3>4, <3>5, <3>7, <3>8 DEF Sound, Types, ListTypes, LotwTypes, lotwVars
  <2>2. ASSUME NEW e \in containers, LoadP12(p, e) PROVE Sound'
    <3>1. e \in Entries
      BY <1>0 DEF ListTypes
    <3>2. e.call \in Calls /\ e.serial \in Nat /\ e.key \in Keys
      BY <3>1 DEF Entries
    <3>3. KeyTypes' /\ KeysKept'
      <4>1. PICK recs, b : /\ recs = Replaced(ReadKeys(keys[e.call]), e.key, TRUE)
                           /\ b = (StoreOutcome(e, FALSE) = "newer" /\ e.serial # 0
                                     /\ keys[e.call] # Null)
        OBVIOUS
      <4>2. Extends(recs, e.call)
        BY <1>0, <3>2, <4>1, ReplacedExtends
      <4>3. Null \in Files /\ keys[e.call] \in Files
        BY <1>0, <3>2 DEF Files, KeyTypes
      <4>4. made' = [made EXCEPT ![e.call] = @ \cup {}]
        BY <1>0, <2>2 DEF LoadP12, KeyTypes
      <4>5. /\ new' = [new EXCEPT ![e.call] = Null]
            /\ torn' = [torn EXCEPT ![e.call] = IF @ = "torn" THEN "over" ELSE @]
        BY <2>2 DEF LoadP12
      <4>6. CASE b
        <5>1. keys[e.call] \in Seq(KeyRecs) /\ keys[e.call] # Null
          BY <4>1, <4>3, <4>6 DEF Files
        <5>2. PICK old : old = keys[e.call]
          OBVIOUS
        <5>3. Extends(old, e.call)
          BY <5>1, <5>2, ReadKeysType DEF Extends
        <5>4. /\ keys' = [keys EXCEPT ![e.call] = old]
              /\ save' = [save EXCEPT ![e.call] = Null]
          BY <1>0, <2>2, <4>1, <4>6, <5>2 DEF LoadP12
        <5> QED
          BY <1>0, <3>2, <4>3, <4>4, <4>5, <5>3, <5>4, RewriteKeeps
      <4>7. CASE ~b
        <5>1. /\ keys' = [keys EXCEPT ![e.call] = recs]
              /\ save' = [save EXCEPT ![e.call] = keys[e.call]]
          BY <1>0, <2>2, <4>1, <4>7 DEF LoadP12
        <5> QED
          BY <1>0, <3>2, <4>2, <4>3, <4>4, <4>5, <5>1, RewriteKeeps
      <4> QED
        BY <4>6, <4>7
    <3>4. user' \in Seq(Entries) /\ xcerts' \in [Copies -> {Null} \cup Seq(Entries)]
      <4>1. PICK o : o = IF e.serial = 0 THEN "none" ELSE StoreOutcome(e, FALSE)
        OBVIOUS
      <4>2. StoreCert(p, e, o) \/ UNCHANGED <<userVars, xcerts>>
        BY <2>2, <4>1 DEF LoadP12
      <4> QED
        BY <1>0, <3>1, <4>2, StoreCertTypes DEF ListTypes, userVars
    <3>5. WorkTypes'
      <4>1. Cleanup(e.call, e.serial) \in Works
        BY <3>2, WorkValues
      <4> QED
        BY <1>0, <1>a, <2>2, <4>1 DEF LoadP12, WorkTypes
    <3>6. UNCHANGED <<trash, status, containers, lotwVars>>
      BY <2>2 DEF LoadP12
    <3> QED
      BY <1>0, <3>3, <3>4, <3>5, <3>6 DEF Sound, Types, ListTypes, LotwTypes, lotwVars
  <2>3. ASSUME NEW flaw \in P12Flaws, LoadP12Refused(p, flaw) PROVE Sound'
    BY <1>0, <1>a, <2>3 DEF LoadP12Refused, Sound, Types, KeyTypes, KeysKept, ListTypes,
      WorkTypes, LotwTypes, keyVars, userVars, lotwVars
  <2>4. CASE CleanupList(p)
    <3>1. PICK w \in Works : w = work[p] /\ w.phase = "cleanup" /\ w.call \in Calls
      BY <1>0, <2>4 DEF CleanupList, WorkTypes, Works
    <3>2. PICK list \in Seq(Entries) : list = SelectCertificates(p, w.call)
      BY <1>0, <3>1, SelectLists
    <3>3. PICK s : /\ s \in LotwStatus(w.serial)
                   /\ SetCertificateStatus(w.serial, s)
                   /\ \/ /\ list # << >> /\ xcerts' = Cached(p)
                         /\ work' = [work EXCEPT ![p].todo = list, ![p].phase = "deleting"]
                      \/ work' = [work EXCEPT ![p] = Build] /\ UNCHANGED xcerts
      BY <2>4, <3>1, <3>2 DEF CleanupList
    <3>4. status' \in [Keys -> Answers]
      <4>1. s \in Answers
        BY <3>3 DEF LotwStatus, Answers
      <4> QED
        BY <1>0, <3>3, <4>1 DEF SetCertificateStatus, LotwTypes
    <3>5. WorkTypes'
      <4>1. CASE list # << >> /\ work' = [work EXCEPT ![p].todo = list, ![p].phase = "deleting"]
        <5>1. PICK v : v = [w EXCEPT !.todo = list, !.phase = "deleting"]
          OBVIOUS
        <5>2. v \in Works
          BY <4>1, <5>1 DEF Works, Phases
        <5>3. work' = [work EXCEPT ![p] = v]
          BY <1>0, <3>1, <4>1, <5>1 DEF WorkTypes
        <5> QED
          BY <1>0, <5>2, <5>3 DEF WorkTypes
      <4>2. CASE work' = [work EXCEPT ![p] = Build]
        BY <1>0, <1>a, <4>2 DEF WorkTypes
      <4> QED
        BY <3>3, <4>1, <4>2
    <3>6. xcerts' \in [Copies -> {Null} \cup Seq(Entries)]
      BY <1>0, <3>3, CacheTypes
    <3>7. UNCHANGED <<keyVars, userVars, trash, pending, containers, lotwVars, boundVars>>
      BY <2>4 DEF CleanupList
    <3> QED
      BY <1>0, <3>4, <3>5, <3>6, <3>7 DEF Sound, Types, KeyTypes, KeysKept, ListTypes,
        LotwTypes, keyVars, userVars, lotwVars
  <2>5. ASSUME NEW end \in Ends, CleanupDelete(p, end) PROVE Sound'
    <3>1. work[p] \in Works /\ work[p].phase = "deleting"
      BY <1>0, <2>5 DEF CleanupDelete, WorkTypes
    <3>2. work[p].todo \in Seq(Entries) /\ work[p].todo # << >>
      BY <3>1 DEF Works
    <3>3. PICK e \in Entries : e = Head(work[p].todo)
      BY <3>2
    <3>4. DeleteCertificate(p, e, end)
      BY <2>5, <3>3 DEF CleanupDelete
    <3>5. Rest(p) \in Works
      BY <1>0, <3>1, RestWorks
    <3>6. WorkTypes'
      BY <1>0, <1>a, <2>5, <3>5 DEF CleanupDelete, EndOf, WorkTypes
    <3>7. UNCHANGED <<status, containers, lotwVars>>
      BY <2>5 DEF CleanupDelete
    <3> QED
      BY <1>0, <3>4, <3>6, <3>7, DeleteTypes DEF Sound, Types, ListTypes, LotwTypes, lotwVars
  <2>6. CASE CleanupKeep(p)
    <3>1. work[p] \in Works /\ work[p].phase = "deleting"
      BY <1>0, <2>6 DEF CleanupKeep, WorkTypes
    <3>3. Rest(p) \in Works
      BY <1>0, <3>1, RestWorks
    <3> QED
      BY <1>0, <2>6, <3>3, CacheTypes DEF CleanupKeep, Sound, Types, KeyTypes, KeysKept,
        ListTypes, WorkTypes, LotwTypes, keyVars, userVars, lotwVars
  <2>7. ASSUME NEW e \in Range(Loaded(p)), NEW end \in Ends, BuildFindsKey(p, e, end)
        PROVE  Sound'
    <3>1. e \in Entries
      BY <1>0, LoadedType DEF Range
    <3>2. e.call \in Calls
      BY <3>1 DEF Entries
    <3>3. FindMatchingKey(e.call, e.key, end)
      BY <2>7 DEF BuildFindsKey, GetPrivateKeyType
    <3>4. KeyTypes' /\ KeysKept'
      BY <1>0, <3>2, <3>3, FindTypes
    <3>5. xcerts' \in [Copies -> {Null} \cup Seq(Entries)]
      BY <1>0, <2>7, CacheTypes DEF BuildFindsKey
    <3>6. WorkTypes'
      BY <1>0, <1>a, <2>7 DEF BuildFindsKey, EndOf, WorkTypes
    <3> QED
      BY <1>0, <2>7, <3>4, <3>5, <3>6 DEF BuildFindsKey, Sound, Types, ListTypes, LotwTypes,
        userVars, lotwVars
  <2>8. CASE BuildEnds(p)
    BY <1>0, <1>a, <2>8, CacheTypes DEF BuildEnds, Sound, Types, KeyTypes, KeysKept, ListTypes,
      WorkTypes, LotwTypes, keyVars, userVars, lotwVars
  <2> QED
    BY <1>5, <2>1, <2>2, <2>3, <2>4, <2>5, <2>6, <2>7, <2>8 DEF Load
<1>6. ASSUME NEW p \in Copies, Command(p) PROVE Sound'
  <2>1. ASSUME NEW e \in Listed(p), NEW end \in Ends, OnCertDelete(p, e, end) PROVE Sound'
    <3>1. e \in Entries
      BY <1>0, ListedEntries
    <3>2. DeleteCertificate(p, e, end)
      BY <2>1 DEF OnCertDelete
    <3>3. WorkTypes'
      BY <1>0, <1>a, <2>1 DEF OnCertDelete, EndOf, WorkTypes
    <3>4. UNCHANGED <<status, containers, lotwVars>>
      BY <2>1 DEF OnCertDelete
    <3> QED
      BY <1>0, <3>1, <3>2, <3>3, <3>4, DeleteTypes DEF Sound, Types, ListTypes, LotwTypes, lotwVars
  <2>2. ASSUME NEW c \in Calls, NEW end \in Ends, OnCertUndelete(p, c, end) PROVE Sound'
    <3>1. PICK t \in Backups : t = trash[c]
      BY <1>0, <2>2 DEF OnCertUndelete, BackupList, ListTypes
    <3>2. t.entry \in Entries /\ t.entry.call \in Calls /\ t.key \in Keys \cup {0}
      BY <3>1 DEF Backups, Entries
    <3>3. ImportKeyPair(p, t, end) /\ trash' = [trash EXCEPT ![c] = IF end = "done" THEN Null ELSE @]
      BY <2>2, <3>1 DEF OnCertUndelete, RestoreCallsignCertificate
    <3>4. KeyTypes' /\ KeysKept'
      <4>1. CASE UNCHANGED keyVars
        BY <1>0, <4>1 DEF keyVars, KeyTypes, KeysKept
      <4>2. CASE ~UNCHANGED keyVars
        <5>1. PICK recs : recs = Replaced(ReadKeys(keys[t.entry.call]), t.key, TRUE)
          OBVIOUS
        <5>2. t.key # 0 /\ Swap(t.entry.call, recs, end)
          BY <3>3, <4>2, <5>1 DEF ImportKeyPair
        <5>3. Extends(recs, t.entry.call)
          BY <1>0, <3>2, <5>1, <5>2, ReplacedExtends
        <5> QED
          BY <1>0, <3>2, <5>2, <5>3, SwapKeeps
      <4> QED
        BY <4>1, <4>2
    <3>5. user' \in Seq(Entries) /\ xcerts' \in [Copies -> {Null} \cup Seq(Entries)]
      <4>1. PICK o, e : o = StoreOutcome(t.entry, TRUE) /\ e = t.entry
        OBVIOUS
      <4>2. StoreCert(p, e, o) \/ UNCHANGED <<userVars, xcerts>>
        BY <3>3, <4>1 DEF ImportKeyPair
      <4> QED
        BY <1>0, <3>2, <4>1, <4>2, StoreCertTypes DEF ListTypes, userVars
    <3>6. trash' \in [Calls -> {Null} \cup Backups]
      BY <1>0, <3>3 DEF ListTypes
    <3>7. WorkTypes'
      BY <1>0, <1>a, <2>2 DEF OnCertUndelete, EndOf, WorkTypes
    <3>8. UNCHANGED <<status, containers, lotwVars>>
      BY <2>2 DEF OnCertUndelete
    <3> QED
      BY <1>0, <3>4, <3>5, <3>6, <3>7, <3>8 DEF Sound, Types, ListTypes, LotwTypes, lotwVars
  <2>3. ASSUME NEW e \in Listed(p), OnCertExport(p, e) PROVE Sound'
    <3>1. e \in Entries /\ e.call \in Calls
      BY <1>0, ListedEntries
    <3>2. FindMatchingKey(e.call, e.key, "done") /\ containers' = containers \cup {e}
      BY <2>3 DEF OnCertExport, ExportPKCS12
    <3>3. KeyTypes' /\ KeysKept'
      BY <1>0, <1>b, <3>1, <3>2, FindTypes
    <3>4. UNCHANGED <<userVars, trash, status, pending, xcerts, work, lotwVars, boundVars>>
      BY <2>3 DEF OnCertExport
    <3> QED
      BY <1>0, <3>1, <3>2, <3>3, <3>4 DEF Sound, Types, ListTypes, WorkTypes, LotwTypes,
        userVars, lotwVars
  <2>4. ASSUME NEW e \in Range(Loaded(p)), CheckCertStatus(p, e) PROVE Sound'
    <3>1. PICK s : s \in LotwStatus(e.serial) /\ SetCertificateStatus(e.serial, s)
      BY <2>4 DEF CheckCertStatus
    <3>2. s \in Answers
      BY <3>1 DEF LotwStatus, Answers
    <3>3. status' \in [Keys -> Answers]
      BY <1>0, <3>1, <3>2 DEF SetCertificateStatus, LotwTypes
    <3> QED
      BY <1>0, <2>4, <3>3 DEF CheckCertStatus, Sound, Types, KeyTypes, KeysKept, ListTypes,
        WorkTypes, LotwTypes, keyVars, userVars, lotwVars
  <2>5. CASE Exit(p)
    BY <1>0, <1>a, <2>5, CacheTypes DEF Exit, Sound, Types, KeyTypes, KeysKept, ListTypes,
      WorkTypes, LotwTypes, keyVars, userVars, lotwVars
  <2> QED
    BY <1>6, <2>1, <2>2, <2>3, <2>4, <2>5 DEF Command
<1> QED
  BY <1>1, <1>2, <1>3, <1>4, <1>5, <1>6 DEF Next, Lotw

\* Every state of the store is well typed, and no private key is ever lost:
\* for any number of call signs and of running copies, and any number of
\* crashes between the renames of a key file.
THEOREM NoKeyLost == Spec => [](Types /\ KeysKept)
<1>1. Init => Sound
  <2> SUFFICES ASSUME Init PROVE Sound
    OBVIOUS
  <2>1. KeyTypes /\ KeysKept
    BY DEF Init, KeyTypes, KeysKept, Files
  <2>2. ListTypes /\ LotwTypes
    BY FS_EmptySet DEF Init, ListTypes, LotwTypes, Answers
  <2>3. WorkTypes
    BY WorkValues DEF Init, WorkTypes
  <2> QED
    BY <2>1, <2>2, <2>3 DEF Sound, Types
<1>2. Sound /\ [Next]_vars => Sound'
  BY SoundStep
<1>3. Sound => Types /\ KeysKept
  BY DEF Sound
<1> QED
  BY <1>1, <1>2, <1>3, PTL DEF Spec
-----------------------------------------------------------------------------
(* What holds while one copy runs.                                          *)

\* An entry with a serial number is a certificate that LoTW issued.
Genuine(e) == e.serial # 0 => e \in issued

\* LoTW numbers what it issues; each certificate has a key of its own, made
\* for its call sign, and supersedes an earlier one of the same call.
Issues ==
    /\ \A e \in issued : /\ e.serial \in 1..Cardinality(issued)
                         /\ e.key \in made[e.call]
                         /\ e.repl < e.serial
    /\ \A e, x \in issued : e.key = x.key \/ e.serial = x.serial => e = x
    /\ \A r \in requests : r.key \in made[r.call] /\ r.repl <= Cardinality(issued)
    /\ \A r \in requests \cup issued, x \in issued : r.repl = x.serial => r.call = x.call

\* Every certificate the store holds, in whatever file, comes from LoTW.
Sources ==
    /\ Range(user) \subseteq issued
    /\ \A c \in Calls : trash[c] # Null => trash[c].entry.call = c /\ Genuine(trash[c].entry)
    /\ \A e \in containers : Genuine(e)

\* Certificates expire in the order of their serial numbers.
Calendar ==
    /\ \A s \in expired : \A i \in 1..(s - 1) : i \in expired
    /\ \A s \in Keys : status[s] = "Expired" => s \in expired

UserUnique == \A i, j \in DOMAIN user : user[i].serial = user[j].serial => i = j

\* The key of every installed certificate is listed, except between a change
\* and the moment CertTree::Build has unlocked every key.
KeysListed ==
    \A p \in Copies : work[p].phase \in {"idle", "cleanup", "deleting"} =>
        \A e \in Range(user) : torn[e.call] = "no" => KeyListed(ReadKeys(keys[e.call]), e.key)

\* The clean-up still has installed certificates in its list, each once, and
\* requests whose key no certificate has.
Todo ==
    \A p \in Copies : work[p].phase = "deleting" =>
        LET todo == work[p].todo
        IN  /\ \A t \in Range(todo) : IF t.serial = 0 THEN \A e \in Range(user) : e.key # t.key
                                                       ELSE t \in Range(user)
            /\ \A i, j \in DOMAIN todo : todo[i].serial = todo[j].serial =>
                                             i = j \/ todo[i].serial = 0

\* What each part says of one copy.
Single(p) == Copies = {p}

\* The parts that speak of the files of the store.
Held == Sources /\ CacheFresh /\ UserUnique /\ BackupHasKey /\ KeysListed /\ Todo

Rests == {"idle", "cleanup", "deleting"}

-----------------------------------------------------------------------------
(* Steps, part by part.                                                     *)

\* The copy sees what certs/user holds.
LEMMA SeesUser ==
  ASSUME CacheFresh, NEW p \in Copies
  PROVE  Loaded(p) = user
BY DEF CacheFresh, Loaded

LEMMA CacheKept ==
  ASSUME NEW p, Single(p), ListTypes, CacheFresh,
         xcerts' \in {xcerts, Cached(p), Freed(p)}, user' = user \/ xcerts' = Freed(p)
  PROVE  CacheFresh'
<1>1. p \in Copies /\ Loaded(p) = user /\ xcerts[p] \in {Null, user}
  BY SeesUser DEF Single, CacheFresh
<1>2. xcerts'[p] \in {xcerts[p], user, Null} /\ (xcerts' = Freed(p) => xcerts'[p] = Null)
  BY <1>1 DEF Cached, Freed, ListTypes
<1>3. xcerts'[p] \in {Null, user'}
  BY <1>1, <1>2
<1> QED
  BY <1>3 DEF Single, CacheFresh

\* A torn key file never counts as whole again.
TornStays == \A d \in Calls : torn'[d] = "no" => torn[d] = "no"

\* No call loses the listing of a key outside K.
StillListed(K) ==
    \A d \in Calls, k \in Keys \ K :
        KeyListed(ReadKeys(keys[d]), k) => KeyListed(ReadKeys(keys'[d]), k)

LEMMA BackupKept ==
  ASSUME BackupHasKey, TornStays,
         \A c \in Calls : \/ trash'[c] \in {trash[c], Null} \/ torn[c] # "no"
                          \/ trash'[c].key = trash'[c].entry.key
  PROVE  BackupHasKey'
BY DEF BackupHasKey, TornStays

LEMMA SourcesKept ==
  ASSUME Sources, issued \subseteq issued', Range(user') \subseteq issued,
         \A c \in Calls : \/ trash'[c] \in {trash[c], Null}
                          \/ trash'[c].entry.call = c /\ Genuine(trash'[c].entry),
         \A e \in containers' : Genuine(e)
  PROVE  Sources'
<1>1. \A e : Genuine(e) => Genuine(e)'
  BY DEF Genuine
<1>2. \A c \in Calls : trash'[c] # Null => trash'[c].entry.call = c /\ Genuine(trash'[c].entry)
  BY DEF Sources
<1>3. \A e : Genuine(e) => (e.serial # 0 => e \in issued')
  BY DEF Genuine
<1> QED
  BY <1>2, <1>3 DEF Sources, Genuine

\* The keys of the installed certificates stay listed when those of the old
\* ones do.
LEMMA ListedKept ==
  ASSUME NEW p, Single(p), Sound, KeysListed, NEW K, TornStays, StillListed(K),
         work[p].phase \in Rests,
         \A e \in Range(user') : \/ e \in Range(user) /\ e.key \notin K
                                 \/ KeyListed(ReadKeys(keys'[e.call]), e.key)
  PROVE  KeysListed'
<1>1. ASSUME NEW e \in Range(user'), torn'[e.call] = "no"
      PROVE  KeyListed(ReadKeys(keys'[e.call]), e.key)
  <2>1. CASE e \in Range(user) /\ e.key \notin K
    <3>1. e \in Entries
      BY <2>1 DEF Range, Sound, Types, ListTypes
    <3>2. e.call \in Calls /\ e.key \in Keys \ K
      BY <2>1, <3>1 DEF Entries
    <3>3. KeyListed(ReadKeys(keys[e.call]), e.key)
      BY <1>1, <2>1, <3>2 DEF KeysListed, Single, TornStays, Rests
    <3> QED
      BY <3>2, <3>3 DEF StillListed
  <2> QED
    BY <1>1, <2>1
<1> QED
  BY <1>1 DEF KeysListed

\* While a rebuild of the list is due, nothing is asked of the keys.
LEMMA NotAtRest ==
  ASSUME NEW p, Single(p), work'[p].phase \notin Rests
  PROVE  KeysListed' /\ Todo'
BY DEF Single, Rests, KeysListed, Todo

LEMMA NoTodo ==
  ASSUME NEW p, Single(p), work'[p].phase # "deleting"
  PROVE  Todo'
BY DEF Single, Todo

-----------------------------------------------------------------------------
(* What the operations of the store do to those parts.                      *)

\* tqsl_store_cert stores only a serial number that is not there.
LEMMA StoredIsNew ==
  ASSUME ListTypes, NEW e, NEW force, StoreOutcome(e, force) = "stored"
  PROVE  \A i \in DOMAIN user : user[i].serial # e.serial
<1> DEFINE Same(i)  == user[i].serial = e.serial
           Newer(i) == ~force /\ user[i].call = e.call /\ user[i].serial > e.serial
           Hits == {i \in 1..Len(user) : Same(i) \/ Newer(i)}
           first == CHOOSE i \in Hits : \A j \in Hits : i <= j
<1>1. StoreOutcome(e, force) =
        IF Hits = {} THEN "stored" ELSE IF Same(first) THEN "duplicate" ELSE "newer"
  BY DEF StoreOutcome
<1>2. Hits = {}
  <2> HIDE DEF Hits, Same, first
  <2> QED
    BY <1>1
<1>3. DOMAIN user = 1..Len(user)
  BY DEF ListTypes
<1> QED
  BY <1>2, <1>3

\* Storing a certificate.
LEMMA StoreEffect ==
  ASSUME NEW p, Single(p), ListTypes, CacheFresh, UserUnique, NEW e \in Entries, NEW force,
         StoreCert(p, e, StoreOutcome(e, force))
  PROVE  CacheFresh' /\ UserUnique' /\ Range(user') \subseteq Range(user) \cup {e}
<1>1. PICK o : o = StoreOutcome(e, force)
  OBVIOUS
<1>2. xcerts' = Freed(p) /\ user' = IF o = "stored" THEN Append(user, e) ELSE user
  BY <1>1 DEF StoreCert
<1>3. CacheFresh'
  BY <1>2, CacheKept
<1>4. CASE o = "stored"
  <2>1. \A i \in DOMAIN user : user[i].serial # e.serial
    BY <1>1, <1>4, StoredIsNew
  <2>2. user' = Append(user, e) /\ user \in Seq(Entries)
    BY <1>2, <1>4 DEF ListTypes
  <2>3. /\ DOMAIN user' = 1..(Len(user) + 1) /\ DOMAIN user = 1..Len(user) /\ Len(user) \in Nat
        /\ user'[Len(user) + 1] = e
        /\ \A i \in DOMAIN user : user'[i] = user[i]
    BY <2>2
  <2>4. \A i \in DOMAIN user' : i \in DOMAIN user \/ i = Len(user) + 1
    BY <2>3
  <2>5. UserUnique'
    BY <2>1, <2>3, <2>4 DEF UserUnique
  <2>6. Range(user') \subseteq Range(user) \cup {e}
    BY <2>3, <2>4 DEF Range
  <2> QED
    BY <1>3, <2>5, <2>6
<1>5. CASE o # "stored"
  BY <1>2, <1>3, <1>5 DEF UserUnique
<1> QED
  BY <1>4, <1>5

\* Writing a key file: what the new one lists, every other file lists still.
LEMMA SwapLists ==
  ASSUME KeyTypes, NEW c \in Calls, NEW recs \in Seq(KeyRecs), NEW end \in Ends,
         Swap(c, recs, end)
  PROVE  /\ TornStays
         /\ \A d \in Calls \ {c} : keys'[d] = keys[d]
         /\ end # "keysTorn" => ReadKeys(keys'[c]) = recs
<1>1. torn[c] \in {"no", "torn", "over"} /\ \A d \in Calls : d # c => torn'[d] = torn[d]
  BY DEF Swap, KeyTypes
<1>2. torn'[c] = CASE torn[c] = "torn" -> "over"
                   [] torn[c] = "no" /\ end = "keysTorn" /\ keys[c] # Null -> "torn"
                   [] OTHER -> torn[c]
  BY DEF Swap, KeyTypes
<1>3. torn'[c] = "no" => torn[c] = "no"
  <2>1. CASE torn[c] = "torn"
    BY <1>2, <2>1
  <2>2. CASE torn[c] = "over"
    BY <1>2, <2>2
  <2> QED
    BY <1>1, <2>1, <2>2
<1>4. TornStays
  BY <1>1, <1>3 DEF TornStays
<1>5. keys' = [keys EXCEPT ![c] = IF end = "keysTorn" THEN Null ELSE recs]
  BY DEF Swap
<1>6. end # "keysTorn" => keys'[c] = recs
  BY <1>5 DEF KeyTypes
<1> QED
  BY <1>4, <1>5, <1>6, ReadKeysType DEF KeyTypes

\* Looking for a key unlists nothing, and lists the key if it is there.
LEMMA FindLists ==
  ASSUME KeyTypes, NEW c \in Calls, NEW k, NEW end \in Ends, FindMatchingKey(c, k, end)
  PROVE  /\ TornStays
         /\ end = "done" => /\ StillListed({})
                            /\ KeyExists(ReadKeys(keys[c]), k) => KeyListed(ReadKeys(keys'[c]), k)
<1>1. CASE MustUndelete(c, k)
  <2>1. PICK old \in Seq(KeyRecs) : old = ReadKeys(keys[c])
    BY ReadKeysType DEF KeyTypes
  <2>2. PICK recs : recs = SetDeleted(old, k, FALSE)
    OBVIOUS
  <2>3. /\ recs \in Seq(KeyRecs)
        /\ \A x : x # k /\ KeyListed(old, x) => KeyListed(recs, x)
        /\ KeyExists(old, k) => KeyListed(recs, k)
    BY <2>1, <2>2, SetDeletedKeeps
  <2>4. Swap(c, recs, end)
    BY <1>1, <2>1, <2>2 DEF FindMatchingKey, Undeleted
  <2>5. /\ TornStays /\ \A d \in Calls \ {c} : keys'[d] = keys[d]
        /\ end # "keysTorn" => ReadKeys(keys'[c]) = recs
    BY <2>3, <2>4, SwapLists
  <2>6. KeyExists(old, k) /\ ~KeyListed(old, k)
    BY <1>1, <2>1 DEF MustUndelete
  <2>7. end = "done" => StillListed({})
    BY <2>1, <2>3, <2>5, <2>6 DEF StillListed
  <2>8. end = "done" => KeyListed(ReadKeys(keys'[c]), k)
    BY <2>3, <2>5, <2>6
  <2> QED
    BY <2>5, <2>7, <2>8
<1>2. CASE ~MustUndelete(c, k)
  <2>1. UNCHANGED keys /\ UNCHANGED torn
    BY <1>2 DEF FindMatchingKey, keyVars
  <2>2. KeyExists(ReadKeys(keys[c]), k) => KeyListed(ReadKeys(keys[c]), k)
    BY <1>2 DEF MustUndelete
  <2> QED
    BY <2>1, <2>2 DEF TornStays, StillListed
<1> QED
  BY <1>1, <1>2

\* A list of some elements of a list without doubles has none.
LEMMA ListsUnique ==
  ASSUME NEW s \in Seq(Entries), NEW r \in Seq(Entries), NEW T, T \subseteq DOMAIN s,
         Lists(r, s, T), \A i, j \in DOMAIN s : s[i].serial = s[j].serial => i = j
  PROVE  \A i, j \in DOMAIN r : r[i].serial = r[j].serial => i = j
<1>1. PICK h \in [1..Len(r) -> T] :
         /\ \A j \in 1..Len(r) : r[j] = s[h[j]]
         /\ \A j, k \in 1..Len(r) : h[j] = h[k] => j = k
  BY DEF Lists
<1>2. DOMAIN r = 1..Len(r)
  OBVIOUS
<1>3. \A j \in DOMAIN r : h[j] \in DOMAIN s /\ r[j] = s[h[j]]
  BY <1>1, <1>2
<1> QED
  BY <1>1, <1>2, <1>3

\* Marking a key unlists no other one.
LEMMA MarkLists ==
  ASSUME KeyTypes, NEW c \in Calls, NEW recs \in Seq(KeyRecs), NEW k \in Keys,
         \A x : KeyListed(ReadKeys(keys[c]), x) => KeyListed(recs, x),
         NEW s, s = Replaced(recs, k, FALSE),
         ReadKeys(keys'[c]) = s, \A d \in Calls \ {c} : keys'[d] = keys[d]
  PROVE  StillListed({k})
<1>1. \A x : x # k /\ KeyListed(recs, x) => KeyListed(s, x)
  BY ReplacedKeeps
<1>2. ASSUME NEW d \in Calls, NEW x \in Keys \ {k}, KeyListed(ReadKeys(keys[d]), x)
      PROVE  KeyListed(ReadKeys(keys'[d]), x)
  <2>1. CASE d = c
    BY <1>1, <1>2, <2>1
  <2>2. CASE d # c
    BY <1>2, <2>2
  <2> QED
    BY <2>1, <2>2
<1> QED
  BY <1>2 DEF StillListed

\* tqsl_deleteCertificate: the backup has the key, the cache is dropped, only
\* what is deleted leaves the file, and only its key is marked.
LEMMA DeleteEffect ==
  ASSUME NEW p, Single(p), Sound, Held, NEW e \in Entries, NEW end \in Ends,
         DeleteCertificate(p, e, end), work[p].phase \in Rests,
         e.serial # 0 => e \in Range(user)
  PROVE  /\ CacheFresh' /\ UserUnique' /\ Range(user') \subseteq Range(user)
         /\ BackupHasKey' /\ TornStays
         /\ UNCHANGED <<containers, issued>> => Sources'
         /\ trash'[e.call] # Null /\ trash'[e.call].entry = e
         /\ e.serial = 0 => user' = user
         /\ end = "done" => /\ StillListed({e.key})
                            /\ e.serial # 0 => user' = Others(user, e)
<1>0. /\ p \in Copies /\ e.call \in Calls /\ e.key \in Keys /\ Loaded(p) = user
      /\ user \in Seq(Entries) /\ KeyTypes /\ ListTypes
  BY SeesUser DEF Single, Held, Entries, Sound, Types, ListTypes
<1>1. PICK rest : rest = Others(user, e)
  OBVIOUS
<1>2. /\ rest \in Seq(Entries) /\ Range(rest) = {x \in Range(user) : x.serial # e.serial}
      /\ Lists(rest, user, {i \in DOMAIN user : user[i].serial # e.serial})
  BY <1>0, <1>1, OthersLists
<1>3. \A i, j \in DOMAIN rest : rest[i].serial = rest[j].serial => i = j
  BY <1>0, <1>2, ListsUnique DEF Held, UserUnique
<1>4. /\ xcerts' = Freed(p)
      /\ user' = IF e.serial = 0 \/ end = "keysTorn" THEN user
                 ELSE IF end = "done" THEN rest ELSE << >>
      /\ e.serial = 0 => end # "userTorn"
  BY <1>0, <1>1 DEF DeleteCertificate
<1>5. CacheFresh'
  BY <1>0, <1>4, CacheKept DEF Held
<1>6. /\ user' \in {user, rest, << >>}
      /\ e.serial = 0 => user' = user
      /\ end = "done" /\ e.serial # 0 => user' = rest
  BY <1>4 DEF Ends
<1>7. UserUnique'
  <2>1. CASE user' = user
    BY <2>1 DEF Held, UserUnique
  <2>2. CASE user' = rest
    BY <1>3, <2>2 DEF UserUnique
  <2>3. CASE user' = << >>
    BY <2>3 DEF UserUnique
  <2> QED
    BY <1>6, <2>1, <2>2, <2>3
<1>8. Range(user') \subseteq Range(user)
  <2>1. CASE user' = user
    BY <2>1 DEF Range
  <2>2. CASE user' = rest
    <3>1. Range(user') = Range(rest)
      BY <2>2 DEF Range
    <3> QED
      BY <1>2, <3>1
  <2>3. CASE user' = << >>
    BY <2>3 DEF Range
  <2> QED
    BY <1>6, <2>1, <2>2, <2>3
<1>9. PICK recs \in Seq(KeyRecs) : recs = ReadKeys(keys[e.call])
  BY <1>0, ReadKeysType DEF KeyTypes
<1>10. PICK s : s = Replaced(recs, e.key, FALSE)
  OBVIOUS
<1>11. s \in Seq(KeyRecs)
  BY <1>0, <1>9, <1>10, ReplacedKeeps
<1>12. Swap(e.call, s, end)
  BY <1>9, <1>10 DEF DeleteCertificate
<1>13. /\ TornStays /\ \A d \in Calls \ {e.call} : keys'[d] = keys[d]
       /\ end # "keysTorn" => ReadKeys(keys'[e.call]) = s
  BY <1>0, <1>11, <1>12, SwapLists
<1>14. end = "done" => StillListed({e.key})
  BY <1>0, <1>9, <1>10, <1>13, MarkLists
<1>15. /\ trash'[e.call].entry = e /\ \A c \in Calls \ {e.call} : trash'[c] = trash[c]
       /\ KeyEncoded(e) => trash'[e.call].key = e.key
       /\ trash'[e.call] \in Backups
  <2>1. PICK b : b = [entry |-> e, key |-> IF KeyEncoded(e) THEN e.key ELSE 0]
    OBVIOUS
  <2>2. trash' = [trash EXCEPT ![e.call] = b]
    BY <2>1 DEF DeleteCertificate, BackupCert
  <2>3. trash'[e.call] = b /\ \A c \in Calls \ {e.call} : trash'[c] = trash[c]
    BY <1>0, <2>2 DEF ListTypes
  <2>4. b.entry = e /\ (KeyEncoded(e) => b.key = e.key) /\ b \in Backups
    BY <1>0, <2>1 DEF Backups
  <2> QED
    BY <2>3, <2>4
<1>16. torn[e.call] = "no" => KeyEncoded(e)
  BY <1>0 DEF KeyEncoded, Held, KeysListed, Rests
<1>17. BackupHasKey'
  BY <1>0, <1>13, <1>15, <1>16, BackupKept DEF Held
<1>18. ASSUME UNCHANGED <<containers, issued>> PROVE Sources'
  <2>1. Range(user') \subseteq issued /\ Genuine(e) /\ \A x \in containers' : Genuine(x)
    BY <1>8, <1>18 DEF Held, Sources, Genuine
  <2> QED
    BY <1>15, <1>18, <2>1, SourcesKept DEF Held
<1>19. trash'[e.call] # Null
  BY <1>15, NullAssumption
<1> QED
  BY <1>1, <1>5, <1>6, <1>7, <1>8, <1>13, <1>14, <1>15, <1>17, <1>18, <1>19

\* deleteRequest: the key it marks is no certificate's.
LEMMA DeleteRequestEffect ==
  ASSUME NEW p, Single(p), Sound, Held, NEW c \in Calls, NEW recs \in Seq(KeyRecs),
         \A x : KeyListed(ReadKeys(keys[c]), x) => KeyListed(recs, x),
         DeleteRequest(p, c, recs), UNCHANGED <<user, containers, issued>>
  PROVE  /\ CacheFresh' /\ UserUnique' /\ BackupHasKey' /\ Sources' /\ TornStays
         /\ \E K : StillListed(K) /\ \A e \in Range(user') : e \in Range(user) /\ e.key \notin K
<1>0. p \in Copies /\ Loaded(p) = user /\ KeyTypes /\ ListTypes
  BY SeesUser DEF Single, Held, Sound, Types
<1>1. PICK list \in Seq(Entries) :
         list = KeyOnly(p, c, recs) /\ \A t \in Range(list) : Request0(p, c, t)
  BY <1>0, KeyOnlyLists
<1>2. CacheFresh'
  BY <1>0, CacheKept DEF DeleteRequest, Held
<1>3. UserUnique' /\ Range(user') = Range(user) /\ Range(user) \subseteq issued
  BY DEF Held, UserUnique, Sources, Range
<1>4. \A x \in containers' : Genuine(x)
  BY DEF Held, Sources
<1>5. CASE list = << >>
  <2>1. keys' = [keys EXCEPT ![c] = recs] /\ UNCHANGED <<torn, trash>>
    BY <1>1, <1>5 DEF DeleteRequest
  <2>2. keys'[c] = recs /\ \A d \in Calls \ {c} : keys'[d] = keys[d]
    BY <1>0, <2>1 DEF KeyTypes
  <2>3. ReadKeys(keys'[c]) = recs
    BY <2>2, ReadKeysType
  <2>4. StillListed({})
    BY <2>2, <2>3 DEF StillListed
  <2>5. TornStays
    BY <2>1 DEF TornStays
  <2>6. BackupHasKey'
    BY <2>1, <2>5, BackupKept DEF Held
  <2>7. Sources'
    BY <1>3, <1>4, <2>1, SourcesKept DEF Held
  <2> QED
    BY <1>2, <1>3, <2>4, <2>5, <2>6, <2>7
<1>6. CASE list # << >>
  <2>1. PICK e \in Entries : e = Head(list) /\ e \in Range(list)
    BY <1>6 DEF Range
  <2>2. e.key \in Keys /\ e.call = c /\ e.serial = 0 /\ \A x \in Range(user) : x.key # e.key
    BY <1>0, <1>1, <2>1 DEF Request0, Entries
  <2>3. PICK s : s = Replaced(recs, e.key, FALSE)
    OBVIOUS
  <2>4. s \in Seq(KeyRecs)
    BY <2>2, <2>3, ReplacedKeeps
  <2>5. /\ keys' = [keys EXCEPT ![c] = s]
        /\ torn' = [torn EXCEPT ![c] = IF @ = "torn" THEN "over" ELSE @]
        /\ trash' = [trash EXCEPT ![c] = [entry |-> e, key |-> e.key]]
    BY <1>1, <1>6, <2>1, <2>3 DEF DeleteRequest
  <2>6. keys'[c] = s /\ \A d \in Calls \ {c} : keys'[d] = keys[d]
    BY <1>0, <2>5 DEF KeyTypes
  <2>7. ReadKeys(keys'[c]) = s
    BY <2>4, <2>6, ReadKeysType
  <2>8. StillListed({e.key})
    BY <1>0, <2>2, <2>3, <2>6, <2>7, MarkLists
  <2>9. TornStays
    <3>1. torn'[c] = "no" => torn[c] = "no"
      BY <1>0, <2>5 DEF KeyTypes
    <3>2. \A d \in Calls \ {c} : torn'[d] = torn[d]
      BY <1>0, <2>5 DEF KeyTypes
    <3> QED
      BY <3>1, <3>2 DEF TornStays
  <2>10. /\ trash'[c].entry = e /\ trash'[c].key = e.key
         /\ \A d \in Calls \ {c} : trash'[d] = trash[d]
    BY <1>0, <2>5 DEF ListTypes
  <2>11. BackupHasKey'
    BY <2>9, <2>10, BackupKept DEF Held
  <2>12. Genuine(e)
    BY <2>2 DEF Genuine
  <2>13. Sources'
    BY <1>3, <1>4, <2>2, <2>10, <2>12, SourcesKept DEF Held
  <2> QED
    BY <1>2, <1>3, <2>2, <2>8, <2>9, <2>11, <2>13
<1> QED
  BY <1>5, <1>6

-----------------------------------------------------------------------------
(* LoTW.                                                                    *)

\* Only a request makes a key, and no command but a request reaches LoTW.
LEMMA LoadFrame ==
  ASSUME NEW p, Load(p)
  PROVE  UNCHANGED <<made, requests, issued, expired>>
<1>1. ASSUME NEW e \in issued, NEW end \in {"done", "keysTorn"}, LoadTQ6(p, e, end)
      PROVE  UNCHANGED <<made, requests, issued, expired>>
  BY <1>1 DEF LoadTQ6, ImportTQSLFile, HandleUserCert, FindMatchingKey, Swap, keyVars, lotwVars
<1>2. ASSUME NEW e \in containers, LoadP12(p, e)
      PROVE  UNCHANGED <<made, requests, issued, expired>>
  BY <1>2 DEF LoadP12, lotwVars
<1>3. ASSUME NEW flaw \in P12Flaws, LoadP12Refused(p, flaw)
      PROVE  UNCHANGED <<made, requests, issued, expired>>
  BY <1>3 DEF LoadP12Refused, keyVars, lotwVars
<1>4. CASE CleanupList(p)
  BY <1>4 DEF CleanupList, keyVars, lotwVars
<1>5. ASSUME NEW end \in Ends, CleanupDelete(p, end)
      PROVE  UNCHANGED <<made, requests, issued, expired>>
  BY <1>5 DEF CleanupDelete, DeleteCertificate, Swap, lotwVars
<1>6. CASE CleanupKeep(p)
  BY <1>6 DEF CleanupKeep, keyVars, lotwVars
<1>7. ASSUME NEW e \in Range(Loaded(p)), NEW end \in Ends, BuildFindsKey(p, e, end)
      PROVE  UNCHANGED <<made, requests, issued, expired>>
  BY <1>7 DEF BuildFindsKey, GetPrivateKeyType, FindMatchingKey, Swap, keyVars, lotwVars
<1>8. CASE BuildEnds(p)
  BY <1>8 DEF BuildEnds, keyVars, lotwVars
<1> QED
  BY <1>1, <1>2, <1>3, <1>4, <1>5, <1>6, <1>7, <1>8 DEF Load

LEMMA CommandFrame ==
  ASSUME NEW p, Command(p)
  PROVE  UNCHANGED <<made, requests, issued, expired>>
<1>1. ASSUME NEW e \in Listed(p), NEW end \in Ends, OnCertDelete(p, e, end)
      PROVE  UNCHANGED <<made, requests, issued, expired>>
  BY <1>1 DEF OnCertDelete, DeleteCertificate, Swap, lotwVars
<1>2. ASSUME NEW c \in Calls, NEW end \in Ends, OnCertUndelete(p, c, end)
      PROVE  UNCHANGED <<made, requests, issued, expired>>
  BY <1>2 DEF OnCertUndelete, RestoreCallsignCertificate, ImportKeyPair, Swap, keyVars, lotwVars
<1>3. ASSUME NEW e \in Listed(p), OnCertExport(p, e)
      PROVE  UNCHANGED <<made, requests, issued, expired>>
  BY <1>3 DEF OnCertExport, ExportPKCS12, FindMatchingKey, Swap, keyVars, lotwVars
<1>4. ASSUME NEW e \in Range(Loaded(p)), CheckCertStatus(p, e)
      PROVE  UNCHANGED <<made, requests, issued, expired>>
  BY <1>4 DEF CheckCertStatus, keyVars, lotwVars
<1>5. CASE Exit(p)
  BY <1>5 DEF Exit, keyVars, lotwVars
<1> QED
  BY <1>1, <1>2, <1>3, <1>4, <1>5 DEF Command

\* What LoTW issued stays in order while requests come and keys are made.
LEMMA IssuesKept ==
  ASSUME Sound, Issues, \A c \in Calls : made[c] \subseteq made'[c], UNCHANGED issued,
         \A r \in requests' \ requests :
            /\ r \in Entries /\ r.key \in made'[r.call] /\ r.repl <= Cardinality(issued)
            /\ \A x \in issued : r.repl = x.serial => r.call = x.call
  PROVE  Issues'
<1>1. \A e \in requests \cup issued : e.call \in Calls
  BY DEF Sound, Types, LotwTypes, Entries
<1>2. \A r \in requests' : r.key \in made'[r.call] /\ r.repl <= Cardinality(issued)
  BY <1>1 DEF Issues
<1>3. \A e \in issued : e.key \in made'[e.call]
  BY <1>1 DEF Issues
<1>4. \A r \in requests' \cup issued, x \in issued : r.repl = x.serial => r.call = x.call
  BY DEF Issues
<1>5. \A e \in issued : e.serial \in 1..Cardinality(issued) /\ e.repl < e.serial
  BY DEF Issues
<1>6. \A e, x \in issued : e.key = x.key \/ e.serial = x.serial => e = x
  BY DEF Issues
<1> QED
  BY <1>2, <1>3, <1>4, <1>5, <1>6 DEF Issues

\* LoTW issues the next serial number, for a key that has no certificate yet.
LEMMA IssueStep ==
  ASSUME Sound, Issues, NEW r \in requests, Issue(r)
  PROVE  Issues' /\ issued \subseteq issued'
<1>0. r \in Entries /\ issued \subseteq Entries /\ requests \subseteq Entries /\ IsFiniteSet(issued)
  BY DEF Sound, Types, LotwTypes
<1>1. PICK n \in Nat : n = Cardinality(issued)
  BY <1>0, FS_CardinalityType
<1>2. PICK new1 : new1 = [r EXCEPT !.serial = n + 1]
  OBVIOUS
<1>3. /\ issued' = issued \cup {new1} /\ UNCHANGED requests /\ UNCHANGED made
      /\ \A e \in issued : e.key # r.key
  BY <1>1, <1>2 DEF Issue, keyVars
<1>4. /\ new1 \in Entries /\ new1.serial = n + 1 /\ new1.key = r.key /\ new1.call = r.call
      /\ new1.repl = r.repl
  BY <1>0, <1>1, <1>2 DEF Entries
<1>5. new1 \notin issued
  BY <1>3, <1>4
<1>6. Cardinality(issued') = n + 1
  BY <1>0, <1>1, <1>3, <1>5, FS_AddElement
<1>7. \A e \in issued : e.serial \in 1..n /\ e.key \in made[e.call] /\ e.repl < e.serial
  BY <1>1 DEF Issues
<1>8. /\ r.key \in made[r.call] /\ \A x \in requests : x.key \in made[x.call] /\ x.repl <= n
      /\ \A x \in requests : x.repl \in Nat
  BY <1>0, <1>1 DEF Issues, Entries
<1>9. \A e \in issued' : e.serial \in 1..(n + 1) /\ e.key \in made[e.call] /\ e.repl < e.serial
  <2>1. new1.serial \in 1..(n + 1) /\ new1.key \in made[new1.call] /\ new1.repl < new1.serial
    BY <1>4, <1>8
  <2> QED
    BY <1>3, <1>7, <2>1
<1>10. \A e, x \in issued' : e.key = x.key \/ e.serial = x.serial => e = x
  <2>1. \A e \in issued : e.key # new1.key /\ e.serial # new1.serial
    BY <1>3, <1>4, <1>7
  <2>2. \A e, x \in issued : e.key = x.key \/ e.serial = x.serial => e = x
    BY DEF Issues
  <2> QED
    BY <1>3, <2>1, <2>2
<1>11. \A x \in requests : x.repl <= n + 1
  BY <1>8
<1>12. \A q \in requests \cup issued', x \in issued' : q.repl = x.serial => q.call = x.call
  <2>1. \A q \in requests \cup issued, x \in issued : q.repl = x.serial => q.call = x.call
    BY DEF Issues
  <2>2. \A q \in requests \cup issued : q.repl # n + 1
    <3>1. \A q \in issued : q.repl \in Nat /\ q.serial \in 1..n /\ q.repl < q.serial
      BY <1>0, <1>7 DEF Entries
    <3> QED
      BY <1>8, <3>1
  <2>3. \A x \in issued : new1.repl = x.serial => new1.call = x.call
    BY <1>4, <2>1
  <2>4. new1.repl # n + 1
    BY <1>4, <2>2
  <2> QED
    BY <1>3, <1>4, <2>1, <2>2, <2>3, <2>4
<1> QED
  BY <1>3, <1>6, <1>9, <1>10, <1>11, <1>12 DEF Issues

\* A request of the window names the certificate it renews.
LEMMA RequestIssues ==
  ASSUME NEW p, Single(p), Sound, Issues, Sources, CacheFresh, Request(p)
  PROVE  Issues' /\ UNCHANGED issued
<1>0. p \in Copies /\ Loaded(p) = user
  BY SeesUser DEF Single
<1>1. PICK c \in Calls, repl \in Serials :
         \/ RequestSent(p, c, repl)
         \/ RequestAbandoned(p, c, repl)
         \/ \E unread \in BOOLEAN : RequestUploadFails(p, c, repl, unread)
  BY DEF Request
<1>2. CASE RequestSent(p, c, repl)
  <2>1. PICK k \in Keys : k = NextKey
    BY <1>2 DEF RequestSent
  <2>2. PICK r : r = [call |-> c, key |-> k, serial |-> 0, repl |-> repl]
    OBVIOUS
  <2>3. /\ made' = [made EXCEPT ![c] = @ \cup {k}]
        /\ requests' = requests \cup {r} /\ UNCHANGED issued
    BY <1>2, <2>1, <2>2 DEF RequestSent
  <2>4. repl \in Nat /\ Cardinality(issued) \in Nat
    BY KeysAssumption, FS_CardinalityType DEF Serials, Sound, Types, LotwTypes
  <2>5. r \in Entries /\ r.call = c /\ r.key = k /\ r.repl = repl
    BY <2>2, <2>4 DEF Entries
  <2>6. repl = 0 \/ \E e \in issued : e.serial = repl /\ e.call = c
    <3>1. repl = 0 \/ \E e \in Range(ForCall(Loaded(p), c)) : e.serial = repl
      BY <1>2 DEF RequestSent, MayRequest
    <3>2. Range(ForCall(Loaded(p), c)) = {e \in Range(user) : e.call = c}
      BY <1>0, LoadedType, ForCallLists DEF Sound, Types
    <3> QED
      BY <3>1, <3>2 DEF Sources
  <2>7. r.repl <= Cardinality(issued) /\ \A x \in issued : r.repl = x.serial => r.call = x.call
    <3>1. CASE repl = 0
      <4>1. \A x \in issued : x.serial # 0
        BY <2>4 DEF Issues
      <4> QED
        BY <2>4, <2>5, <3>1, <4>1
    <3>2. ASSUME NEW e \in issued, e.serial = repl, e.call = c
          PROVE  /\ r.repl <= Cardinality(issued)
                 /\ \A x \in issued : r.repl = x.serial => r.call = x.call
      <4>1. e.serial \in 1..Cardinality(issued) /\ \A x \in issued : x.serial = e.serial => x = e
        BY DEF Issues
      <4> QED
        BY <2>4, <2>5, <3>2, <4>1
    <3> QED
      BY <2>6, <3>1, <3>2
  <2>8. made'[c] = made[c] \cup {k} /\ \A d \in Calls : made[d] \subseteq made'[d]
    BY <2>3 DEF Sound, Types, KeyTypes
  <2> QED
    BY <2>3, <2>5, <2>7, <2>8, IssuesKept
<1>3. ASSUME UNCHANGED <<requests, issued>>, \A d \in Calls : made[d] \subseteq made'[d]
      PROVE  Issues'
  BY <1>3, IssuesKept
<1>4. CASE RequestAbandoned(p, c, repl)
  BY <1>3, <1>4 DEF RequestAbandoned, lotwVars
<1>5. ASSUME NEW unread \in BOOLEAN, RequestUploadFails(p, c, repl, unread)
      PROVE  Issues' /\ UNCHANGED issued
  <2>1. PICK k : made' = [made EXCEPT ![c] = @ \cup {k}]
    BY <1>5 DEF RequestUploadFails
  <2>2. \A d \in Calls : made[d] \subseteq made'[d]
    BY <2>1 DEF Sound, Types, KeyTypes
  <2> QED
    BY <1>3, <1>5, <2>2 DEF RequestUploadFails, lotwVars
<1> QED
  BY <1>1, <1>2, <1>4, <1>5

\* LoTW's numbering survives every step.
LEMMA IssuesStep ==
  ASSUME NEW p, Single(p), Sound, Issues, Sources, CacheFresh, [Next]_vars
  PROVE  Issues' /\ issued \subseteq issued'
<1>1. ASSUME UNCHANGED <<made, requests, issued>> PROVE Issues' /\ issued \subseteq issued'
  BY <1>1, IssuesKept
<1>2. CASE UNCHANGED vars
  BY <1>1, <1>2 DEF vars, keyVars, lotwVars
<1>3. ASSUME NEW r \in requests, Issue(r) PROVE Issues' /\ issued \subseteq issued'
  BY <1>3, IssueStep
<1>4. ASSUME NEW s \in Keys, Expire(s) PROVE Issues' /\ issued \subseteq issued'
  BY <1>1, <1>4 DEF Expire, keyVars
<1>5. CASE Request(p)
  BY <1>5, RequestIssues
<1>6. CASE Load(p)
  BY <1>1, <1>6, LoadFrame
<1>7. CASE Command(p)
  BY <1>1, <1>7, CommandFrame
<1> QED
  BY <1>2, <1>3, <1>4, <1>5, <1>6, <1>7 DEF Next, Lotw, Single

-----------------------------------------------------------------------------
(* Every action keeps what the store holds in order.                        *)

LEMMA PhaseValues ==
  /\ Idle.phase = "idle" /\ Build.phase = "build" /\ Start.phase = "start"
  /\ \A c, s : Cleanup(c, s).phase = "cleanup"
  /\ "build" \notin Rests /\ "start" \notin Rests
  /\ "idle" \in Rests /\ "cleanup" \in Rests /\ "deleting" \in Rests
BY DEF Idle, Build, Start, Cleanup, Rests

LEMMA EndOfNext ==
  ASSUME WorkTypes, NEW p \in Copies, NEW end, NEW next, EndOf(p, end, next)
  PROVE  work'[p] = IF end = "done" THEN next ELSE Start
BY DEF WorkTypes, EndOf

\* A step that changes no file of the store.
LEMMA QuietKeeps ==
  ASSUME NEW p, Single(p), Sound, Held, UNCHANGED <<user, trash, containers, keys, torn>>,
         issued \subseteq issued', xcerts' \in {xcerts, Cached(p), Freed(p)},
         work'[p].phase \in Rests => work[p].phase \in Rests, Todo'
  PROVE  Held'
<1>0. ListTypes
  BY DEF Sound, Types
<1>1. CacheFresh'
  BY <1>0, CacheKept DEF Held
<1>2. UserUnique' /\ Range(user') \subseteq issued /\ \A e \in containers' : Genuine(e)
  BY DEF Held, UserUnique, Sources, Range
<1>3. Sources'
  BY <1>2, SourcesKept DEF Held
<1>4. BackupHasKey'
  BY DEF Held, BackupHasKey
<1>5. KeysListed'
  <2>1. CASE work'[p].phase \in Rests
    <3>1. \A e \in Range(user) : torn[e.call] = "no" => KeyListed(ReadKeys(keys[e.call]), e.key)
      BY <2>1 DEF Held, KeysListed, Rests, Single
    <3> QED
      BY <3>1 DEF KeysListed, Range
  <2>2. CASE work'[p].phase \notin Rests
    BY <2>2, NotAtRest
  <2> QED
    BY <2>1, <2>2
<1> QED
  BY <1>1, <1>2, <1>3, <1>4, <1>5 DEF Held

LEMMA TodoSame ==
  ASSUME Todo, UNCHANGED <<user, work>>
  PROVE  Todo'
BY DEF Todo, Range

\* The list of the clean-up: the certificates of the call, and requests.
LEMMA CleanupListKeeps ==
  ASSUME NEW p, Single(p), Sound, Issues, Held, CleanupList(p)
  PROVE  Held'
<1>0. /\ p \in Copies /\ Loaded(p) = user /\ KeyTypes /\ ListTypes /\ WorkTypes
      /\ user \in Seq(Entries)
  BY SeesUser DEF Single, Held, Sound, Types, ListTypes
<1>1. UNCHANGED <<user, trash, containers, keys, torn, issued>>
  BY DEF CleanupList, keyVars, userVars, lotwVars
<1>2. PICK w \in Works : w = work[p] /\ w.phase = "cleanup" /\ w.call \in Calls
  BY <1>0 DEF CleanupList, WorkTypes, Works
<1>3. PICK list \in Seq(Entries) :
         list = SelectCertificates(p, w.call)
  BY <1>0, <1>2, SelectLists
<1>4. \/ /\ xcerts' = Cached(p)
         /\ work' = [work EXCEPT ![p].todo = list, ![p].phase = "deleting"]
      \/ work' = [work EXCEPT ![p] = Build] /\ UNCHANGED xcerts
  BY <1>2, <1>3 DEF CleanupList
<1>5. CASE work' = [work EXCEPT ![p] = Build]
  <2>1. work'[p] = Build
    BY <1>0, <1>5 DEF WorkTypes
  <2> QED
    BY <1>1, <1>4, <2>1, NotAtRest, QuietKeeps, PhaseValues
<1>6. CASE work' = [work EXCEPT ![p].todo = list, ![p].phase = "deleting"]
  <2>1. work'[p].phase = "deleting" /\ work'[p].todo = list
    <3>1. work'[p] = [w EXCEPT !.todo = list, !.phase = "deleting"]
      BY <1>0, <1>2, <1>6 DEF WorkTypes
    <3>2. w \in [phase : Phases, call : Calls \cup {Null}, serial : Nat, todo : Seq(Entries)]
      BY DEF Works
    <3> QED
      BY <3>1, <3>2
  <2>2. ASSUME NEW t \in Range(list)
        PROVE  IF t.serial = 0 THEN \A e \in Range(user) : e.key # t.key ELSE t \in Range(user)
    <3>1. t \in Range(user) \/ Request0(p, w.call, t)
      BY <1>0, <1>2, <1>3, <2>2, SelectLists
    <3>2. \A e \in Range(user) : e.serial # 0
      BY <1>0 DEF Held, Sources, Issues
    <3>3. CASE Request0(p, w.call, t)
      BY <1>0, <3>3 DEF Request0
    <3> QED
      BY <3>1, <3>2, <3>3
  <2>3. \A i, j \in DOMAIN list : list[i].serial = list[j].serial => i = j \/ list[i].serial = 0
    <3>1. PICK a \in Seq(Entries) :
             a = ForCall(user, w.call) /\
             Lists(a, user, {i \in DOMAIN user : user[i].call = w.call})
      BY <1>0, ForCallLists
    <3>2. \A i, j \in DOMAIN a : a[i].serial = a[j].serial => i = j
      BY <1>0, <3>1, ListsUnique DEF Held, UserUnique
    <3>3. PICK recs \in Seq(KeyRecs) : recs = ReadKeys(keys[w.call])
      BY <1>0, <1>2, ReadKeysType DEF KeyTypes
    <3>4. PICK b \in Seq(Entries) :
             b = KeyOnly(p, w.call, recs) /\ \A t \in Range(b) : Request0(p, w.call, t)
      BY <1>0, <1>2, KeyOnlyLists
    <3>5. \A i \in DOMAIN b : b[i].serial = 0
      BY <3>4 DEF Range, Request0
    <3>6. list = a \o b
      BY <1>0, <1>3, <3>1, <3>3, <3>4 DEF SelectCertificates
    <3>7. /\ Len(a) \in Nat /\ DOMAIN a = 1..Len(a) /\ Len(b) \in Nat /\ DOMAIN b = 1..Len(b)
          /\ DOMAIN list = 1..(Len(a) + Len(b))
      BY <3>6
    <3>8. \A i \in DOMAIN list : IF i \in DOMAIN a THEN list[i] = a[i]
                                 ELSE i - Len(a) \in DOMAIN b /\ list[i] = b[i - Len(a)]
      BY <3>6, <3>7
    <3>9. \A i \in DOMAIN list : i \in DOMAIN a \/ list[i].serial = 0
      BY <3>5, <3>8
    <3> QED
      BY <3>2, <3>8, <3>9
  <2>4. Todo'
    <3>1. user' = user
      BY <1>1
    <3> QED
      BY <2>1, <2>2, <2>3, <3>1 DEF Todo, Single, Range
  <2> QED
    BY <1>1, <1>2, <1>4, <2>1, <2>4, QuietKeeps, PhaseValues
<1> QED
  BY <1>4, <1>5, <1>6

\* The rest of the list stays in order when its head is done with, and the
\* head at most was deleted.
LEMMA TodoRest ==
  ASSUME NEW p, Single(p), Sound, Todo, work[p].phase = "deleting", work'[p] = Rest(p),
         NEW e, e = Head(work[p].todo), Range(user') \subseteq Range(user),
         \A x \in Range(user) : x \in Range(user') \/ (e.serial # 0 /\ x.serial = e.serial)
  PROVE  Todo'
<1>0. p \in Copies /\ WorkTypes
  BY DEF Single, Sound, Types
<1>1. PICK w \in Works : w = work[p] /\ w.phase = "deleting"
  BY <1>0 DEF WorkTypes
<1>2. PICK q \in Seq(Entries) : q = w.todo /\ q # << >>
  BY <1>1 DEF Works
<1>3. PICK t \in Seq(Entries) : t = Tail(q)
  <2>1. Tail(q) \in Seq(Entries)
    BY <1>2
  <2> QED
    BY <2>1
<1>4. /\ \A s \in Range(q) : IF s.serial = 0 THEN \A x \in Range(user) : x.key # s.key
                                             ELSE s \in Range(user)
      /\ \A i, j \in DOMAIN q : q[i].serial = q[j].serial => i = j \/ q[i].serial = 0
  BY <1>0, <1>1, <1>2 DEF Todo
<1>5. CASE t = << >>
  <2>1. work'[p] = Build
    BY <1>1, <1>2, <1>3, <1>5 DEF Rest
  <2> QED
    BY <2>1, NotAtRest, PhaseValues
<1>6. CASE t # << >>
  <2>1. work'[p] = [w EXCEPT !.todo = t]
    BY <1>1, <1>2, <1>3, <1>6 DEF Rest
  <2>2. w \in [phase : Phases, call : Calls \cup {Null}, serial : Nat, todo : Seq(Entries)]
    BY DEF Works
  <2>3. work'[p].todo = t
    BY <2>1, <2>2
  <2>4. /\ DOMAIN t = 1..Len(t) /\ Len(t) \in Nat /\ DOMAIN q = 1..(Len(t) + 1) /\ q[1] = e
        /\ \A i \in DOMAIN t : t[i] = q[i + 1]
    BY <1>1, <1>2, <1>3
  <2>5. \A i \in DOMAIN t : i + 1 \in DOMAIN q /\ 1 \in DOMAIN q /\ i + 1 # 1
    BY <2>4
  <2>6. \A i, j \in DOMAIN t : t[i].serial = t[j].serial => i = j \/ t[i].serial = 0
    <3> SUFFICES ASSUME NEW i \in DOMAIN t, NEW j \in DOMAIN t, t[i].serial = t[j].serial,
                        t[i].serial # 0
                 PROVE  i = j
      OBVIOUS
    <3>1. i + 1 = j + 1
      BY <1>4, <2>4, <2>5
    <3> QED
      BY <2>4, <3>1
  <2>7. ASSUME NEW i \in DOMAIN t
        PROVE  IF t[i].serial = 0 THEN \A x \in Range(user') : x.key # t[i].key
                                  ELSE t[i] \in Range(user')
    <3>1. t[i] \in Range(q) /\ (t[i].serial # 0 => t[i].serial # e.serial)
      BY <1>4, <2>4, <2>5 DEF Range
    <3>2. CASE t[i].serial = 0
      BY <1>4, <3>1, <3>2
    <3>3. CASE t[i].serial # 0
      BY <1>4, <3>1, <3>3
    <3> QED
      BY <3>2, <3>3
  <2>8. \A s \in Range(t) : IF s.serial = 0 THEN \A x \in Range(user') : x.key # s.key
                                            ELSE s \in Range(user')
    BY <2>7 DEF Range
  <2> QED
    BY <2>3, <2>6, <2>8, SMTT(30) DEF Todo, Single, Range
<1> QED
  BY <1>5, <1>6

LEMMA CleanupKeepKeeps ==
  ASSUME NEW p, Single(p), Sound, Held, CleanupKeep(p)
  PROVE  Held'
<1>1. /\ UNCHANGED <<user, trash, containers, keys, torn, issued>>
      /\ work[p].phase = "deleting" /\ xcerts' = Cached(p)
  BY DEF CleanupKeep, keyVars, userVars, lotwVars
<1>2. work'[p] = Rest(p)
  BY DEF CleanupKeep, Single, Sound, Types, WorkTypes
<1>3. PICK e : e = Head(work[p].todo)
  OBVIOUS
<1>4. Range(user') = Range(user)
  BY <1>1 DEF Range
<1>5. Todo'
  BY <1>1, <1>2, <1>3, <1>4, TodoRest DEF Held
<1> QED
  BY <1>1, <1>5, QuietKeeps, PhaseValues

\* The head of the list is an installed certificate, or a request.
LEMMA CleanupDeleteKeeps ==
  ASSUME NEW p, Single(p), Sound, Issues, Held, NEW end \in Ends, CleanupDelete(p, end)
  PROVE  Held'
<1>0. /\ p \in Copies /\ WorkTypes /\ work[p].phase = "deleting" /\ user \in Seq(Entries)
      /\ ListTypes
  BY DEF Single, Sound, Types, ListTypes, CleanupDelete
<1>1. PICK w \in Works : w = work[p] /\ w.phase = "deleting"
  BY <1>0 DEF WorkTypes
<1>2. PICK q \in Seq(Entries) : q = w.todo /\ q # << >>
  BY <1>1 DEF Works
<1>3. PICK e \in Entries : e = Head(q) /\ e \in Range(q)
  BY <1>2 DEF Range
<1>4. IF e.serial = 0 THEN \A x \in Range(user) : x.key # e.key ELSE e \in Range(user)
  BY <1>0, <1>1, <1>2, <1>3 DEF Held, Todo
<1>5. e = Head(work[p].todo)
  BY <1>1, <1>2, <1>3
<1>6. /\ DeleteCertificate(p, e, end) /\ EndOf(p, end, Rest(p))
      /\ UNCHANGED <<containers, issued>>
  BY <1>5 DEF CleanupDelete, lotwVars
<1>7. /\ CacheFresh' /\ UserUnique' /\ Range(user') \subseteq Range(user)
      /\ BackupHasKey' /\ TornStays /\ Sources'
      /\ e.serial = 0 => user' = user
      /\ end = "done" => /\ StillListed({e.key})
                         /\ e.serial # 0 => user' = Others(user, e)
  BY <1>0, <1>4, <1>6, DeleteEffect, PhaseValues
<1>8. work'[p] = IF end = "done" THEN Rest(p) ELSE Start
  BY <1>0, <1>6, EndOfNext
<1>9. CASE end # "done"
  <2>1. work'[p].phase \notin Rests
    BY <1>8, <1>9, PhaseValues
  <2> QED
    BY <1>7, <2>1, NotAtRest DEF Held
<1>10. CASE end = "done"
  <2>1. e.serial # 0 => Range(user') = {x \in Range(user) : x.serial # e.serial}
    <3>1. Range(Others(user, e)) = {x \in Range(user) : x.serial # e.serial}
      BY <1>0, OthersLists
    <3> QED
      BY <1>7, <1>10, <3>1 DEF Range
  <2>2. \A x \in Range(user') : x \in Range(user) /\ x.key # e.key
    <3>1. CASE e.serial = 0
      BY <1>4, <1>7, <3>1
    <3>2. CASE e.serial # 0
      <4>1. Range(user) \subseteq issued /\ e \in Range(user)
        BY <1>4, <3>2 DEF Held, Sources
      <4>2. \A x \in Range(user) : x.key = e.key => x = e
        BY <4>1 DEF Issues
      <4> QED
        BY <2>1, <3>2, <4>2
    <3> QED
      BY <3>1, <3>2
  <2>3. KeysListed'
    BY <1>0, <1>7, <1>10, <2>2, ListedKept, PhaseValues DEF Held
  <2>4. \A x \in Range(user) : x \in Range(user') \/ (e.serial # 0 /\ x.serial = e.serial)
    <3>1. CASE e.serial = 0
      <4>1. Range(user') = Range(user)
        BY <1>7, <3>1 DEF Range
      <4> QED
        BY <4>1
    <3>2. CASE e.serial # 0
      BY <2>1, <3>2
    <3> QED
      BY <3>1, <3>2
  <2>5. Todo'
    BY <1>0, <1>5, <1>7, <1>8, <1>10, <2>4, TodoRest DEF Held
  <2> QED
    BY <1>7, <2>3, <2>5 DEF Held
<1> QED
  BY <1>9, <1>10

\* The user deletes an entry of the list.
LEMMA OnCertDeleteKeeps ==
  ASSUME NEW p, Single(p), Sound, Held, NEW e \in Listed(p), NEW end \in Ends,
         OnCertDelete(p, e, end)
  PROVE  Held'
<1>0. /\ p \in Copies /\ WorkTypes /\ Loaded(p) = user /\ work[p] = Idle
      /\ KeyTypes /\ ListTypes
  BY SeesUser DEF Single, Sound, Types, Held, OnCertDelete
<1>1. e \in Entries /\ (e.serial # 0 => e \in Range(user))
  BY <1>0, ListedEntries DEF Request0
<1>2. /\ DeleteCertificate(p, e, end) /\ EndOf(p, end, Build)
      /\ UNCHANGED <<containers, issued>>
  BY DEF OnCertDelete, lotwVars
<1>3. CacheFresh' /\ UserUnique' /\ BackupHasKey' /\ Sources'
  BY <1>0, <1>1, <1>2, DeleteEffect, PhaseValues
<1>4. work'[p] \in {Build, Start}
  BY <1>0, <1>2, EndOfNext
<1>5. KeysListed' /\ Todo'
  BY <1>4, NotAtRest, PhaseValues
<1> QED
  BY <1>3, <1>5 DEF Held

\* The user restores what a deletion took away.
LEMMA OnCertUndeleteKeeps ==
  ASSUME NEW p, Single(p), Sound, Issues, Held, NEW c \in Calls, NEW end \in Ends,
         OnCertUndelete(p, c, end)
  PROVE  Held'
<1>0. /\ p \in Copies /\ WorkTypes /\ Loaded(p) = user
      /\ KeyTypes /\ ListTypes /\ user \in Seq(Entries)
  BY SeesUser DEF Single, Sound, Types, Held, ListTypes
<1>1. PICK t \in Backups : t = trash[c]
  BY <1>0 DEF OnCertUndelete, BackupList, ListTypes
<1>2. PICK e \in Entries : e = t.entry
  BY DEF Backups
<1>3. e.call = c /\ e.key \in Keys /\ t.key \in Keys \cup {0} /\ Genuine(e)
  BY <1>1, <1>2, NullAssumption DEF Backups, Entries, Held, Sources
<1>4. /\ ImportKeyPair(p, t, end) /\ EndOf(p, end, Build)
      /\ trash' = [trash EXCEPT ![c] = IF end = "done" THEN Null ELSE @]
      /\ UNCHANGED <<containers, issued>>
  BY <1>1 DEF OnCertUndelete, RestoreCallsignCertificate, lotwVars
<1>5. TornStays
  <2>1. CASE UNCHANGED keyVars
    BY <2>1 DEF keyVars, TornStays
  <2>2. CASE ~UNCHANGED keyVars
    <3>1. PICK old \in Seq(KeyRecs) : old = ReadKeys(keys[c])
      BY <1>0, ReadKeysType DEF KeyTypes
    <3>2. PICK recs : recs = Replaced(old, t.key, TRUE)
      OBVIOUS
    <3>3. t.key \in Keys /\ Swap(c, recs, end)
      BY <1>2, <1>3, <1>4, <2>2, <3>1, <3>2 DEF ImportKeyPair
    <3>4. recs \in Seq(KeyRecs)
      BY <3>2, <3>3, ReplacedKeeps
    <3> QED
      BY <1>0, <3>3, <3>4, SwapLists
  <2> QED
    BY <2>1, <2>2
<1>6. CacheFresh' /\ UserUnique' /\ Range(user') \subseteq issued
  <2>1. CASE e.serial = 0 \/ end # "done"
    <3>1. UNCHANGED <<user, xcerts>>
      BY <1>2, <1>4, <2>1 DEF ImportKeyPair, userVars
    <3> QED
      BY <1>0, <3>1, CacheKept DEF Held, UserUnique, Sources, Range
  <2>2. CASE e.serial # 0 /\ end = "done"
    <3>1. StoreCert(p, e, StoreOutcome(e, TRUE))
      BY <1>2, <1>4, <2>2 DEF ImportKeyPair
    <3>2. CacheFresh' /\ UserUnique' /\ Range(user') \subseteq Range(user) \cup {e}
      BY <1>0, <3>1, StoreEffect DEF Held
    <3> QED
      BY <1>3, <2>2, <3>2 DEF Genuine, Held, Sources
  <2> QED
    BY <2>1, <2>2
<1>7. \A d \in Calls : trash'[d] \in {trash[d], Null}
  BY <1>0, <1>4 DEF ListTypes
<1>8. BackupHasKey'
  BY <1>5, <1>7, BackupKept DEF Held
<1>9. \A x \in containers' : Genuine(x)
  BY <1>4 DEF Held, Sources
<1>10. Sources'
  BY <1>4, <1>6, <1>7, <1>9, SourcesKept DEF Held
<1>11. work'[p] \in {Build, Start}
  BY <1>0, <1>4, EndOfNext
<1>12. KeysListed' /\ Todo'
  BY <1>11, NotAtRest, PhaseValues
<1> QED
  BY <1>6, <1>8, <1>10, <1>12 DEF Held

\* Saving an entry with its key.
LEMMA OnCertExportKeeps ==
  ASSUME NEW p, Single(p), Sound, Held, NEW e \in Listed(p), OnCertExport(p, e)
  PROVE  Held'
<1>0. /\ p \in Copies /\ WorkTypes /\ Loaded(p) = user /\ work[p] = Idle
      /\ KeyTypes /\ ListTypes
  BY SeesUser DEF Single, Sound, Types, Held, OnCertExport
<1>1. e \in Entries /\ e.call \in Calls /\ (e.serial # 0 => e \in Range(user))
  BY <1>0, ListedEntries DEF Request0
<1>2. Genuine(e)
  BY <1>1 DEF Genuine, Held, Sources
<1>3. /\ FindMatchingKey(e.call, e.key, "done") /\ containers' = containers \cup {e}
      /\ UNCHANGED <<user, trash, xcerts, work, issued>>
  BY DEF OnCertExport, ExportPKCS12, userVars, lotwVars
<1>4. TornStays /\ StillListed({})
  BY <1>0, <1>1, <1>3, FindLists DEF Ends
<1>5. CacheFresh'
  BY <1>0, <1>3, CacheKept DEF Held
<1>6. UserUnique' /\ Range(user') = Range(user) /\ Range(user) \subseteq issued
  BY <1>3 DEF Held, UserUnique, Sources, Range
<1>7. \A x \in containers' : Genuine(x)
  BY <1>2, <1>3 DEF Held, Sources
<1>8. Sources'
  BY <1>3, <1>6, <1>7, SourcesKept DEF Held
<1>9. BackupHasKey'
  BY <1>3, <1>4, BackupKept DEF Held
<1>10. KeysListed'
  BY <1>0, <1>4, <1>6, ListedKept, PhaseValues DEF Held
<1>11. Todo'
  BY <1>3, TodoSame DEF Held
<1> QED
  BY <1>5, <1>6, <1>8, <1>9, <1>10, <1>11 DEF Held

\* Loading a .tq6 file: its certificate is stored only with its key, which is
\* then listed.
LEMMA LoadTQ6Keeps ==
  ASSUME NEW p, Single(p), Sound, Held, NEW e \in issued, NEW end \in {"done", "keysTorn"},
         LoadTQ6(p, e, end)
  PROVE  Held'
<1>0. /\ p \in Copies /\ WorkTypes /\ work[p] = Idle /\ KeyTypes /\ ListTypes
      /\ e \in Entries /\ end \in Ends
  BY DEF Single, Sound, Types, LotwTypes, LoadTQ6, Ends
<1>1. e.call \in Calls
  BY <1>0 DEF Entries
<1>2. /\ FindMatchingKey(e.call, e.key, end) /\ EndOf(p, end, AfterImport(e))
      /\ UNCHANGED <<trash, containers, issued>>
  BY DEF LoadTQ6, ImportTQSLFile, HandleUserCert, lotwVars
<1>3. \/ HasKey(e) /\ end = "done" /\ StoreCert(p, e, StoreOutcome(e, FALSE))
      \/ /\ ~(HasKey(e) /\ end = "done")
         /\ user' = user /\ xcerts' \in {xcerts, Freed(p)}
  BY DEF LoadTQ6, ImportTQSLFile, HandleUserCert, userVars
<1>4. TornStays /\ (end = "done" => /\ StillListed({})
                                    /\ HasKey(e) => KeyListed(ReadKeys(keys'[e.call]), e.key))
  BY <1>0, <1>1, <1>2, FindLists DEF HasKey
<1>5. /\ CacheFresh' /\ UserUnique'
      /\ \A x \in Range(user') : x \in Range(user) \/ (x = e /\ HasKey(e) /\ end = "done")
  <2>1. CASE HasKey(e) /\ end = "done" /\ StoreCert(p, e, StoreOutcome(e, FALSE))
    <3>1. CacheFresh' /\ UserUnique' /\ Range(user') \subseteq Range(user) \cup {e}
      BY <1>0, <2>1, StoreEffect DEF Held
    <3> QED
      BY <2>1, <3>1
  <2>2. CASE user' = user /\ xcerts' \in {xcerts, Freed(p)}
    BY <1>0, <2>2, CacheKept DEF Held, UserUnique, Range
  <2> QED
    BY <1>3, <2>1, <2>2
<1>6. Range(user') \subseteq issued /\ \A x \in containers' : Genuine(x)
  BY <1>2, <1>5 DEF Held, Sources
<1>7. Sources'
  BY <1>2, <1>6, SourcesKept DEF Held
<1>8. BackupHasKey'
  BY <1>2, <1>4, BackupKept DEF Held
<1>9. work'[p] = IF end = "done" THEN AfterImport(e) ELSE Start
  BY <1>0, <1>2, EndOfNext
<1>10. work'[p].phase # "deleting"
  BY <1>9, PhaseValues DEF AfterImport
<1>11. Todo'
  BY <1>10, NoTodo
<1>12. KeysListed'
  <2>1. CASE end = "done"
    <3>1. \A x \in Range(user') : \/ x \in Range(user) /\ x.key \notin {}
                                  \/ KeyListed(ReadKeys(keys'[x.call]), x.key)
      BY <1>4, <1>5, <2>1
    <3> QED
      BY <1>0, <1>4, <2>1, <3>1, ListedKept, PhaseValues DEF Held
  <2>2. CASE end # "done"
    BY <1>9, <2>2, NotAtRest, PhaseValues
  <2> QED
    BY <2>1, <2>2
<1> QED
  BY <1>5, <1>7, <1>8, <1>11, <1>12 DEF Held

\* Loading a container: its key goes to the key file first.
LEMMA LoadP12Keeps ==
  ASSUME NEW p, Single(p), Sound, Held, NEW e \in containers, LoadP12(p, e)
  PROVE  Held'
<1>0. /\ p \in Copies /\ WorkTypes /\ work[p] = Idle /\ KeyTypes /\ ListTypes
      /\ e \in Entries /\ Genuine(e)
  BY DEF Single, Sound, Types, ListTypes, LoadP12, Held, Sources
<1>1. e.call \in Calls /\ e.key \in Keys
  BY <1>0 DEF Entries
<1>2. PICK o : o = IF e.serial = 0 THEN "none" ELSE StoreOutcome(e, FALSE)
  OBVIOUS
<1>3. PICK old \in Seq(KeyRecs) : old = ReadKeys(keys[e.call])
  BY <1>0, <1>1, ReadKeysType DEF KeyTypes
<1>4. PICK recs : recs = Replaced(old, e.key, TRUE)
  OBVIOUS
<1>5. /\ recs \in Seq(KeyRecs) /\ KeyListed(recs, e.key)
      /\ \A x : KeyListed(old, x) => KeyListed(recs, x)
  BY <1>1, <1>3, <1>4, ReplacedKeeps, ZenonT(60)
<1>6. /\ UNCHANGED <<trash, containers, issued>>
      /\ keys' = [keys EXCEPT ![e.call] = IF o = "newer" /\ keys[e.call] # Null THEN @ ELSE recs]
      /\ torn' = [torn EXCEPT ![e.call] = IF @ = "torn" THEN "over" ELSE @]
      /\ IF e.serial = 0 THEN UNCHANGED <<userVars, xcerts>> ELSE StoreCert(p, e, o)
      /\ work' = [work EXCEPT ![p] = IF e.serial = 0 THEN Build ELSE Cleanup(e.call, e.serial)]
  BY <1>2, <1>3, <1>4 DEF LoadP12, lotwVars
<1>7. TornStays
  <2>1. torn'[e.call] = "no" => torn[e.call] = "no"
    BY <1>0, <1>1, <1>6 DEF KeyTypes
  <2>2. \A d \in Calls \ {e.call} : torn'[d] = torn[d]
    BY <1>0, <1>6 DEF KeyTypes
  <2> QED
    BY <2>1, <2>2 DEF TornStays
<1>8. /\ \A d \in Calls \ {e.call} : keys'[d] = keys[d]
      /\ (keys'[e.call] = keys[e.call] /\ o = "newer") \/ keys'[e.call] = recs
  BY <1>0, <1>1, <1>6 DEF KeyTypes
<1>9. ReadKeys(recs) = recs
  BY <1>5, ReadKeysType
<1>10. StillListed({}) /\ (o # "newer" => KeyListed(ReadKeys(keys'[e.call]), e.key))
  BY <1>3, <1>5, <1>8, <1>9 DEF StillListed
<1>11. /\ CacheFresh' /\ UserUnique'
       /\ \A x \in Range(user') : x \in Range(user) \/ (x = e /\ o # "newer" /\ e.serial # 0)
  <2>1. CASE e.serial = 0
    <3>1. UNCHANGED <<user, xcerts>>
      BY <1>6, <2>1 DEF userVars
    <3> QED
      BY <1>0, <3>1, CacheKept DEF Held, UserUnique, Range
  <2>2. CASE e.serial # 0
    <3>1. StoreCert(p, e, StoreOutcome(e, FALSE))
      BY <1>2, <1>6, <2>2
    <3>2. CacheFresh' /\ UserUnique' /\ Range(user') \subseteq Range(user) \cup {e}
      BY <1>0, <3>1, StoreEffect DEF Held
    <3>3. o = "newer" => user' = user
      BY <1>6, <2>2 DEF StoreCert
    <3> QED
      BY <2>2, <3>2, <3>3 DEF Range
  <2> QED
    BY <2>1, <2>2
<1>12. Range(user') \subseteq issued /\ \A x \in containers' : Genuine(x)
  BY <1>0, <1>6, <1>11 DEF Held, Sources, Genuine
<1>13. Sources'
  BY <1>6, <1>12, SourcesKept DEF Held
<1>14. BackupHasKey'
  BY <1>6, <1>7, BackupKept DEF Held
<1>15. work'[p] = IF e.serial = 0 THEN Build ELSE Cleanup(e.call, e.serial)
  BY <1>0, <1>6 DEF WorkTypes
<1>16. work'[p].phase # "deleting"
  BY <1>15, PhaseValues
<1>17. Todo'
  BY <1>16, NoTodo
<1>18. \A x \in Range(user') : \/ x \in Range(user) /\ x.key \notin {}
                               \/ KeyListed(ReadKeys(keys'[x.call]), x.key)
  BY <1>10, <1>11
<1>19. KeysListed'
  BY <1>0, <1>7, <1>10, <1>18, ListedKept, PhaseValues DEF Held
<1> QED
  BY <1>11, <1>13, <1>14, <1>17, <1>19 DEF Held

\* Requests: a key file gets a record, or deleteRequest marks a request's key.
LEMMA RequestKeeps ==
  ASSUME NEW p, Single(p), Sound, Held, Request(p)
  PROVE  Held'
<1>0. /\ p \in Copies /\ WorkTypes /\ KeyTypes /\ ListTypes
  BY DEF Single, Sound, Types
<1>1. PICK c \in Calls, repl \in Serials :
         \/ RequestSent(p, c, repl)
         \/ RequestAbandoned(p, c, repl)
         \/ \E unread \in BOOLEAN : RequestUploadFails(p, c, repl, unread)
  BY DEF Request
<1>2. PICK old \in Seq(KeyRecs) : old = ReadKeys(keys[c])
  BY <1>0, ReadKeysType DEF KeyTypes
<1>3. CASE RequestSent(p, c, repl)
  <2>1. /\ UNCHANGED <<user, trash, containers, torn, issued>>
        /\ xcerts' = Cached(p) /\ work' = [work EXCEPT ![p] = Build]
    BY <1>3 DEF RequestSent, userVars
  <2>2. CacheFresh'
    BY <1>0, <2>1, CacheKept DEF Held
  <2>3. /\ UserUnique' /\ Range(user') \subseteq issued
        /\ \A x \in containers' : Genuine(x)
    BY <2>1 DEF Held, UserUnique, Sources, Range
  <2>4. Sources'
    BY <2>1, <2>3, SourcesKept DEF Held
  <2>5. BackupHasKey'
    BY <2>1 DEF Held, BackupHasKey
  <2>6. work'[p] = Build
    BY <1>0, <2>1 DEF WorkTypes
  <2>7. KeysListed' /\ Todo'
    BY <2>6, NotAtRest, PhaseValues
  <2> QED
    BY <2>2, <2>3, <2>4, <2>5, <2>7 DEF Held
<1>4. CASE RequestAbandoned(p, c, repl)
  <2>1. /\ DeleteRequest(p, c, old) /\ UNCHANGED <<user, containers, issued, work>>
        /\ work[p] = Idle
    BY <1>2, <1>4 DEF RequestAbandoned, userVars, lotwVars
  <2>2. /\ CacheFresh' /\ UserUnique' /\ BackupHasKey' /\ Sources' /\ TornStays
        /\ \E K : StillListed(K) /\ \A e \in Range(user') : e \in Range(user) /\ e.key \notin K
    BY <1>2, <2>1, DeleteRequestEffect
  <2>3. PICK K : StillListed(K) /\ \A e \in Range(user') : e \in Range(user) /\ e.key \notin K
    BY <2>2
  <2>4. KeysListed'
    BY <2>1, <2>2, <2>3, ListedKept, PhaseValues DEF Held
  <2>5. Todo'
    BY <2>1, TodoSame DEF Held
  <2> QED
    BY <2>2, <2>4, <2>5 DEF Held
<1>5. ASSUME NEW unread \in BOOLEAN, RequestUploadFails(p, c, repl, unread)
      PROVE  Held'
  <2>1. PICK k \in Keys : k = NextKey
    BY <1>5 DEF RequestUploadFails
  <2>2. PICK recs : recs = Append(old, [key |-> k, del |-> FALSE])
    OBVIOUS
  <2>3. recs \in Seq(KeyRecs) /\ \A x : KeyListed(old, x) => KeyListed(recs, x)
    BY <2>2, AppendKeeps
  <2>4. /\ DeleteRequest(p, c, recs) /\ UNCHANGED <<user, containers, issued>>
        /\ work' = [work EXCEPT ![p] = Build]
    BY <1>2, <1>5, <2>1, <2>2 DEF RequestUploadFails, NewKeyFile, userVars, lotwVars
  <2>5. CacheFresh' /\ UserUnique' /\ BackupHasKey' /\ Sources'
    BY <1>2, <2>3, <2>4, DeleteRequestEffect
  <2>6. work'[p] = Build
    BY <1>0, <2>4 DEF WorkTypes
  <2>7. KeysListed' /\ Todo'
    BY <2>6, NotAtRest, PhaseValues
  <2> QED
    BY <2>5, <2>7 DEF Held
<1> QED
  BY <1>1, <1>3, <1>4, <1>5

\* CertTree::Build unlocks a marked key.
LEMMA BuildFindsKeyKeeps ==
  ASSUME NEW p, Single(p), Sound, Held, NEW e \in Range(Loaded(p)), NEW end \in Ends,
         BuildFindsKey(p, e, end)
  PROVE  Held'
<1>0. /\ p \in Copies /\ WorkTypes /\ KeyTypes /\ ListTypes /\ work[p] \in {Build, Start}
      /\ Loaded(p) \in Seq(Entries)
  BY LoadedType DEF Single, Sound, Types, BuildFindsKey
<1>a. e \in Entries
  BY <1>0 DEF Range
<1>1. e.call \in Calls
  BY <1>a DEF Entries
<1>2. /\ FindMatchingKey(e.call, e.key, end) /\ EndOf(p, end, work[p])
      /\ xcerts' \in {Cached(p), Freed(p)}
      /\ UNCHANGED <<user, trash, containers, issued>>
  BY DEF BuildFindsKey, GetPrivateKeyType, userVars, lotwVars
<1>3. TornStays
  BY <1>0, <1>1, <1>2, FindLists
<1>4. CacheFresh'
  BY <1>0, <1>2, CacheKept DEF Held
<1>5. /\ UserUnique' /\ Range(user') \subseteq issued
      /\ \A x \in containers' : Genuine(x)
  BY <1>2 DEF Held, UserUnique, Sources, Range
<1>6. Sources'
  BY <1>2, <1>5, SourcesKept DEF Held
<1>7. BackupHasKey'
  BY <1>2, <1>3, BackupKept DEF Held
<1>8. work'[p] \in {Build, Start}
  BY <1>0, <1>2, EndOfNext
<1>9. KeysListed' /\ Todo'
  BY <1>8, NotAtRest, PhaseValues
<1> QED
  BY <1>4, <1>5, <1>6, <1>7, <1>9 DEF Held

\* When CertTree::Build ends, every installed certificate's key is listed: it
\* is in the key file, and no mark was left on it.
LEMMA BuildEndsKeeps ==
  ASSUME NEW p, Single(p), Sound, Issues, Held, BuildEnds(p)
  PROVE  Held'
<1>0. /\ p \in Copies /\ WorkTypes /\ KeyTypes /\ ListTypes /\ Loaded(p) = user
  BY SeesUser DEF Single, Sound, Types, Held
<1>1. /\ UNCHANGED <<user, trash, containers, keys, torn, issued>>
      /\ xcerts' = Cached(p) /\ work' = [work EXCEPT ![p] = Idle]
      /\ \A e \in Range(user) : ~MustUndelete(e.call, e.key)
  BY <1>0 DEF BuildEnds, keyVars, userVars, lotwVars
<1>2. work'[p] = Idle
  BY <1>0, <1>1 DEF WorkTypes
<1>3. Todo'
  BY <1>2, NoTodo, PhaseValues
<1>4. ASSUME NEW e \in Range(user), torn[e.call] = "no"
      PROVE  KeyListed(ReadKeys(keys[e.call]), e.key)
  <2>1. e \in issued /\ e.key \in made[e.call]
    BY DEF Held, Sources, Issues
  <2>2. e.call \in Calls
    BY <2>1 DEF Sound, Types, LotwTypes, Entries
  <2>3. KeyExists(ReadKeys(keys[e.call]), e.key)
    BY <1>4, <2>1, <2>2 DEF Sound, KeysKept
  <2> QED
    BY <1>1, <2>3 DEF MustUndelete
<1>5. KeysListed'
  <2>1. Range(user') = Range(user)
    BY <1>1 DEF Range
  <2> QED
    BY <1>1, <1>4, <2>1 DEF KeysListed
<1>6. CacheFresh'
  BY <1>0, <1>1, CacheKept DEF Held
<1>7. /\ UserUnique' /\ Range(user') \subseteq issued
      /\ \A x \in containers' : Genuine(x)
  BY <1>1 DEF Held, UserUnique, Sources, Range
<1>8. Sources'
  BY <1>1, <1>7, SourcesKept DEF Held
<1>9. BackupHasKey'
  BY <1>1 DEF Held, BackupHasKey
<1> QED
  BY <1>3, <1>5, <1>6, <1>7, <1>8, <1>9 DEF Held

\* Every step keeps what the store holds in order.
LEMMA HeldStep ==
  ASSUME NEW p, Single(p), Sound, Issues, Held, [Next]_vars, issued \subseteq issued'
  PROVE  Held'
<1>0. p \in Copies /\ WorkTypes /\ Todo
  BY DEF Single, Sound, Types, Held
<1>1. ASSUME UNCHANGED <<user, trash, containers, keys, torn, xcerts, work>> PROVE Held'
  BY <1>0, <1>1, TodoSame, QuietKeeps
<1>2. CASE UNCHANGED vars
  BY <1>1, <1>2 DEF vars, keyVars, userVars
<1>3. ASSUME NEW r \in requests, Issue(r) PROVE Held'
  BY <1>1, <1>3 DEF Issue, keyVars, userVars
<1>4. ASSUME NEW s \in Keys, Expire(s) PROVE Held'
  BY <1>1, <1>4 DEF Expire, keyVars, userVars
<1>5. CASE Load(p)
  <2>1. ASSUME NEW flaw \in P12Flaws, LoadP12Refused(p, flaw) PROVE Held'
    <3>1. UNCHANGED <<user, trash, containers, keys, torn, xcerts>> /\ work'[p] = Build
      BY <1>0, <2>1 DEF LoadP12Refused, keyVars, userVars, WorkTypes
    <3> QED
      BY <3>1, NotAtRest, QuietKeeps, PhaseValues
  <2> QED
    BY <1>5, <2>1, LoadTQ6Keeps, LoadP12Keeps, CleanupListKeeps, CleanupDeleteKeeps,
      CleanupKeepKeeps, BuildFindsKeyKeeps, BuildEndsKeeps DEF Load
<1>6. CASE Command(p)
  <2>1. ASSUME NEW e \in Range(Loaded(p)), CheckCertStatus(p, e) PROVE Held'
    BY <1>1, <2>1 DEF CheckCertStatus, keyVars, userVars
  <2>2. ASSUME Exit(p) PROVE Held'
    <3>1. /\ UNCHANGED <<user, trash, containers, keys, torn>> /\ xcerts' = Freed(p)
          /\ work'[p] = Start
      BY <1>0, <2>2 DEF Exit, keyVars, userVars, WorkTypes
    <3> QED
      BY <3>1, NotAtRest, QuietKeeps, PhaseValues
  <2> QED
    BY <1>6, <2>1, <2>2, OnCertDeleteKeeps, OnCertUndeleteKeeps, OnCertExportKeeps DEF Command
<1> QED
  BY <1>2, <1>3, <1>4, <1>5, <1>6, RequestKeeps DEF Next, Lotw, Single

-----------------------------------------------------------------------------
(* Invariants of one copy.                                                  *)

Orderly == Sound /\ Issues /\ Held

LEMMA OrderlyAlways ==
  ASSUME NEW p, Copies = {p}
  PROVE  Spec => []Orderly
<1>0. Single(p)
  BY DEF Single
<1>1. Init => Issues /\ Held
  <2> SUFFICES ASSUME Init PROVE Issues /\ Held
    OBVIOUS
  <2>1. Issues /\ CacheFresh /\ BackupHasKey
    BY DEF Init, Issues, CacheFresh, BackupHasKey
  <2>2. user = << >> /\ containers = {} /\ work[p] = Start
    BY DEF Init
  <2>3. DOMAIN user = {} /\ Range(user) = {}
    BY <2>2 DEF Range
  <2>4. UserUnique
    BY <2>3 DEF UserUnique
  <2>5. Sources
    BY <2>2, <2>3 DEF Init, Sources
  <2>6. KeysListed /\ Todo
    BY <2>2, PhaseValues DEF KeysListed, Todo, Rests
  <2> QED
    BY <2>1, <2>4, <2>5, <2>6 DEF Held
<1>2. Orderly /\ [Next]_vars /\ Sound' => Orderly'
  <2> SUFFICES ASSUME Orderly, [Next]_vars, Sound' PROVE Orderly'
    OBVIOUS
  <2>1. Issues' /\ issued \subseteq issued'
    BY <1>0, IssuesStep DEF Orderly, Held
  <2>2. Held'
    BY <1>0, <2>1, HeldStep DEF Orderly
  <2> QED
    BY <2>1, <2>2 DEF Orderly
<1>3. Sound /\ Issues /\ Held <=> Orderly
  BY DEF Orderly
<1>4. Types /\ KeysKept <=> Sound
  BY DEF Sound
<1> QED
  BY <1>1, <1>2, <1>3, <1>4, NoKeyLost, PTL DEF Spec

\* A copy that runs alone never works from an old list: what it has cached of
\* certs/user is what the file holds, so the file that a deletion writes from
\* the cache undoes no import.
THEOREM NeverStale ==
  ASSUME NEW p, Copies = {p}
  PROVE  Spec => []CacheFresh
<1>1. Orderly => CacheFresh
  BY DEF Orderly, Held
<1> QED
  BY <1>1, OrderlyAlways, PTL

\* With one copy, no certificate is ever installed twice, and whenever the
\* window waits for the user each installed certificate's key is listed, so
\* that it can sign: whatever was requested, deleted, restored, loaded or
\* cleaned up before, and in whatever order.
THEOREM AllUsable ==
  ASSUME NEW p, Copies = {p}
  PROVE  Spec => []InstalledUsable
<1>1. Orderly => InstalledUsable
  <2> SUFFICES ASSUME Orderly PROVE InstalledUsable
    OBVIOUS
  <2>1. UserUnique /\ KeysListed
    BY DEF Orderly, Held
  <2> QED
    BY <2>1, PhaseValues DEF InstalledUsable, UserUnique, KeysListed
<1> QED
  BY <1>1, OrderlyAlways, PTL

\* With one copy, a backup that a deletion left carries the private key, but
\* where a key file was torn before: tqsl_backup_cert, which does not look
\* whether it got the key, has always got it.
THEOREM BackupsComplete ==
  ASSUME NEW p, Copies = {p}
  PROVE  Spec => []BackupHasKey
<1>1. Orderly => BackupHasKey
  BY DEF Orderly, Held
<1> QED
  BY <1>1, OrderlyAlways, PTL

-----------------------------------------------------------------------------
(* What a step does to certs/user, when it completes.                       *)

\* No key file is torn.
WholeStays == \A d \in Calls : torn[d] = "no" => torn'[d] = "no"

\* The three things a step that is not a crash can do to certs/user: nothing,
\* store a certificate of LoTW, or delete one, which goes into the trash, and
\* which the user chose or the clean-up found superseded or expired.
Untouched == user' = user
Installs(p) == \E e \in issued, force \in BOOLEAN : StoreCert(p, e, StoreOutcome(e, force))
Removes(p) ==
    \E e \in Range(user) :
        /\ user' = Others(user, e)
        /\ trash'[e.call] # Null /\ trash'[e.call].entry = e
        /\ \/ work[p] = Idle /\ OnCertDelete(p, e, "done")
           \/ IsSuperceded(p, e) \/ IsExpired(e)

Kinds(p) ==
    /\ crashes' \in Nat
    /\ crashes' = crashes => WholeStays /\ (Untouched \/ Installs(p) \/ Removes(p))

LEMMA EndOfCrash ==
  ASSUME crashes \in Nat, NEW p, NEW end, NEW next, EndOf(p, end, next)
  PROVE  crashes' \in Nat /\ (crashes' = crashes => end = "done")
<1>1. CASE end = "done"
  BY <1>1 DEF EndOf
<1>2. CASE end # "done"
  BY <1>2 DEF EndOf
<1> QED
  BY <1>1, <1>2

LEMMA SwapWhole ==
  ASSUME KeyTypes, NEW c \in Calls, NEW recs, Swap(c, recs, "done")
  PROVE  WholeStays
<1>1. \A d \in Calls : d # c => torn'[d] = torn[d]
  BY DEF Swap, KeyTypes
<1>2. torn'[c] = CASE torn[c] = "torn" -> "over"
                   [] torn[c] = "no" /\ "done" = "keysTorn" /\ keys[c] # Null -> "torn"
                   [] OTHER -> torn[c]
  BY DEF Swap, KeyTypes
<1>3. torn[c] = "no" => torn'[c] = "no"
  BY <1>2
<1> QED
  BY <1>1, <1>3 DEF WholeStays

LEMMA FindWhole ==
  ASSUME KeyTypes, NEW c \in Calls, NEW k, FindMatchingKey(c, k, "done")
  PROVE  WholeStays
<1>1. CASE MustUndelete(c, k)
  BY <1>1, SwapWhole DEF FindMatchingKey
<1>2. CASE ~MustUndelete(c, k)
  BY <1>2 DEF FindMatchingKey, keyVars, WholeStays
<1> QED
  BY <1>1, <1>2

\* The rewrite of a key file that was torn before.
LEMMA OverWhole ==
  ASSUME KeyTypes, NEW c \in Calls,
         \/ torn' = [torn EXCEPT ![c] = IF @ = "torn" THEN "over" ELSE @]
         \/ torn' = torn
  PROVE  WholeStays
<1>1. CASE torn' = torn
  BY <1>1 DEF WholeStays
<1>2. CASE torn' = [torn EXCEPT ![c] = IF @ = "torn" THEN "over" ELSE @]
  <2>1. torn[c] = "no" => torn'[c] = "no"
    BY <1>2 DEF KeyTypes
  <2>2. \A d \in Calls : d # c => torn'[d] = torn[d]
    BY <1>2 DEF KeyTypes
  <2> QED
    BY <2>1, <2>2 DEF WholeStays
<1> QED
  BY <1>1, <1>2

LEMMA RequestKinds ==
  ASSUME NEW p, Single(p), Orderly, crashes \in Nat, Request(p)
  PROVE  Kinds(p)
<1>0. KeyTypes
  BY DEF Orderly, Sound, Types
<1>1. PICK c \in Calls, repl \in Serials :
         \/ RequestSent(p, c, repl)
         \/ RequestAbandoned(p, c, repl)
         \/ \E unread \in BOOLEAN : RequestUploadFails(p, c, repl, unread)
  BY DEF Request
<1>2. UNCHANGED <<user, crashes>>
  BY <1>1 DEF RequestSent, RequestAbandoned, RequestUploadFails, userVars, boundVars
<1>3. \/ torn' = [torn EXCEPT ![c] = IF @ = "torn" THEN "over" ELSE @]
      \/ torn' = torn
  <2>1. CASE RequestSent(p, c, repl)
    BY <2>1 DEF RequestSent
  <2>2. ASSUME NEW recs, DeleteRequest(p, c, recs)
        PROVE  \/ torn' = [torn EXCEPT ![c] = IF @ = "torn" THEN "over" ELSE @]
               \/ torn' = torn
    <3>1. CASE KeyOnly(p, c, recs) = << >>
      BY <2>2, <3>1 DEF DeleteRequest
    <3>2. CASE KeyOnly(p, c, recs) # << >>
      BY <2>2, <3>2 DEF DeleteRequest
    <3> QED
      BY <3>1, <3>2
  <2> QED
    BY <1>1, <2>1, <2>2 DEF RequestAbandoned, RequestUploadFails
<1> QED
  BY <1>0, <1>2, <1>3, OverWhole DEF Kinds, Untouched

LEMMA LoadTQ6Kinds ==
  ASSUME NEW p, Single(p), Orderly, crashes \in Nat, NEW e \in issued,
         NEW end \in {"done", "keysTorn"}, LoadTQ6(p, e, end)
  PROVE  Kinds(p)
<1>0. KeyTypes /\ e.call \in Calls
  BY DEF Orderly, Sound, Types, LotwTypes, Entries
<1>1. FindMatchingKey(e.call, e.key, end) /\ EndOf(p, end, AfterImport(e))
  BY DEF LoadTQ6, ImportTQSLFile, HandleUserCert
<1>2. user' = user \/ StoreCert(p, e, StoreOutcome(e, FALSE))
  BY DEF LoadTQ6, ImportTQSLFile, HandleUserCert, userVars
<1>3. Untouched \/ Installs(p)
  BY <1>2 DEF Untouched, Installs
<1>4. crashes' \in Nat /\ (crashes' = crashes => end = "done")
  BY <1>1, EndOfCrash
<1>5. end = "done" => WholeStays
  BY <1>0, <1>1, FindWhole
<1> QED
  BY <1>3, <1>4, <1>5 DEF Kinds

LEMMA LoadP12Kinds ==
  ASSUME NEW p, Single(p), Orderly, crashes \in Nat, NEW e \in containers, LoadP12(p, e)
  PROVE  Kinds(p)
<1>0. KeyTypes /\ e.call \in Calls /\ Genuine(e)
  BY DEF Orderly, Sound, Types, ListTypes, Entries, Held, Sources
<1>1. /\ torn' = [torn EXCEPT ![e.call] = IF @ = "torn" THEN "over" ELSE @]
      /\ UNCHANGED crashes
  BY DEF LoadP12
<1>2. user' = user \/ (e.serial # 0 /\ StoreCert(p, e, StoreOutcome(e, FALSE)))
  BY DEF LoadP12, userVars
<1>3. Untouched \/ Installs(p)
  BY <1>0, <1>2 DEF Untouched, Installs, Genuine
<1> QED
  BY <1>0, <1>1, <1>3, OverWhole DEF Kinds

\* A deletion that completes.
LEMMA DeleteKinds ==
  ASSUME NEW p, Single(p), Orderly, crashes \in Nat, NEW e \in Entries, NEW end \in Ends,
         DeleteCertificate(p, e, end), NEW next, EndOf(p, end, next),
         work[p].phase \in Rests, e.serial # 0 => e \in Range(user),
         e.serial # 0 /\ end = "done" =>
            \/ work[p] = Idle /\ OnCertDelete(p, e, "done")
            \/ IsSuperceded(p, e) \/ IsExpired(e)
  PROVE  Kinds(p)
<1>0. KeyTypes /\ e.call \in Calls /\ e.key \in Keys
  BY DEF Orderly, Sound, Types, Entries
<1>1. crashes' \in Nat /\ (crashes' = crashes => end = "done")
  BY EndOfCrash
<1>2. end = "done" => WholeStays
  BY <1>0, SwapWhole DEF DeleteCertificate
<1>3. /\ trash'[e.call] # Null /\ trash'[e.call].entry = e
      /\ e.serial = 0 => user' = user
      /\ end = "done" /\ e.serial # 0 => user' = Others(user, e)
  BY DeleteEffect DEF Orderly
<1>4. end = "done" => Untouched \/ Removes(p)
  BY <1>3 DEF Untouched, Removes
<1> QED
  BY <1>1, <1>2, <1>4 DEF Kinds

LEMMA CleanupDeleteKinds ==
  ASSUME NEW p, Single(p), Orderly, crashes \in Nat, NEW end \in Ends, CleanupDelete(p, end)
  PROVE  Kinds(p)
<1>0. /\ p \in Copies /\ WorkTypes /\ work[p].phase = "deleting"
  BY DEF Single, Orderly, Sound, Types, CleanupDelete
<1>1. PICK w \in Works : w = work[p] /\ w.phase = "deleting"
  BY <1>0 DEF WorkTypes
<1>2. PICK q \in Seq(Entries) : q = w.todo /\ q # << >>
  BY <1>1 DEF Works
<1>3. PICK e \in Entries : e = Head(q) /\ e \in Range(q)
  BY <1>2 DEF Range
<1>4. e.serial # 0 => e \in Range(user)
  BY <1>0, <1>1, <1>2, <1>3 DEF Orderly, Held, Todo
<1>5. e = Head(work[p].todo)
  BY <1>1, <1>2, <1>3
<1>6. DeleteCertificate(p, e, end) /\ EndOf(p, end, Rest(p)) /\ IsLeftover(p, e)
  BY <1>5 DEF CleanupDelete
<1>7. e.serial # 0 => IsSuperceded(p, e) \/ IsExpired(e)
  BY <1>6 DEF IsLeftover
<1> QED
  BY <1>0, <1>4, <1>6, <1>7, DeleteKinds, PhaseValues

LEMMA OnCertDeleteKinds ==
  ASSUME NEW p, Single(p), Orderly, crashes \in Nat, NEW e \in Listed(p), NEW end \in Ends,
         OnCertDelete(p, e, end)
  PROVE  Kinds(p)
<1>0. /\ p \in Copies /\ Loaded(p) = user /\ work[p] = Idle /\ KeyTypes /\ ListTypes
  BY SeesUser DEF Single, Orderly, Sound, Types, Held, OnCertDelete
<1>1. e \in Entries /\ (e.serial # 0 => e \in Range(user))
  BY <1>0, ListedEntries DEF Request0
<1>2. DeleteCertificate(p, e, end) /\ EndOf(p, end, Build)
  BY DEF OnCertDelete
<1> QED
  BY <1>0, <1>1, <1>2, DeleteKinds, PhaseValues

LEMMA OnCertUndeleteKinds ==
  ASSUME NEW p, Single(p), Orderly, crashes \in Nat, NEW c \in Calls, NEW end \in Ends,
         OnCertUndelete(p, c, end)
  PROVE  Kinds(p)
<1>0. KeyTypes /\ ListTypes
  BY DEF Orderly, Sound, Types
<1>1. PICK t \in Backups : t = trash[c]
  BY <1>0 DEF OnCertUndelete, BackupList, ListTypes
<1>2. PICK e \in Entries : e = t.entry
  BY DEF Backups
<1>3. e.call = c /\ Genuine(e)
  BY <1>1, <1>2, NullAssumption DEF Orderly, Held, Sources
<1>4. ImportKeyPair(p, t, end) /\ EndOf(p, end, Build)
  BY <1>1 DEF OnCertUndelete, RestoreCallsignCertificate
<1>5. crashes' \in Nat /\ (crashes' = crashes => end = "done")
  BY <1>4, EndOfCrash
<1>6. end = "done" => WholeStays
  <2>1. CASE UNCHANGED keyVars
    BY <2>1 DEF keyVars, WholeStays
  <2>2. ASSUME NEW recs, Swap(c, recs, end), end = "done" PROVE WholeStays
    BY <1>0, <2>2, SwapWhole
  <2> QED
    BY <1>2, <1>3, <1>4, <2>1, <2>2 DEF ImportKeyPair
<1>7. user' = user \/ (e.serial # 0 /\ StoreCert(p, e, StoreOutcome(e, TRUE)))
  BY <1>2, <1>4 DEF ImportKeyPair, userVars
<1>8. Untouched \/ Installs(p)
  BY <1>3, <1>7 DEF Untouched, Installs, Genuine
<1> QED
  BY <1>5, <1>6, <1>8 DEF Kinds

LEMMA StepKinds ==
  ASSUME NEW p, Single(p), Orderly, crashes \in Nat, [Next]_vars
  PROVE  Kinds(p)
<1>0. KeyTypes /\ ListTypes /\ p \in Copies
  BY DEF Orderly, Sound, Types, Single
<1>1. ASSUME UNCHANGED <<user, torn, crashes>> PROVE Kinds(p)
  BY <1>1 DEF Kinds, Untouched, WholeStays
<1>2. CASE UNCHANGED vars
  BY <1>1, <1>2 DEF vars, keyVars, userVars, boundVars
<1>3. CASE Lotw
  BY <1>1, <1>3 DEF Lotw, Issue, Expire, keyVars, userVars, boundVars
<1>4. CASE Load(p)
  <2>1. ASSUME NEW flaw \in P12Flaws, LoadP12Refused(p, flaw) PROVE Kinds(p)
    BY <1>1, <2>1 DEF LoadP12Refused, keyVars, userVars
  <2>2. ASSUME CleanupList(p) \/ CleanupKeep(p) \/ BuildEnds(p) PROVE Kinds(p)
    BY <1>1, <2>2 DEF CleanupList, CleanupKeep, BuildEnds, keyVars, userVars, boundVars
  <2>3. ASSUME NEW e \in Range(Loaded(p)), NEW end \in Ends, BuildFindsKey(p, e, end)
        PROVE  Kinds(p)
    <3>1. e \in Entries
      BY <1>0, LoadedType DEF Range
    <3>2. e.call \in Calls
      BY <3>1 DEF Entries
    <3>3. FindMatchingKey(e.call, e.key, end) /\ EndOf(p, end, work[p]) /\ UNCHANGED user
      BY <2>3 DEF BuildFindsKey, GetPrivateKeyType, userVars
    <3>4. crashes' \in Nat /\ (crashes' = crashes => end = "done")
      BY <3>3, EndOfCrash
    <3>5. end = "done" => WholeStays
      BY <1>0, <3>2, <3>3, FindWhole
    <3> QED
      BY <3>3, <3>4, <3>5 DEF Kinds, Untouched
  <2> QED
    BY <1>4, <2>1, <2>2, <2>3, LoadTQ6Kinds, LoadP12Kinds, CleanupDeleteKinds DEF Load
<1>5. CASE Command(p)
  <2>1. ASSUME NEW e \in Listed(p), OnCertExport(p, e) PROVE Kinds(p)
    <3>1. e \in Entries /\ e.call \in Calls
      BY <1>0, ListedEntries DEF Orderly
    <3>2. FindMatchingKey(e.call, e.key, "done") /\ UNCHANGED <<user, crashes>>
      BY <2>1 DEF OnCertExport, ExportPKCS12, userVars, boundVars
    <3> QED
      BY <1>0, <3>1, <3>2, FindWhole DEF Kinds, Untouched
  <2>2. ASSUME NEW e \in Range(Loaded(p)), CheckCertStatus(p, e) PROVE Kinds(p)
    BY <1>1, <2>2 DEF CheckCertStatus, keyVars, userVars, boundVars
  <2>3. ASSUME Exit(p) PROVE Kinds(p)
    BY <1>1, <2>3 DEF Exit, keyVars, userVars, boundVars
  <2> QED
    BY <1>5, <2>1, <2>2, <2>3, OnCertDeleteKinds, OnCertUndeleteKinds DEF Command
<1> QED
  BY <1>2, <1>3, <1>4, <1>5, RequestKinds DEF Next, Single

\* With one copy, nothing leaves certs/user but what was deleted, and that
\* goes into the trash: the file tqsl_deleteCertificate writes keeps every
\* other certificate.
THEOREM OnlyIntoTrash ==
  ASSUME NEW p, Copies = {p}
  PROVE  Spec => LeavesThroughTrash
<1>0. Single(p)
  BY DEF Single
<1>1. Init => crashes \in Nat
  BY DEF Init
<1>2. Orderly /\ crashes \in Nat /\ [Next]_vars => (crashes \in Nat)'
  BY <1>0, StepKinds DEF Kinds
<1>3. Orderly /\ crashes \in Nat /\ [Next]_vars =>
        [\A e \in Range(user) \ Range(user') :
            crashes' # crashes \/ (trash'[e.call] # Null /\ trash'[e.call].entry = e)]_vars
  <2> SUFFICES ASSUME Orderly, crashes \in Nat, [Next]_vars, NEW e \in Range(user) \ Range(user'),
                      crashes' = crashes
               PROVE  trash'[e.call] # Null /\ trash'[e.call].entry = e
    OBVIOUS
  <2>1. Untouched \/ Installs(p) \/ Removes(p)
    BY <1>0, StepKinds DEF Kinds
  <2>2. user \in Seq(Entries) /\ UserUnique
    BY DEF Orderly, Sound, Types, ListTypes, Held
  <2>3. CASE Untouched
    BY <2>3 DEF Untouched, Range
  <2>4. CASE Installs(p)
    <3>1. PICK x : user' = user \/ user' = Append(user, x)
      BY <2>4 DEF Installs, StoreCert
    <3>2. Range(user) \subseteq Range(user')
      BY <2>2, <3>1 DEF Range
    <3> QED
      BY <3>2
  <2>5. CASE Removes(p)
    <3>1. PICK x \in Range(user) : /\ user' = Others(user, x)
                                   /\ trash'[x.call] # Null /\ trash'[x.call].entry = x
      BY <2>5 DEF Removes
    <3>2. Range(Others(user, x)) = {y \in Range(user) : y.serial # x.serial}
      BY <2>2, OthersLists
    <3>3. e.serial = x.serial
      <4>1. Range(user') = Range(Others(user, x))
        BY <3>1 DEF Range
      <4> QED
        BY <3>2, <4>1
    <3>4. e = x
      BY <2>2, <3>3 DEF UserUnique, Range
    <3> QED
      BY <3>1, <3>4
  <2> QED
    BY <2>1, <2>3, <2>4, <2>5
<1> QED
  BY <1>1, <1>2, <1>3, OrderlyAlways, PTL DEF Spec, LeavesThroughTrash

-----------------------------------------------------------------------------
(* A call sign that can sign.                                               *)

\* What LoTW answers agrees with the calendar.
LEMMA CalendarStep ==
  ASSUME NEW p, Single(p), Orderly, Calendar, [Next]_vars
  PROVE  Calendar'
<1>0. status \in [Keys -> Answers] /\ expired \subseteq Nat
  BY DEF Orderly, Sound, Types, LotwTypes
<1>1. ASSUME UNCHANGED <<status, expired>> PROVE Calendar'
  BY <1>1 DEF Calendar
<1>2. ASSUME NEW n, NEW s \in LotwStatus(n), SetCertificateStatus(n, s), UNCHANGED expired
      PROVE  Calendar'
  <2>1. s = "Expired" => n \in expired
    BY <1>2 DEF LotwStatus
  <2>2. \A i \in Keys : status'[i] = IF i = n THEN s ELSE status[i]
    BY <1>0, <1>2 DEF SetCertificateStatus
  <2> QED
    BY <1>2, <2>1, <2>2 DEF Calendar
<1>3. CASE UNCHANGED vars
  BY <1>1, <1>3 DEF vars, lotwVars
<1>4. ASSUME NEW r \in requests, Issue(r) PROVE Calendar'
  BY <1>1, <1>4 DEF Issue
<1>5. ASSUME NEW n \in Keys, Expire(n) PROVE Calendar'
  <2>1. /\ expired' = expired \cup {n} /\ UNCHANGED status
        /\ \A i \in 1..(n - 1) : i \in expired
    BY <1>5 DEF Expire
  <2> QED
    BY <2>1 DEF Calendar
<1>6. CASE Request(p)
  BY <1>1, <1>6 DEF Request, RequestSent, RequestAbandoned, RequestUploadFails, lotwVars
<1>7. CASE Load(p)
  <2>1. UNCHANGED expired
    BY <1>7, LoadFrame
  <2>2. ASSUME CleanupList(p) PROVE Calendar'
    BY <1>2, <2>1, <2>2 DEF CleanupList
  <2>3. ASSUME ~CleanupList(p) PROVE UNCHANGED status
    BY <1>7, <2>3 DEF Load, LoadTQ6, LoadP12, LoadP12Refused, CleanupDelete, CleanupKeep,
      BuildFindsKey, BuildEnds
  <2> QED
    BY <1>1, <2>1, <2>2, <2>3
<1>8. CASE Command(p)
  <2>1. UNCHANGED expired
    BY <1>8, CommandFrame
  <2>2. ASSUME NEW e \in Range(Loaded(p)), CheckCertStatus(p, e) PROVE Calendar'
    BY <1>2, <2>1, <2>2 DEF CheckCertStatus
  <2>3. ASSUME ~ \E e \in Range(Loaded(p)) : CheckCertStatus(p, e) PROVE UNCHANGED status
    BY <1>8, <2>3 DEF Command, OnCertDelete, OnCertUndelete, OnCertExport, Exit
  <2> QED
    BY <1>1, <2>1, <2>2, <2>3
<1> QED
  BY <1>3, <1>4, <1>5, <1>6, <1>7, <1>8 DEF Next, Lotw, Single

\* There are no more certificates than keys, so every serial number has an
\* entry in cert_status.xml.
LEMMA SerialIsKey ==
  ASSUME Orderly, NEW e \in issued
  PROVE  e.serial \in Keys
<1>1. issued \subseteq Entries /\ IsFiniteSet(issued) /\ IsFiniteSet(Keys) /\ Cardinality(Keys) = MaxKeys
  <2>1. MaxKeys \in Int /\ 1 \in Int
    BY KeysAssumption
  <2>2. IsFiniteSet(1..MaxKeys) /\ Cardinality(1..MaxKeys) = IF 1 > MaxKeys THEN 0 ELSE MaxKeys - 1 + 1
    BY <2>1, FS_Interval
  <2> QED
    BY <2>2, KeysAssumption DEF Keys, Orderly, Sound, Types, LotwTypes
<1> DEFINE f == [x \in issued |-> x.key]
<1>2. f \in [issued -> Keys] /\ \A x, y \in issued : f[x] = f[y] => x = y
  BY <1>1 DEF Entries, Orderly, Issues
<1>3. f \in Injection(issued, Keys)
  BY <1>2 DEF Injection, IsInjective
<1>4. Cardinality(issued) <= MaxKeys
  BY <1>1, <1>3, FS_Injection
<1>5. e.serial \in 1..Cardinality(issued) /\ Cardinality(issued) \in Nat
  BY <1>1, FS_CardinalityType DEF Orderly, Issues
<1> QED
  BY <1>4, <1>5, KeysAssumption DEF Keys

\* The newest certificate of a call.
LEMMA NewestExists ==
  ASSUME Orderly, NEW c, NEW S, S \subseteq issued, NEW w \in S, w.call = c
  PROVE  \E m \in S : m.call = c /\ \A x \in S : x.call = c => x.serial <= m.serial
<1>1. \A e \in issued : e.serial \in Nat /\ e.serial <= MaxKeys
  BY SerialIsKey, KeysAssumption DEF Keys
<1> DEFINE T == {MaxKeys - e.serial : e \in {x \in S : x.call = c}}
<1>2. T \subseteq Nat /\ MaxKeys - w.serial \in T
  BY <1>1, KeysAssumption
<1>3. PICK i \in T : \A j \in T : i <= j
  BY <1>2, LeastExists
<1>4. PICK m \in S : m.call = c /\ i = MaxKeys - m.serial
  BY <1>3
<1>5. ASSUME NEW x \in S, x.call = c PROVE x.serial <= m.serial
  <2>1. MaxKeys - x.serial \in T
    BY <1>5
  <2>2. MaxKeys - m.serial <= MaxKeys - x.serial
    BY <1>3, <1>4, <2>1
  <2> QED
    BY <1>1, <2>2, KeysAssumption
<1> QED
  BY <1>4, <1>5

\* A call sign keeps a certificate it can sign with.
LEMMA UsableStep ==
  ASSUME NEW p, Single(p), Orderly, Orderly', Calendar, crashes \in Nat, [Next]_vars,
         NEW c \in Calls, Usable(c), torn[c] = "no",
         UNCHANGED <<expired, status, crashes>>,
         user' = user \/ ~NewestSuperceded(c)',
         ~(work[p] = Idle /\ \E e \in Range(user) : OnCertDelete(p, e, "done"))
  PROVE  Usable(c)'
<1>0. /\ p \in Copies /\ Loaded(p) = user /\ user \in Seq(Entries) /\ UserUnique
      /\ Range(user) \subseteq issued
  BY SeesUser DEF Single, Orderly, Held, Sound, Types, ListTypes, Sources
<1>1. PICK w \in Range(user) :
         /\ w.call = c /\ ~IsExpired(w)
         /\ \A x \in Range(user) : x.repl # w.serial
         /\ status[w.serial] # "Superceded"
  BY DEF Usable
<1>2. WholeStays /\ (Untouched \/ Installs(p) \/ Removes(p))
  BY StepKinds DEF Kinds
<1>3. ASSUME NEW e \in Range(user'), e.call = c PROVE KeyExists(ReadKeys(keys'[c]), e.key)
  <2>1. torn'[c] = "no"
    BY <1>2 DEF WholeStays
  <2>2. e.key \in made'[c]
    BY <1>3 DEF Orderly, Issues, Held, Sources
  <2> QED
    BY <2>1, <2>2 DEF Orderly, Sound, KeysKept
\* It is enough to name a certificate that no other one supersedes.
<1>4. ASSUME NEW e \in Range(user'), e.call = c, ~IsExpired(e),
             \A x \in Range(user') : x.repl # e.serial,
             status[e.serial] # "Superceded"
      PROVE  Usable(c)'
  <2>1. KeyExists(ReadKeys(keys'[c]), e.key)
    BY <1>3, <1>4
  <2>2. ~(e.serial # 0 /\ (status'[e.serial] = "Expired" \/ e.serial \in expired'))
    BY <1>4 DEF IsExpired, StatusIs
  <2> QED
    BY <1>4, <2>1, <2>2 DEF Usable, IsExpired, StatusIs
<1>5. CASE user' = user
  <2>1. Range(user') = Range(user)
    BY <1>5 DEF Range
  <2> QED
    BY <1>1, <1>4, <2>1
<1>6. CASE Removes(p)
  <2>1. PICK e \in Range(user) : user' = Others(user, e) /\ (IsSuperceded(p, e) \/ IsExpired(e))
    BY <1>6 DEF Removes
  <2>2. Range(Others(user, e)) = {x \in Range(user) : x.serial # e.serial}
    BY <1>0, OthersLists
  <2>3. Range(user') = {x \in Range(user) : x.serial # e.serial}
    BY <2>1, <2>2 DEF Range
  <2>4. CASE w.serial = e.serial
    <3>1. w = e
      BY <1>0, <2>4 DEF UserUnique, Range
    <3>2. ~IsSuperceded(p, w)
      BY <1>0, <1>1 DEF IsSuperceded, StatusIs, Range
    <3> QED
      BY <1>1, <2>1, <3>1, <3>2
  <2>5. CASE w.serial # e.serial
    BY <1>1, <1>4, <2>3, <2>5
  <2> QED
    BY <2>4, <2>5
<1>7. CASE Installs(p) /\ user' # user
  <2>1. PICK e \in issued : user' = Append(user, e)
    BY <1>7 DEF Installs, StoreCert
  <2>2. Range(user') = Range(user) \cup {e}
    <3>1. e \in Entries
      BY DEF Orderly, Sound, Types, LotwTypes
    <3>2. /\ DOMAIN user' = 1..(Len(user) + 1) /\ DOMAIN user = 1..Len(user) /\ Len(user) \in Nat
          /\ user'[Len(user) + 1] = e
          /\ \A i \in DOMAIN user : user'[i] = user[i]
      BY <1>0, <2>1
    <3>3. \A i \in DOMAIN user' : i \in DOMAIN user \/ i = Len(user) + 1
      BY <3>2
    <3>4. \A i \in DOMAIN user : i \in DOMAIN user'
      BY <3>2
    <3>5. Len(user) + 1 \in DOMAIN user'
      BY <3>2
    <3> QED
      BY <3>2, <3>3, <3>4, <3>5 DEF Range
  <2>3. CASE e.repl # w.serial
    BY <1>1, <1>4, <2>2, <2>3
  <2>4. CASE e.repl = w.serial
    <3>1. /\ \A x \in issued : x.serial \in Nat /\ x.serial # 0 /\ x.repl \in Nat
                               /\ x.repl < x.serial /\ x.serial \in Keys
          /\ \A x, y \in issued : x.repl = y.serial => x.call = y.call
      <4>1. \A x \in issued : x.serial \in Keys
        BY SerialIsKey
      <4>2. \A x \in issued : x.serial \in Nat /\ x.serial # 0
        BY <4>1, KeysAssumption DEF Keys
      <4>3. \A x \in issued : x.repl \in Nat /\ x.repl < x.serial
        BY DEF Orderly, Issues, Sound, Types, LotwTypes, Entries
      <4>4. \A x, y \in issued : x.repl = y.serial => x.call = y.call
        BY DEF Orderly, Issues
      <4> QED
        BY <4>1, <4>2, <4>3, <4>4
    <3>2. e.call = c /\ w.serial < e.serial
      BY <1>0, <1>1, <2>4, <3>1
    <3>3. PICK m \in Range(user') :
             m.call = c /\ \A x \in Range(user') : x.call = c => x.serial <= m.serial
      <4>1. PICK S \in SUBSET issued : S = Range(user') /\ e \in S
        BY <1>0, <2>2
      <4>2. \E m \in S : m.call = c /\ \A x \in S : x.call = c => x.serial <= m.serial
        BY <3>2, <4>1, NewestExists
      <4> QED
        BY <4>1, <4>2
    <3>4. m \in issued /\ Range(user') \subseteq issued
      BY <1>0, <2>2
    <3>5. w.serial < m.serial
      <4>1. e.serial <= m.serial
        BY <2>2, <3>2, <3>3
      <4> QED
        BY <1>0, <3>1, <3>2, <3>4, <4>1
    <3>6. ~IsExpired(m)
      <4>1. w.serial \notin expired
        BY <1>0, <1>1, <3>1 DEF IsExpired
      <4>2. m.serial \notin expired
        <5>1. w.serial \in 1..(m.serial - 1)
          BY <1>0, <3>1, <3>4, <3>5
        <5> QED
          BY <4>1, <5>1 DEF Calendar
      <4>3. status[m.serial] # "Expired"
        BY <3>1, <3>4, <4>2 DEF Calendar
      <4> QED
        BY <4>2, <4>3 DEF IsExpired, StatusIs
    <3>7. \A x \in Range(user') : x.repl # m.serial
      <4> SUFFICES ASSUME NEW x \in Range(user'), x.repl = m.serial PROVE FALSE
        OBVIOUS
      <4>1. x.call = c /\ m.serial < x.serial
        BY <3>1, <3>3, <3>4
      <4>2. x.serial <= m.serial
        BY <3>3, <4>1
      <4> QED
        BY <3>1, <3>4, <4>1, <4>2
    <3>8. status[m.serial] # "Superceded"
      <4>1. ~NewestSuperceded(c)'
        BY <1>7
      <4> QED
        BY <3>3, <4>1 DEF NewestSuperceded
    <3> QED
      BY <1>4, <3>3, <3>6, <3>7, <3>8
  <2> QED
    BY <2>3, <2>4
<1> QED
  BY <1>2, <1>5, <1>6, <1>7 DEF Untouched

\* With one copy, no load, clean-up, request, renewal, restoration or export
\* takes the last certificate a call sign can sign with; what does is listed
\* in the property.
THEOREM CanStillSign ==
  ASSUME NEW p, Copies = {p}
  PROVE  Spec => UsableStaysUsable
<1>0. Single(p)
  BY DEF Single
<1>1. Init => crashes \in Nat /\ Calendar
  <2>1. "Unknown" # "Expired"
    OBVIOUS
  <2> QED
    BY <2>1 DEF Init, Calendar
<1>2. Orderly /\ Calendar /\ crashes \in Nat /\ [Next]_vars => (Calendar /\ crashes \in Nat)'
  BY <1>0, StepKinds, CalendarStep DEF Kinds
<1>3. Orderly /\ Orderly' /\ Calendar /\ crashes \in Nat /\ [Next]_vars => [UsableKept]_vars
  <2>1. p \in Copies
    BY <1>0 DEF Single
  <2> QED
    BY <1>0, <2>1, UsableStep DEF UsableKept, LossExplained
<1>4. Spec => []Orderly
  BY OrderlyAlways
<1>5. Spec => [](Calendar /\ crashes \in Nat)
  BY <1>1, <1>2, <1>4, PTL DEF Spec
<1> QED
  BY <1>3, <1>4, <1>5, PTL DEF Spec, UsableStaysUsable
=============================================================================
