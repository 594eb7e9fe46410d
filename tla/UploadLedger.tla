---------------------------- MODULE UploadLedger ----------------------------
(***************************************************************************)
(* What the duplicates database promises to every copy of TQSL that runs   *)
(* against one TQSL directory.  An entry is a QSO in one database file.    *)
(* A copy claims entries nobody has recorded or claimed, the QSOs of its   *)
(* claim are handed over (uploaded to LoTW or written to a signed file),   *)
(* and only then is the claim recorded; a claim can also be dropped.       *)
(* QSOs can in addition be handed over with no claim at all: that is a run *)
(* that was told to allow duplicates.                                      *)
(***************************************************************************)
CONSTANTS Copies, Books, Qsos

Entries == Books \X Qsos

VARIABLES recorded,     \* entries the database reports as already uploaded
          delivered,    \* QSOs handed over at least once
          claim         \* claim[p]: entries copy p has reserved

vars == <<recorded, delivered, claim>>

Claimed == UNION {claim[p] : p \in Copies}

Init ==
    /\ recorded = {}
    /\ delivered = {}
    /\ claim = [p \in Copies |-> {}]

\* A QSO is claimed by at most one copy, and never once it is recorded.
Claim(p) ==
    \E e \in Entries \ (recorded \cup Claimed) :
        /\ claim' = [claim EXCEPT ![p] = @ \cup {e}]
        /\ UNCHANGED <<recorded, delivered>>

Drop(p) ==
    /\ claim' = [claim EXCEPT ![p] = {}]
    /\ UNCHANGED <<recorded, delivered>>

Deliver ==
    /\ \E S \in SUBSET Qsos : delivered' = delivered \cup S
    /\ UNCHANGED <<recorded, claim>>

\* Recording is the last step: everything in the claim has been handed over.
Record(p) ==
    /\ \A e \in claim[p] : e[2] \in delivered
    /\ recorded' = recorded \cup claim[p]
    /\ claim' = [claim EXCEPT ![p] = {}]
    /\ UNCHANGED delivered

Next ==
    \/ \E p \in Copies : Claim(p) \/ Drop(p) \/ Record(p)
    \/ Deliver

Spec == Init /\ [][Next]_vars
=============================================================================
