---------------------------- MODULE MCConverter -----------------------------
(* Small instances of Converter: two callsigns, A with two certificates for *)
(* successive periods and B with one; the QSOs q1 and q3 on one date and q2 *)
(* on the other.                                                            *)
EXTENDS Converter

CONSTANTS A, B, q1, q2, q3, g4, g6, z1, z0, z9, i1, i2

MCCerts == << [call |-> A, dates |-> {1}], [call |-> A, dates |-> {2}],
              [call |-> B, dates |-> {1, 2}] >>
MCCoarser == {<<g4, g6>>}

Plain == [qso |-> q1, date |-> 1, call |-> None, grid |-> None, zone |-> None,
          iota |-> None, kind |-> "good", torn |-> FALSE]

\* The records the logs of the passing run are made of.
Usual == {Plain,
          [Plain EXCEPT !.date = 2, !.qso = q2],
          [Plain EXCEPT !.call = B],
          [Plain EXCEPT !.call = A, !.grid = g4, !.qso = q3],
          [Plain EXCEPT !.zone = z1],
          [Plain EXCEPT !.zone = z9, !.grid = g6],
          [Plain EXCEPT !.iota = i1]}
Odd   == {[Plain EXCEPT !.kind = "unreadable"],
          [Plain EXCEPT !.kind = "invalid"],
          [Plain EXCEPT !.kind = "range", !.call = B],
          [Plain EXCEPT !.kind = "unsignable"],
          [Plain EXCEPT !.torn = TRUE],
          [Plain EXCEPT !.kind = "invalid", !.torn = TRUE]}

Last  == {r \in Usual : r.date = 1 /\ r.call # B /\ r.iota = None}

\* Three records of the usual sort, or an odd record and one or two others.
MCLogs == {<<>>}
    \cup {<<a, b, c>> : a, b \in Usual, c \in Last}
    \cup {<<o, a>> : o \in Odd, a \in Usual}
    \cup {<<a, o, b>> : a \in {Plain, [Plain EXCEPT !.zone = z1]}, o \in Odd, b \in Last}

NoZone == [cdata |-> None, item |-> None]
MCLocations == {[call |-> A, grid |-> g6, zone |-> NoZone, iota |-> None],
                [call |-> A, grid |-> None, zone |-> [cdata |-> z1, item |-> z1], iota |-> i2]}

Empty == [k \in Calls \X Qsos |-> NoEntry]
MCRecorded == {Empty,
               [Empty EXCEPT ![<<A, q1>>] = [grid |-> g6, zone |-> z1, iota |-> None]]}
MCOldEntries == {{[serial |-> 1, qso |-> q1,
                   signed |-> [grid |-> None, zone |-> z1, iota |-> i2]]}}
=============================================================================
