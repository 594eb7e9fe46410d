--------------------------- MODULE MCStationFiles ---------------------------
\* Two spellings of one name and the hidden name; two contents, interchangeable.
EXTENDS StationFiles, TLC

CONSTANTS home, HOME, empty, x, y

MCNames == {home, HOME, empty}
MCFold == [n \in MCNames |-> IF n = HOME THEN home ELSE n]
MCHidden == {empty}
MCContents == {x, y}
MCSymmetry == Permutations(MCContents)
=============================================================================
