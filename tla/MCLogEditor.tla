----------------------------- MODULE MCLogEditor -----------------------------
(***************************************************************************)
(* Three logs: one of two contacts, the second by satellite, with fields   *)
(* the editor does not know, one of them too long to write; one whose      *)
(* second record has a field that the reader refuses, and a band that is   *)
(* not listed; one of a single contact.                                    *)
(***************************************************************************)
EXTENDS LogEditor

QSO(call, band, mode, freq, prop, sat) ==
  <<Field("CALL", call), Field("BAND", band), Field("MODE", mode), Field("DATE", "2019"),
    Field("FREQ", freq), Field("PROP", prop), Field("SAT", sat)>>
EOR == <<Field("EOR", "")>>

MCFiles ==
  { <<Field("PROGRAM", "x"), Field("EOH", "")>> \o QSO("K1A", "160M", "CW", "1.8", "", "") \o EOR
      \o QSO("K1B", "20M", "HFSK", "", "SAT", "AO7")
      \o <<Field("NOTE", "x"), [n |-> "COMMENT", v |-> "long", flaw |-> "none"]>> \o EOR,
    QSO("K1A", "9M", "CLO", "", "", "") \o EOR \o QSO("K1B", "20M", "CW", "", "", "")
      \o <<[n |-> "NOTE", v |-> "x", flaw |-> "type"]>> \o EOR,
    QSO("K1A", "20M", "CW", "", "", "") \o EOR }
Mode(a, sub, gabbi, elem) == [adifmode |-> a, submode |-> sub, gabbi |-> gabbi, elem |-> elem]
MCConfigModes == << Mode("CLO", "", "CLOVER", "CLO"), Mode("", "", "CW", "CW"),
                    Mode("HELL", "HFSK", "HFSK", "HFSK"), Mode("HELL", "", "HELL", "HELL") >>
MCAlphabet == <<"CLO", "CW", "HELL", "HFSK">>
MCBands == <<"160M", "20M">>
MCFreqBand == [f \in {"1.8", "14.1"} |-> IF f = "1.8" THEN "160M" ELSE "20M"]
=============================================================================
