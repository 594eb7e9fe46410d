------------------------------ MODULE MCCabrillo ------------------------------
(* Logs of two QSO lines, good or bad in some of their columns, with a line *)
(* between that is none, of a contest that config.xml defines, one the user *)
(* has redefined, and one that nobody has; a header may be missing or empty  *)
(* or come after a contact.  25:00 is a time tqsl_initTime refuses, flaw     *)
(* "date" a date that tqsl_initDate does.                                    *)
EXTENDS Cabrillo

Line(tag) == [tag |-> tag, flaw |-> "", name |-> "", freq |-> [n |-> 0, txt |-> ""], mode |-> "", date |-> "", time |-> 0,
              mycall |-> "", rest |-> <<>>]
Col(v, looks) == [v |-> v, looks |-> looks]
Freqs == { [n |-> 14025, txt |-> "14025"], [n |-> 7, txt |-> "7"], [n |-> 10, txt |-> "10"],
           [n |-> 5, txt |-> "5"] }
Rests == { <<Col("001", "number"), Col("W1A", "call"), Col("002", "number")>>,
           <<Col("FN31", "grid4"), Col("W1B", "call"), Col("FN42", "grid4")>>,
           <<Col("001", "number"), Col("FN31pr", "grid6"), Col("W1A", "call")>>,
           <<Col("001", "number"), Col("FN31pr", "grid6")>>,
           <<Col("001", "number"), Col("002", "number")>> }
QSO(f, m, t, r) ==
  [Line("QSO") EXCEPT !.freq = f, !.mode = m, !.date = "d", !.time = t, !.mycall = "K1A", !.rest = r]
QSOs ==
  LET lines == { QSO(f, m, t, r) : f \in Freqs, m \in {"CW", "XX"}, t \in {900, 2500, -1}, r \in Rests }
  IN  lines \cup { [q EXCEPT !.flaw = "date"] : q \in {q \in lines : q.freq.n = 14025 /\ q.mode = "CW"} }
Contest(n) == [Line("CONTEST") EXCEPT !.name = n]
Good == QSO([n |-> 14025, txt |-> "14025"], "CW", 900, <<Col("001", "number"), Col("W1A", "call")>>)

MCLogs ==
  { <<Line("START-OF-LOG"), Contest(""), Contest(c), q, [Good EXCEPT !.flaw = "colon"], r, Good,
       Line("END-OF-LOG"), Good>> :
      c \in {"DEFINED", "MINE", "NEW"}, q \in QSOs, r \in QSOs }
  \cup { <<Contest("NEW"), Good>>, <<Line("START-OF-LOG"), Good>>,
         <<Line("START-OF-LOG"), Good, Contest("NEW"), Good>> }
MCConfigContests == << <<"DEFINED", 7>>, <<"MINE", 7>>, <<"NEW", 5>> >>
MCUserContests == << <<"MINE", 8>>, <<"NEW", 0>> >>
MCModeFiles == << << <<"XX", "">>, <<"CW", "CW">> >>, << <<"JT", "JT65">> >> >>
===============================================================================
