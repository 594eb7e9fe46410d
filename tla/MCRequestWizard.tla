-------------------------- MODULE MCRequestWizard ---------------------------
(* Four call signs, one of them not well formed, one 1x1 and one portable;   *)
(* the entities NONE, the USA, and Germany (deleted), which ended.            *)
EXTENDS RequestWizard

CONSTANTS w1aw, k1x, portable, bad, c1

Day(y, m, d) == [y |-> y, m |-> m, d |-> d]

MCStart == [e \in {0, 291, 81} |-> IF e = 0 THEN Day(1912, 12, 13) ELSE Day(1945, 11, 15)]
MCEnd   == [e \in {0, 291, 81} |-> IF e = 81 THEN Day(1973, 9, 17) ELSE NullDate]

\* 1956 has a 29 February, 1957 has none.
MCBegin == {Day(1945, 1, 1), Day(1945, 11, 1), Day(1945, 11, 15), Day(1957, 2, 29),
            Day(1956, 2, 29)}
MCEndDates == {NullDate, Day(1973, 9, 18), Day(1956, 2, 29), Day(1956, 2, 28), Day(1957, 0, 5)}

\* "a@b.c", "a@b.", "a@.c" and "a.b@c".
MCEmails == {[at |-> 1, dot |-> 3, len |-> 5], [at |-> 1, dot |-> 3, len |-> 4],
             [at |-> 1, dot |-> 2, len |-> 4], [at |-> 3, dot |-> 1, len |-> 5]}

\* The first use of the program, and a later one.
MCKnown == {[name |-> Null, email |-> NoEmail],
            [name |-> <<"config", Null>>, email |-> [at |-> 1, dot |-> 3, len |-> 5]]}

Entry(call, dxcc, nb, na) == [call |-> call, dxcc |-> dxcc, nb |-> nb, na |-> na]
None4 == [x \in {w1aw, k1x, portable, bad} |-> 0]

\* The open request for the portable call was forgotten by RequestPending.
MCStores ==
    {[entries |-> {}, signers |-> {}, pending |-> {}, recent |-> None4],
     [entries |-> {Entry(w1aw, 291, Day(1956, 2, 29), Day(2030, 1, 1)),
                   Entry(portable, 81, Day(1945, 11, 15), Day(1956, 2, 28)),
                   Entry(portable, 291, Day(1956, 2, 29), NullDate),
                   Entry(k1x, 291, Day(1956, 2, 29), NullDate)},
      signers |-> {c1}, pending |-> {k1x}, recent |-> [None4 EXCEPT ![portable] = 3]],
     [entries |-> {}, signers |-> {c1}, pending |-> {}, recent |-> [None4 EXCEPT ![w1aw] = 4]]}

MCRenewals ==
    {Null, [call |-> w1aw, dxcc |-> 291, begin |-> Day(1956, 2, 29), end |-> NullDate, cert |-> c1]}
=============================================================================
