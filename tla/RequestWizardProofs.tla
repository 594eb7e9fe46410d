------------------------ MODULE RequestWizardProofs -------------------------
(***************************************************************************)
(* Proofs about the request wizard, for all call signs, entities, dates,    *)
(* stores and settings: what the pages let through is not refused by        *)
(* tqsl_createCertRequest, and it is signed by the selected certificate.    *)
(*                                                                         *)
(* The argument follows the pages.  Being on a page means that the pages    *)
(* before it were left with their data complete, and no page shown later    *)
(* touches that data; signIt is the only field several pages write.         *)
(***************************************************************************)
EXTENDS RequestWizard, SelectionProofs

FormFields == {"call", "dxcc", "begin", "end", "name", "email", "pwd", "locked", "choice", "sel"}
CrqFields  == {"call", "dxcc", "nb", "na", "usa", "validusa", "onebyone", "name", "cert", "signIt"}

FormOK(f) ==
    DOMAIN f = FormFields /\ f.email \in Emails \cup {NoEmail} /\ f.dxcc \in Entities

\* A request without a certificate is still to be signed, if it can be; a
\* renewal keeps its certificate.
CrqOK(r) ==
    /\ DOMAIN r = CrqFields
    /\ r.signIt \in BOOLEAN
    /\ r.cert = Null => r.signIt \/ ~ValidCerts
    /\ renewal # Null => r.cert = renewal.cert

\* A request for the call and entity, from nb to na, has passed the checks of
\* the page for the call sign; old is what is renewed.
Checked(call, dxcc, nb, na, s, old) ==
    /\ call \in WellFormed /\ call \notin s.pending /\ dxcc \in Entities
    /\ DatesFit(nb, na, dxcc)
    /\ IsDateValid(EntityEnd[dxcc]) => ~IsDateNull(na)
    /\ old = Null => \A e \in EntryOf(s, call, dxcc) : ~Overlaps(nb, na, e)

\* What the page for the call sign leaves behind.
CallOK(r) == Checked(r.call, r.dxcc, r.nb, r.na, store, renewal)

\* A new request has the certificate of the last visit to the page for the
\* signature: the selection of its tree, which only that page changes.
Selected(f, r) == renewal = Null => r.cert = f.sel

\* The pages after that, and the ends that are reached from them.
Past == {"name", "email", "password", "sign", "finished", "created", "abandoned"}

\* What holds before the page pg is shown.
Ready(pg, f, r) ==
    /\ pg \in Pages \cup {"finished"}
    /\ pg \in {"name", "email", "password", "sign", "finished"} => CallOK(r)
    /\ pg \in {"email", "password", "sign", "finished"} => r.name # Null
    /\ pg \in {"password", "sign", "finished"} => EmailAccepted(f.email)
    /\ renewal # Null => pg # "sign" /\ (pg \in {"name", "email", "password"} => ~r.signIt)
    /\ pg = "finished" /\ r.cert = Null => f.choice # 2 \/ ~ValidCerts
    /\ Selected(f, r)

\* What holds while it is shown.
OnPage(pg, f, r) ==
    /\ pg \in Past \cup {"provider", "callsign", "cancelled"}
    /\ pg \in Past => CallOK(r)
    /\ pg = "name" => r.name = f.name
    /\ pg \in {"email", "password", "sign", "finished"} => r.name # Null
    /\ pg \in {"password", "sign", "finished"} => EmailAccepted(f.email)
    /\ renewal # Null => pg # "sign"
                         /\ (pg \in {"callsign", "name", "email", "password"} => ~r.signIt)
    /\ pg = "sign" => r.signIt \/ ~ValidCerts
    /\ pg \in {"finished", "created"} /\ r.cert = Null => f.choice # 2 \/ ~ValidCerts
    /\ pg \notin {"sign", "cancelled"} => Selected(f, r)

WizardInv ==
    /\ store \in Stores
    /\ renewal # Null => renewal.cert # Null
    /\ FormOK(form)
    /\ CrqOK(crq)
    /\ OnPage(page, form, crq)

-----------------------------------------------------------------------------
(* The calendar: what julian_day and the loop of tqsl_subtractDates compute,*)
(* and that comparing dates field by field compares days.                  *)

\* What is used of the years.
LEMMA YearsAre ==
    ASSUME NEW n, n \in Years
    PROVE  n \in Int /\ n >= 1 /\ n <= 9999
<1>1. n \in 1..9999
    BY DEF Years
<1> QED BY <1>1

\* The fields of a date of the calendar are integers.
LEMMA DateFields ==
    ASSUME NEW a, IsDateValid(a)
    PROVE  a.y \in Int /\ a.m \in Int /\ a.d \in Int
<1>1. \A n : n \in Years => n \in Int
    BY YearsAre
<1>2. a.y \in Years /\ a.m \in 1..12 /\ a.d \in 1..DaysPerMonth(a.y, a.m)
    BY DEF IsDateValid
<1>3. a.y \in Int
    BY <1>1, <1>2, SMT
<1>4. a.m \in Int
    BY <1>2, SMT
<1>5. DaysPerMonth(a.y, a.m) \in Int
    BY SMT DEF DaysPerMonth
<1> QED BY <1>2, <1>3, <1>4, <1>5, SMT

\* The days of a year, and those before it.
YearLength(y) == IF IsLeap(y) THEN 366 ELSE 365
DaysBefore(y) == 365 * (y - 1) + (y - 1) \div 4 - (y - 1) \div 100 + (y - 1) \div 400

\* One year more.
LEMMA DaysBeforeStep ==
    ASSUME NEW y \in Int, y >= 1
    PROVE  DaysBefore(y + 1) = DaysBefore(y) + YearLength(y) /\ DaysBefore(y) \in Int
<1>1. PICK n \in Nat : y = n + 1
    BY SMT
<1>2. (n + 1) \div 4 = n \div 4 + (IF (n + 1) % 4 = 0 THEN 1 ELSE 0)
    OBVIOUS
<1>3. (n + 1) \div 100 = n \div 100 + (IF (n + 1) % 100 = 0 THEN 1 ELSE 0)
    OBVIOUS
<1>4. (n + 1) \div 400 = n \div 400 + (IF (n + 1) % 400 = 0 THEN 1 ELSE 0)
    OBVIOUS
<1>5. (y % 100 = 0 => y % 4 = 0) /\ (y % 400 = 0 => y % 100 = 0)
    OBVIOUS
<1>6. y - 1 = n /\ (y + 1) - 1 = n + 1
    BY <1>1
<1>7. DaysBefore(y) = 365 * n + n \div 4 - n \div 100 + n \div 400
    BY <1>6 DEF DaysBefore
<1>8. DaysBefore(y + 1) = 365 * (n + 1) + (n + 1) \div 4 - (n + 1) \div 100 + (n + 1) \div 400
    BY <1>6 DEF DaysBefore
<1>9. n \div 4 \in Int /\ n \div 100 \in Int /\ n \div 400 \in Int
    OBVIOUS
<1>10. YearLength(y) = 365 + (IF y % 4 = 0 THEN 1 ELSE 0) - (IF y % 100 = 0 THEN 1 ELSE 0)
                       + (IF y % 400 = 0 THEN 1 ELSE 0)
    BY <1>5 DEF YearLength, IsLeap
<1> QED BY <1>1, <1>2, <1>3, <1>4, <1>7, <1>8, <1>9, <1>10

\* The days of the months before.
LEMMA MonthsBefore ==
    ASSUME NEW y \in Int
    PROVE  \E b \in [0..12 -> Nat] :
              /\ b[0] = 0 /\ b[11] + 31 = YearLength(y) /\ b[12] = YearLength(y)
              /\ \A n \in 1..12 : b[n] = b[n - 1] + DaysPerMonth(y, n)
              /\ \A m, n \in 0..12 : m <= n => b[m] <= b[n]
              /\ \A m \in 1..12, d \in Int : JulianDay(y, m, d) = b[m - 1] + d
<1> DEFINE L == DaysPerMonth(y, 2)
           w == [n \in 0..12 |-> CASE n = 0 -> 0 [] n = 1 -> 31 [] n = 2 -> 31 + L
                  [] n = 3 -> 62 + L [] n = 4 -> 92 + L [] n = 5 -> 123 + L
                  [] n = 6 -> 153 + L [] n = 7 -> 184 + L [] n = 8 -> 215 + L
                  [] n = 9 -> 245 + L [] n = 10 -> 276 + L [] n = 11 -> 306 + L
                  [] n = 12 -> 337 + L]
           IsBefore(f) == f = [n \in 0..12 |->
                               IF n = 0 THEN 0 ELSE f[n - 1] + DaysPerMonth(y, n)]
           b == CHOOSE f : IsBefore(f)
<1>1. L \in Nat /\ L = IF IsLeap(y) THEN 29 ELSE 28
    BY DEF DaysPerMonth
<1>2. /\ DaysPerMonth(y, 1) = 31 /\ DaysPerMonth(y, 3) = 31 /\ DaysPerMonth(y, 4) = 30
      /\ DaysPerMonth(y, 5) = 31 /\ DaysPerMonth(y, 6) = 30 /\ DaysPerMonth(y, 7) = 31
      /\ DaysPerMonth(y, 8) = 31 /\ DaysPerMonth(y, 9) = 30 /\ DaysPerMonth(y, 10) = 31
      /\ DaysPerMonth(y, 11) = 30 /\ DaysPerMonth(y, 12) = 31
    BY DEF DaysPerMonth
<1>3. \A n \in 1..12 : n \in {1, 2, 3, 4, 5, 6, 7, 8, 9, 10, 11, 12}
    OBVIOUS
<1> HIDE DEF L
<1>4. /\ w[0] = 0 /\ w[1] = 31 /\ w[2] = 31 + L /\ w[3] = 62 + L /\ w[4] = 92 + L
      /\ w[5] = 123 + L /\ w[6] = 153 + L /\ w[7] = 184 + L /\ w[8] = 215 + L
      /\ w[9] = 245 + L /\ w[10] = 276 + L /\ w[11] = 306 + L /\ w[12] = 337 + L
    OBVIOUS
<1>5. w = [n \in 0..12 |-> w[n]]
    OBVIOUS
<1> HIDE DEF w
<1>6. \A n \in 1..12 : w[n] = w[n - 1] + DaysPerMonth(y, n)
    BY <1>1, <1>2, <1>3, <1>4 DEF L
<1>7. IsBefore(w)
    BY <1>4, <1>5, <1>6
<1>8. IsBefore(b)
    BY <1>7
<1>9. \A m, d : JulianDay(y, m, d) = b[m - 1] + d
    BY DEF JulianDay
<1> HIDE DEF b
<1>10. /\ b[0] = 0 /\ \A n \in 1..12 : b[n] = b[n - 1] + DaysPerMonth(y, n)
       /\ b = [n \in 0..12 |-> b[n]]
    BY <1>8
<1>11. /\ b[1] = 31 /\ b[2] = 31 + L /\ b[3] = 62 + L /\ b[4] = 92 + L
       /\ b[5] = 123 + L /\ b[6] = 153 + L /\ b[7] = 184 + L /\ b[8] = 215 + L
       /\ b[9] = 245 + L /\ b[10] = 276 + L /\ b[11] = 306 + L /\ b[12] = 337 + L
    BY <1>1, <1>2, <1>10 DEF L
<1>12. \A n \in 0..12 : b[n] \in Nat
    BY <1>1, <1>3, <1>10, <1>11
<1>13. b \in [0..12 -> Nat]
    BY <1>10, <1>12
<1>14. b[11] + 31 = YearLength(y) /\ b[12] = YearLength(y)
    BY <1>1, <1>11 DEF YearLength
<1>15. \A m, n \in 0..12 : m <= n => b[m] <= b[n]
    <2>1. \A m, n \in 0..12 : m <= n => b[m] <= b[n]
        BY <1>1, <1>3, <1>10, <1>11
    <2> QED BY <2>1
<1> QED BY <1>9, <1>10, <1>13, <1>14, <1>15

\* The day of the year, of a day of the calendar.
LEMMA JulianDayIn ==
    ASSUME NEW a, IsDateValid(a)
    PROVE  JulianDay(a.y, a.m, a.d) \in 1..YearLength(a.y)
<1>1. a.y \in Int /\ a.m \in 1..12 /\ a.d \in Int /\ a.d >= 1 /\ a.d <= DaysPerMonth(a.y, a.m)
    BY DateFields DEF IsDateValid
<1>2. PICK y, m, d, k : y = a.y /\ m = a.m /\ d = a.d /\ k = DaysPerMonth(a.y, a.m)
    OBVIOUS
<1>3. y \in Int /\ m \in 1..12 /\ d \in Int /\ k \in Int /\ d >= 1 /\ d <= k
    BY <1>1, <1>2 DEF DaysPerMonth
<1>4. PICK b \in [0..12 -> Nat] :
          /\ b[12] = YearLength(y)
          /\ \A n \in 1..12 : b[n] = b[n - 1] + DaysPerMonth(y, n)
          /\ \A i, n \in 0..12 : i <= n => b[i] <= b[n]
          /\ \A i \in 1..12, j \in Int : JulianDay(y, i, j) = b[i - 1] + j
    BY <1>3, MonthsBefore
<1>a. m \in 0..12 /\ m - 1 \in 0..12 /\ 12 \in 0..12 /\ m <= 12
    BY <1>3
<1>5. JulianDay(y, m, d) = b[m - 1] + d /\ b[m] = b[m - 1] + k /\ b[m] <= b[12]
    BY <1>2, <1>3, <1>4, <1>a
<1>6. b[m] \in Nat /\ b[m - 1] \in Nat /\ b[12] \in Nat
    BY <1>4, <1>a
<1>7. JulianDay(y, m, d) \in 1..b[12]
    BY <1>3, <1>5, <1>6
<1> QED BY <1>2, <1>4, <1>7

LEMMA JulianDayEnds ==
    ASSUME NEW y \in Int
    PROVE  JulianDay(y, 1, 1) = 1 /\ JulianDay(y, 12, 31) = YearLength(y)
<1>1. PICK b \in [0..12 -> Nat] :
          /\ b[0] = 0 /\ b[11] + 31 = YearLength(y)
          /\ \A i \in 1..12, j \in Int : JulianDay(y, i, j) = b[i - 1] + j
    BY MonthsBefore
<1>2. JulianDay(y, 1, 1) = b[1 - 1] + 1 /\ JulianDay(y, 12, 31) = b[12 - 1] + 31
    <2>1. 1 \in 1..12 /\ 12 \in 1..12 /\ 1 \in Int /\ 31 \in Int
        OBVIOUS
    <2> QED BY <1>1, <2>1
<1> QED BY <1>1, <1>2

\* Later in the year is a greater day.
LEMMA JulianDayOrder ==
    ASSUME NEW a, NEW c, IsDateValid(a), IsDateValid(c), a.y = c.y,
           a.m < c.m \/ (a.m = c.m /\ a.d < c.d)
    PROVE  JulianDay(a.y, a.m, a.d) < JulianDay(c.y, c.m, c.d)
<1>1. /\ a.y \in Int /\ a.m \in 1..12 /\ a.d \in Int /\ a.d <= DaysPerMonth(a.y, a.m)
      /\ c.m \in 1..12 /\ c.d \in Int /\ c.d >= 1
    BY DateFields DEF IsDateValid
<1>2. PICK y, m, d, k, n, e : /\ y = a.y /\ m = a.m /\ d = a.d /\ k = DaysPerMonth(a.y, a.m)
                             /\ n = c.m /\ e = c.d
    OBVIOUS
<1>3. /\ y \in Int /\ m \in 1..12 /\ d \in Int /\ k \in Int /\ d <= k
      /\ n \in 1..12 /\ e \in Int /\ e >= 1
    BY <1>1, <1>2 DEF DaysPerMonth
<1>4. PICK b \in [0..12 -> Nat] :
          /\ \A i \in 1..12 : b[i] = b[i - 1] + DaysPerMonth(y, i)
          /\ \A i, j \in 0..12 : i <= j => b[i] <= b[j]
          /\ \A i \in 1..12, j \in Int : JulianDay(y, i, j) = b[i - 1] + j
    BY <1>3, MonthsBefore
<1>5. JulianDay(y, m, d) = b[m - 1] + d /\ JulianDay(y, n, e) = b[n - 1] + e
    BY <1>3, <1>4
<1>a. m \in 0..12 /\ m - 1 \in 0..12 /\ n - 1 \in 0..12
    BY <1>3
<1>6. CASE m < n
    <2>1. m <= n - 1
        BY <1>3, <1>6
    <2>3. b[m] = b[m - 1] + k /\ b[m] <= b[n - 1]
        BY <1>2, <1>3, <1>4, <1>a, <2>1
    <2>2. b[m] \in Nat /\ b[m - 1] \in Nat /\ b[n - 1] \in Nat
        BY <1>4, <1>a
    <2> QED BY <1>2, <1>3, <1>5, <2>2, <2>3
<1>7. CASE m = n /\ d < e
    <2>1. b[m - 1] \in Nat
        BY <1>4, <1>a
    <2> QED BY <1>2, <1>3, <1>5, <1>7, <2>1
<1> QED BY <1>2, <1>6, <1>7

\* The number of a day in the calendar.
DayCount(a) == DaysBefore(a.y) + JulianDay(a.y, a.m, a.d)

\* The loop of tqsl_subtractDates counts the days between.
LEMMA DeltaCounts ==
    ASSUME NEW a, NEW c, IsDateValid(a), IsDateValid(c), a.y <= c.y
    PROVE  Delta(a, c) = DayCount(c) - DayCount(a)
<1> DEFINE p == a.y
           q == c.y
           ja == JulianDay(a.y, a.m, a.d)
           jc == JulianDay(c.y, c.m, c.d)
           toNewYear == JulianDay(p, 12, 31) - ja + 1
           Year(y) == IF y - 1 = p THEN toNewYear
                      ELSE JulianDay(y - 1, 12, 31) - JulianDay(y - 1, 1, 1) + 1
           IsYears(f) == f = [y \in p..q |-> IF y = p THEN 0 ELSE f[y - 1] + Year(y)]
           years == CHOOSE f : IsYears(f)
           w == [y \in p..q |-> IF y = p THEN 0 ELSE DaysBefore(y) - DaysBefore(p) - (ja - 1)]
<1>1. p \in Years /\ q \in Years /\ p <= q /\ p \in Int /\ q \in Int
    <2>1. a.y \in Int /\ c.y \in Int
        BY DateFields
    <2> QED BY <2>1 DEF IsDateValid
<1>a. p >= 1 /\ q >= 1
    <2>1. \A n \in Years : n >= 1
        BY YearsAre
    <2> HIDE DEF p, q
    <2> QED BY <1>1, <2>1
<1>b. \A y \in p..q : y \in Int /\ y >= 1
    <2> HIDE DEF p, q
    <2> SUFFICES ASSUME NEW y \in p..q PROVE y \in Int /\ y >= 1
        OBVIOUS
    <2>1. y \in Int
        BY <1>1
    <2> QED BY <1>1, <1>a, <2>1
<1>2. ja \in Int /\ jc \in Int
    <2>1. \A y \in Int : YearLength(y) \in Int
        BY DEF YearLength
    <2>2. JulianDay(a.y, a.m, a.d) \in 1..YearLength(a.y) /\ JulianDay(c.y, c.m, c.d) \in 1..YearLength(c.y)
        BY JulianDayIn
    <2> QED BY <1>1, <2>1, <2>2
<1>3. /\ p = q => Delta(a, c) = years[q] + jc - ja
      /\ p # q => Delta(a, c) = years[q] + jc - 1
    BY DEF Delta
<1>4. DayCount(c) - DayCount(a) = DaysBefore(q) - DaysBefore(p) + jc - ja
    <2>1. DaysBefore(p) \in Int /\ DaysBefore(q) \in Int
        BY <1>1, <1>a, DaysBeforeStep
    <2> QED BY <1>2, <2>1 DEF DayCount
<1> HIDE DEF p, q, ja, jc
\* One more year of the loop.
<1>5. ASSUME NEW y \in p..q, y # p
      PROVE  /\ y - 1 \in p..q /\ Year(y) \in Int
             /\ y - 1 = p => Year(y) = DaysBefore(y) - DaysBefore(p) - (ja - 1)
             /\ y - 1 # p => Year(y) = DaysBefore(y) - DaysBefore(y - 1)
    <2>1. y - 1 \in p..q /\ y - 1 \in Int /\ y - 1 >= 1 /\ (y - 1) + 1 = y
        BY <1>1, <1>5, <1>a
    <2>2. /\ JulianDay(y - 1, 1, 1) = 1 /\ JulianDay(y - 1, 12, 31) = YearLength(y - 1)
          /\ JulianDay(p, 12, 31) = YearLength(p)
        BY <1>1, <2>1, JulianDayEnds
    <2>3. DaysBefore((y - 1) + 1) = DaysBefore(y - 1) + YearLength(y - 1) /\ DaysBefore(y - 1) \in Int
        BY <2>1, DaysBeforeStep
    <2>4. YearLength(y - 1) \in Int /\ YearLength(p) \in Int
        BY DEF YearLength
    <2>5. Year(y) = IF y - 1 = p THEN YearLength(p) - ja + 1 ELSE YearLength(y - 1) - 1 + 1
        BY <2>2
    <2> HIDE DEF Year
    <2>6. CASE y - 1 = p
        <3>1. DaysBefore(y) = DaysBefore(p) + YearLength(p) /\ DaysBefore(p) \in Int
            BY <2>1, <2>3, <2>6
        <3>2. Year(y) = YearLength(p) - ja + 1
            BY <2>5, <2>6
        <3>3. Year(y) = DaysBefore(y) - DaysBefore(p) - (ja - 1) /\ Year(y) \in Int
            BY <1>2, <2>4, <3>1, <3>2
        <3> QED BY <2>1, <2>6, <3>3
    <2>7. CASE y - 1 # p
        <3>1. Year(y) = YearLength(y - 1) /\ DaysBefore(y) = DaysBefore(y - 1) + YearLength(y - 1)
            BY <2>1, <2>3, <2>4, <2>5, <2>7
        <3>2. Year(y) = DaysBefore(y) - DaysBefore(y - 1) /\ Year(y) \in Int
            BY <2>3, <2>4, <3>1
        <3> QED BY <2>1, <2>7, <3>2
    <2> QED BY <2>6, <2>7
<1>6. \A y \in p..q : DaysBefore(y) \in Int
    BY <1>b, DaysBeforeStep
<1> HIDE DEF Year
<1>7. IsYears(w)
    <2>1. \A y \in p..q : w[y] = IF y = p THEN 0 ELSE w[y - 1] + Year(y)
        <3> SUFFICES ASSUME NEW y \in p..q
                     PROVE  w[y] = IF y = p THEN 0 ELSE w[y - 1] + Year(y)
            OBVIOUS
        <3>1. CASE y = p
            BY <3>1
        <3>2. CASE y # p /\ y - 1 = p
            <4>1. /\ w[y] = DaysBefore(y) - DaysBefore(p) - (ja - 1) /\ w[y - 1] = 0
                  /\ Year(y) = DaysBefore(y) - DaysBefore(p) - (ja - 1) /\ Year(y) \in Int
                BY <1>5, <3>2
            <4> HIDE DEF w
            <4> QED BY <3>2, <4>1
        <3>3. CASE y # p /\ y - 1 # p
            <4>1. /\ y - 1 \in p..q /\ Year(y) = DaysBefore(y) - DaysBefore(y - 1)
                BY <1>5, <3>3
            <4>2. /\ w[y] = DaysBefore(y) - DaysBefore(p) - (ja - 1)
                  /\ w[y - 1] = DaysBefore(y - 1) - DaysBefore(p) - (ja - 1)
                BY <3>3, <4>1
            <4>3. DaysBefore(y) \in Int /\ DaysBefore(y - 1) \in Int /\ DaysBefore(p) \in Int
                BY <1>1, <1>6, <4>1
            <4> HIDE DEF w
            <4>4. w[y] = w[y - 1] + Year(y)
                BY <1>2, <4>1, <4>2, <4>3
            <4> QED BY <3>3, <4>4
        <3> QED BY <3>1, <3>2, <3>3
    <2>2. w = [y \in p..q |-> w[y]]
        OBVIOUS
    <2> HIDE DEF w
    <2> QED BY <2>1, <2>2
<1>8. IsYears(years)
    BY <1>7
<1> HIDE DEF years
<1>9. \A y \in p..q : years[y] = IF y = p THEN 0 ELSE years[y - 1] + Year(y)
    BY <1>8
<1>10. \A y \in p..q : y # p => years[y] = DaysBefore(y) - DaysBefore(p) - (ja - 1)
    <2> DEFINE Right(y) == y # p => years[y] = DaysBefore(y) - DaysBefore(p) - (ja - 1)
               Bad == {y \in p..q : ~Right(y)}
    <2> SUFFICES ASSUME Bad # {} PROVE FALSE
        OBVIOUS
    <2>1. Bad \subseteq Nat
        <3> HIDE DEF Right
        <3> QED BY <1>b
    <2>2. PICK y \in Bad : \A z \in Bad : y <= z
        BY <2>1, LeastExists
    <2>3. y \in p..q /\ y # p /\ y - 1 \in p..q /\ y \in Int
        BY <1>1, <1>5, <2>2
    <2>4. years[y] = years[y - 1] + Year(y)
        BY <1>9, <2>3
    <2>5. DaysBefore(y) \in Int /\ DaysBefore(y - 1) \in Int /\ DaysBefore(p) \in Int
        BY <1>1, <1>6, <2>3
    <2>6. CASE y - 1 = p
        <3>1. years[y - 1] = 0 /\ Year(y) = DaysBefore(y) - DaysBefore(p) - (ja - 1) /\ Year(y) \in Int
            BY <1>5, <1>9, <2>3, <2>6
        <3>2. years[y] = DaysBefore(y) - DaysBefore(p) - (ja - 1)
            BY <2>4, <3>1
        <3> QED BY <2>2, <3>2
    <2>7. CASE y - 1 # p
        <3>1. y - 1 \notin Bad
            BY <2>2, <2>3
        <3>2. /\ years[y - 1] = DaysBefore(y - 1) - DaysBefore(p) - (ja - 1)
              /\ Year(y) = DaysBefore(y) - DaysBefore(y - 1)
            BY <1>5, <2>3, <2>7, <3>1
        <3>3. years[y] = DaysBefore(y) - DaysBefore(p) - (ja - 1)
            BY <1>2, <2>4, <2>5, <3>2
        <3> QED BY <2>2, <3>3
    <2> QED BY <2>6, <2>7
<1>11. p \in p..q /\ q \in p..q
    BY <1>1
<1>12. DaysBefore(p) \in Int /\ DaysBefore(q) \in Int
    BY <1>6, <1>11
<1>13. CASE p = q
    <2>1. years[q] = 0 /\ Delta(a, c) = years[q] + jc - ja
        BY <1>3, <1>9, <1>11, <1>13
    <2> QED BY <1>2, <1>4, <1>12, <1>13, <2>1
<1>14. CASE p # q
    <2>1. /\ years[q] = DaysBefore(q) - DaysBefore(p) - (ja - 1)
          /\ Delta(a, c) = years[q] + jc - 1
        BY <1>3, <1>10, <1>11, <1>14
    <2> QED BY <1>2, <1>4, <1>12, <2>1
<1> QED BY <1>13, <1>14

\* The days before a year are more in a later year, and within bounds.
LEMMA DaysBeforeOrder ==
    ASSUME NEW y \in Int, NEW z \in Int, y >= 1, y < z
    PROVE  DaysBefore(y) + YearLength(y) <= DaysBefore(z)
<1>1. PICK m \in Nat, n \in Nat : y = m /\ z - 1 = n
    <2>1. y \in Nat /\ z - 1 \in Nat
        OBVIOUS
    <2> QED BY <2>1
<1>2. m <= n /\ z = n + 1
    BY <1>1
<1>3. m \div 4 <= n \div 4 /\ m \div 400 <= n \div 400 /\ n \div 100 - m \div 100 <= n - m
    BY <1>2
<1>4. /\ m \div 4 \in Int /\ m \div 100 \in Int /\ m \div 400 \in Int
      /\ n \div 4 \in Int /\ n \div 100 \in Int /\ n \div 400 \in Int
    OBVIOUS
<1>5. DaysBefore(y + 1) = 365 * m + m \div 4 - m \div 100 + m \div 400
    <2>1. (y + 1) - 1 = m
        BY <1>1
    <2> QED BY <2>1 DEF DaysBefore
<1>6. DaysBefore(z) = 365 * n + n \div 4 - n \div 100 + n \div 400
    BY <1>1 DEF DaysBefore
<1>7. DaysBefore(y + 1) <= DaysBefore(z)
    BY <1>2, <1>3, <1>4, <1>5, <1>6
<1>8. DaysBefore(y + 1) = DaysBefore(y) + YearLength(y)
    BY DaysBeforeStep
<1> QED BY <1>7, <1>8

\* Every day of the calendar has a number, and the last is not far off.
LEMMA DayCountIn ==
    ASSUME NEW a, IsDateValid(a)
    PROVE  DayCount(a) \in Int /\ DayCount(a) >= 1 /\ DayCount(a) < 4000000
<1>1. PICK y : y = a.y
    OBVIOUS
<1>2. y \in Int /\ y \in Years
    BY <1>1, DateFields DEF IsDateValid
<1>3. y >= 1 /\ y <= 9999
    BY <1>2, YearsAre
<1>4. PICK n \in Nat : y = n + 1
    <2>1. y - 1 \in Nat /\ y = (y - 1) + 1
        BY <1>2, <1>3
    <2> QED BY <2>1
<1>5. n <= 9998
    BY <1>3, <1>4
<1>6. n \div 4 <= n /\ n \div 4 >= n \div 100 /\ n \div 400 <= n /\ n \div 100 >= 0 /\ n \div 400 >= 0
    OBVIOUS
<1>7. n \div 4 \in Int /\ n \div 100 \in Int /\ n \div 400 \in Int
    OBVIOUS
<1>8. DaysBefore(y) = 365 * n + n \div 4 - n \div 100 + n \div 400
    <2>1. y - 1 = n
        BY <1>4
    <2> QED BY <2>1 DEF DaysBefore
<1>9. DaysBefore(y) \in Int /\ DaysBefore(y) >= 0 /\ DaysBefore(y) <= 367 * 9998
    BY <1>5, <1>6, <1>7, <1>8
<1>10. PICK j : j = JulianDay(a.y, a.m, a.d)
    OBVIOUS
<1>11. j \in Int /\ j >= 1 /\ j <= 366
    <2>1. j \in 1..YearLength(y)
        BY <1>1, <1>10, JulianDayIn
    <2>2. YearLength(y) \in {365, 366}
        BY DEF YearLength
    <2> QED BY <2>1, <2>2
<1> QED BY <1>1, <1>9, <1>10, <1>11 DEF DayCount

\* tqsl_compareDates, which compares field by field, compares days.
LEMMA CompareIsOrder ==
    ASSUME NEW a, NEW c, IsDateValid(a), IsDateValid(c)
    PROVE  /\ CompareDates(a, c) \in {-1, 0, 1}
           /\ CompareDates(a, c) = -1 => DayCount(a) < DayCount(c) /\ a.y <= c.y
           /\ CompareDates(a, c) = 0 => DayCount(a) = DayCount(c) /\ a.y = c.y
           /\ CompareDates(a, c) = 1 => DayCount(a) > DayCount(c) /\ c.y <= a.y
<1>1. a.y \in Int /\ a.m \in Int /\ a.d \in Int /\ c.y \in Int /\ c.m \in Int /\ c.d \in Int
    BY DateFields
<1>2. a.y >= 1 /\ c.y >= 1
    <2>2. a.y \in Years /\ c.y \in Years
        BY DEF IsDateValid
    <2>3. PICK y, z : y = a.y /\ z = c.y
        OBVIOUS
    <2>4. y \in Int /\ z \in Int /\ y \in Years /\ z \in Years
        BY <1>1, <2>2, <2>3
    <2>5. y >= 1 /\ z >= 1
        BY <2>4, YearsAre
    <2> QED BY <2>3, <2>5
<1> DEFINE x == IF a.y # c.y THEN a.y - c.y ELSE IF a.m # c.m THEN a.m - c.m ELSE a.d - c.d
<1>3. CompareDates(a, c) = IF x < 0 THEN -1 ELSE IF x > 0 THEN 1 ELSE 0
    BY DEF CompareDates
\* Earlier, field by field.
<1> DEFINE Before(p, q) == \/ p.y < q.y
                           \/ p.y = q.y /\ (p.m < q.m \/ (p.m = q.m /\ p.d < q.d))
<1>4. /\ x \in Int
      /\ x < 0 => Before(a, c)
      /\ x > 0 => Before(c, a)
      /\ x = 0 => a.y = c.y /\ a.m = c.m /\ a.d = c.d
    BY <1>1
<1>5. ASSUME NEW p, NEW q, IsDateValid(p), IsDateValid(q), Before(p, q),
             p.y \in Int, q.y \in Int, p.y >= 1
      PROVE  DayCount(p) < DayCount(q) /\ p.y <= q.y
    <2>1. PICK i, j, y, z : /\ i = JulianDay(p.y, p.m, p.d) /\ j = JulianDay(q.y, q.m, q.d)
                            /\ y = p.y /\ z = q.y
        OBVIOUS
    <2>2. i \in 1..YearLength(y) /\ j \in 1..YearLength(z)
        BY <1>5, <2>1, JulianDayIn
    <2>3. YearLength(y) \in Int /\ YearLength(z) \in Int
        BY DEF YearLength
    <2>4. i \in Int /\ j \in Int /\ i <= YearLength(y) /\ j >= 1
        BY <2>2, <2>3
    <2>5. DayCount(p) = DaysBefore(y) + i /\ DayCount(q) = DaysBefore(z) + j
        BY <2>1 DEF DayCount
    <2>6. CASE y < z
        <3>1. y \in Int /\ z \in Int /\ y >= 1 /\ z >= 1
            BY <1>5, <2>1, <2>6
        <3>2. DaysBefore(y) \in Int /\ DaysBefore(z) \in Int
            BY <3>1, DaysBeforeStep
        <3>3. DaysBefore(y) + YearLength(y) <= DaysBefore(z)
            BY <2>6, <3>1, DaysBeforeOrder
        <3> QED BY <2>1, <2>3, <2>4, <2>5, <2>6, <3>1, <3>2, <3>3
    <2>7. CASE y = z
        <3>1. p.y = q.y /\ (p.m < q.m \/ (p.m = q.m /\ p.d < q.d))
            BY <1>5, <2>1, <2>7
        <3>2. i < j
            BY <1>5, <2>1, <3>1, JulianDayOrder
        <3>3. DaysBefore(y) \in Int
            BY <1>5, <2>1, DaysBeforeStep
        <3> QED BY <1>5, <2>1, <2>4, <2>5, <2>7, <3>2, <3>3
    <2> QED BY <1>5, <2>1, <2>6, <2>7
<1> HIDE DEF x, Before
<1>6. CASE x < 0
    BY <1>1, <1>2, <1>3, <1>4, <1>5, <1>6
<1>7. CASE x > 0
    <2>1. CompareDates(a, c) = 1
        BY <1>3, <1>4, <1>7
    <2> QED BY <1>1, <1>2, <1>4, <1>5, <1>7, <2>1
<1>8. CASE x = 0
    <2>1. CompareDates(a, c) = 0 /\ a.y = c.y /\ a.m = c.m /\ a.d = c.d
        BY <1>3, <1>4, <1>8
    <2>2. DayCount(a) = DayCount(c)
        BY <2>1 DEF DayCount
    <2> QED BY <2>1, <2>2
<1> QED BY <1>4, <1>6, <1>7, <1>8

\* tqsl_subtractDates gives the difference of the numbers.
LEMMA SubtractCounts ==
    ASSUME NEW a, NEW c, IsDateValid(a), IsDateValid(c)
    PROVE  SubtractDates(a, c) = DayCount(c) - DayCount(a)
<1>1. DayCount(a) \in Int /\ DayCount(c) \in Int
    BY DayCountIn
<1>2. a.y \in Int /\ c.y \in Int
    BY DateFields
<1>3. CASE CompareDates(c, a) = -1
    <2>1. c.y <= a.y
        BY <1>3, CompareIsOrder
    <2>2. Delta(c, a) = DayCount(a) - DayCount(c)
        BY <2>1, DeltaCounts
    <2>3. SubtractDates(a, c) = -Delta(c, a)
        BY <1>3 DEF SubtractDates
    <2> QED BY <1>1, <2>2, <2>3
<1>4. CASE CompareDates(c, a) \in {0, 1}
    <2>1. a.y <= c.y
        BY <1>2, <1>4, CompareIsOrder
    <2>2. Delta(a, c) = DayCount(c) - DayCount(a)
        BY <2>1, DeltaCounts
    <2>3. SubtractDates(a, c) = Delta(a, c)
        BY <1>4 DEF SubtractDates
    <2> QED BY <2>2, <2>3
<1> QED BY <1>3, <1>4, CompareIsOrder
-----------------------------------------------------------------------------
(* The operators.                                                          *)

\* tqsl_compareDates is antisymmetric on dates of the calendar.
LEMMA CompareDatesAntisymmetric ==
    ASSUME NEW a, NEW b, IsDateValid(a), IsDateValid(b), CompareDates(a, b) <= 0
    PROVE  ~(CompareDates(b, a) < 0)
<1>1. a.y \in Int /\ a.m \in Int /\ a.d \in Int
    BY DateFields
<1>2. b.y \in Int /\ b.m \in Int /\ b.d \in Int
    BY DateFields
<1> DEFINE X(p, q) == IF p.y # q.y THEN p.y - q.y
                      ELSE IF p.m # q.m THEN p.m - q.m ELSE p.d - q.d
<1>4. CompareDates(a, b) = IF X(a, b) < 0 THEN -1 ELSE IF X(a, b) > 0 THEN 1 ELSE 0
    BY DEF CompareDates
<1>5. CompareDates(b, a) = IF X(b, a) < 0 THEN -1 ELSE IF X(b, a) > 0 THEN 1 ELSE 0
    BY DEF CompareDates
<1>6. X(a, b) \in Int /\ X(b, a) = -X(a, b)
    <2>1. \A m, n \in Int : m - n \in Int /\ n - m = -(m - n)
        OBVIOUS
    <2>4. CASE a.y # b.y
        BY <2>1, <1>1, <1>2, <2>4
    <2>5. CASE a.y = b.y /\ a.m # b.m
        BY <2>1, <1>1, <1>2, <2>5
    <2>6. CASE a.y = b.y /\ a.m = b.m
        BY <2>1, <1>1, <1>2, <2>6
    <2> QED BY <2>4, <2>5, <2>6
<1> QED BY <1>4, <1>5, <1>6

\* The results validate of the page for the call sign can have.
Validated(f, r) == {ValidateCallsign(f, r, garbage) : garbage \in BOOLEAN}

\* Three zeros are no day of the calendar.
LEMMA NullIsNoDay ==
    ASSUME NEW a, IsDateValid(a)
    PROVE  ~IsDateNull(a)
<1>1. NullDate.y = 0
    BY DEF NullDate
<1>2. 0 \notin Years
    BY YearsAre
<1>3. a.y \in Years
    BY DEF IsDateValid
<1>4. \A n : n \in Years => n # 0
    BY <1>2
<1>5. a.y # NullDate.y
    BY <1>1, <1>3, <1>4
<1> QED BY <1>5 DEF IsDateNull

\* With the begin date right, the end date of an entity that ended is filled in.
LEMMA EndFilledIn ==
    ASSUME NEW f, NEW r, NEW garbage, FormOK(f), NEW g, g = Redated(f, r, garbage),
           IsDateValid(g.begin), IsDateValid(EntityEnd[f.dxcc])
    PROVE  ~IsDateNull(g.end)
<1>1. ~IsDateNull(EntityEnd[f.dxcc])
    BY NullIsNoDay
<1> QED BY <1>1 DEF Redated, FormOK, FormFields

\* What it keeps of the form and of the object, and what it has checked when it
\* does not complain.
LEMMA ValidateKeeps ==
    ASSUME NEW f, NEW r, NEW v \in Validated(f, r), FormOK(f), CrqOK(r)
    PROVE  /\ FormOK(v.form) /\ CrqOK(v.crq) /\ v.crq.signIt = r.signIt
           /\ v.msg = "" => CallOK(v.crq)
<1>1. PICK garbage \in BOOLEAN : v = ValidateCallsign(f, r, garbage)
    BY DEF Validated
<1> DEFINE g == IF f.call \in WellFormed THEN Redated(f, r, garbage) ELSE f
<1>2. DOMAIN g = DOMAIN f /\ g.call = f.call /\ g.email = f.email /\ g.dxcc = f.dxcc
    BY DEF Redated, FormOK, FormFields
<1>3. v.form = g /\ v.msg = Complaint(g)
    BY <1>1 DEF ValidateCallsign
<1>4. /\ DOMAIN v.crq = DOMAIN r /\ v.crq.signIt = r.signIt /\ v.crq.cert = r.cert
      /\ f.call \in WellFormed => /\ v.crq.call = f.call /\ v.crq.nb = g.begin
                                  /\ v.crq.na = g.end /\ v.crq.dxcc = g.dxcc
    BY <1>1 DEF ValidateCallsign, CrqOK, CrqFields
<1>5. ASSUME Complaint(g) = "" PROVE CallOK(v.crq)
    <2>1. /\ g.call \in WellFormed /\ DatesFit(g.begin, g.end, g.dxcc) /\ g.call \notin store.pending
          /\ renewal = Null =>
                \A e \in EntryOf(store, g.call, g.dxcc) : ~Overlaps(g.begin, g.end, e)
        BY <1>5 DEF Complaint
    <2>2. g = Redated(f, r, garbage)
        BY <1>2, <2>1
    <2>3. IsDateValid(g.begin)
        BY <2>1 DEF DatesFit
    <2>4. IsDateValid(EntityEnd[g.dxcc]) => ~IsDateNull(g.end)
        BY <1>2, <2>2, <2>3, EndFilledIn
    <2>5. g.dxcc \in Entities
        BY <1>2 DEF FormOK
    <2> HIDE DEF g
    <2> QED BY <2>1, <2>4, <2>5, <1>2, <1>4 DEF CallOK, Checked
<1> HIDE DEF g
<1>6. FormOK(v.form)
    BY <1>2, <1>3 DEF FormOK
<1>7. CrqOK(v.crq)
    BY <1>4 DEF CrqOK
<1> QED BY <1>3, <1>4, <1>5, <1>6, <1>7

\* It leaves alone who signs.
LEMMA ValidateSigner ==
    ASSUME NEW f, NEW r, NEW v \in Validated(f, r), FormOK(f), CrqOK(r)
    PROVE  v.form.sel = f.sel /\ v.crq.cert = r.cert
<1>1. PICK garbage \in BOOLEAN : v = ValidateCallsign(f, r, garbage)
    BY DEF Validated
<1>2. Redated(f, r, garbage).sel = f.sel
    BY DEF Redated, FormOK, FormFields
<1>3. v.form.sel = f.sel
    BY <1>1, <1>2 DEF ValidateCallsign
<1>4. v.crq.cert = r.cert
    BY <1>1 DEF ValidateCallsign, CrqOK, CrqFields
<1> QED BY <1>3, <1>4

\* CRQ_NamePage::Preset changes no more than the name.
LEMMA PresetKeeps ==
    ASSUME NEW f, NEW r, NEW g \in Preset(f, r), FormOK(f)
    PROVE  FormOK(g) /\ g.choice = f.choice /\ g.sel = f.sel
BY DEF Preset, FormOK, FormFields

\* GetNext of the page for the call sign: a renewal is not asked who signs, and
\* a new request stays to be signed when it can be.
LEMMA SignItKeeps ==
    ASSUME NEW r, CrqOK(r), renewal # Null => renewal.cert # Null
    PROVE  /\ CrqOK([r EXCEPT !.signIt = SignItAfter(r)])
           /\ [r EXCEPT !.signIt = SignItAfter(r)].cert = r.cert
           /\ renewal # Null => ~SignItAfter(r)
<1>1. SignItAfter(r) \in BOOLEAN
    BY DEF SignItAfter, CrqOK
<1>2. r.cert = Null => SignItAfter(r) \/ ~ValidCerts
    BY DEF SignItAfter, CrqOK
<1> QED BY <1>1, <1>2 DEF SignItAfter, CrqOK, CrqFields

\* Showing the page for the call sign keeps the data in order.
LEMMA ShowCallsignKeeps ==
    ASSUME NEW f, NEW r, FormOK(f), CrqOK(r), Show("callsign", f, r),
           renewal # Null => renewal.cert # Null
    PROVE  /\ FormOK(form') /\ CrqOK(crq') /\ (renewal # Null => ~crq'.signIt)
           /\ form'.sel = f.sel /\ crq'.cert = r.cert
<1>1. PICK s : s = [r EXCEPT !.signIt = SignItAfter(r)]
    OBVIOUS
<1>2. CrqOK(s)
    BY <1>1, SignItKeeps
<1>9. s.cert = r.cert
    BY <1>1, SignItKeeps
<1>3. renewal # Null => ~s.signIt
    BY <1>1, SignItKeeps DEF CrqOK, CrqFields
<1>4. PICK g \in Preset(f, r) : \E v \in Validated(g, s) : form' = v.form /\ crq' = v.crq
    BY <1>1 DEF Show, Validated
<1>5. PICK v \in Validated(g, s) : form' = v.form /\ crq' = v.crq
    BY <1>4
<1>6. FormOK(g)
    BY PresetKeeps
<1>10. g.sel = f.sel
    BY PresetKeeps
<1>7. FormOK(v.form) /\ CrqOK(v.crq) /\ v.crq.signIt = s.signIt
    BY <1>2, <1>6, ValidateKeeps
<1>8. v.form.sel = g.sel /\ v.crq.cert = s.cert
    BY <1>2, <1>6, ValidateSigner
<1> QED BY <1>3, <1>5, <1>7, <1>8, <1>9, <1>10

\* A page whose data is ready is shown with its data in order.
LEMMA ShowKeeps ==
    ASSUME NEW pg, NEW f, NEW r, FormOK(f), CrqOK(r), Ready(pg, f, r), Show(pg, f, r),
           UNCHANGED <<store, renewal>>, store \in Stores,
           renewal # Null => renewal.cert # Null
    PROVE  WizardInv'
<1> USE DEF Pages, Past
<1>1. SUFFICES FormOK(form') /\ CrqOK(crq') /\ OnPage(page', form', crq')
    BY DEF WizardInv, FormOK, CrqOK, OnPage, CallOK, ValidCerts, Selected
<1>2. page' = pg /\ pg \in Pages \cup {"finished"}
    BY DEF Show, Ready
<1>3. CASE pg = "callsign"
    <2>1. /\ FormOK(form') /\ CrqOK(crq') /\ (renewal # Null => ~crq'.signIt)
          /\ form'.sel = f.sel /\ crq'.cert = r.cert
        BY <1>3, ShowCallsignKeeps
    <2>2. Selected(form', crq')
        BY <2>1 DEF Ready, Selected
    <2> QED BY <1>2, <1>3, <2>1, <2>2 DEF OnPage
<1>4. CASE pg = "name"
    <2>1. form' = [f EXCEPT !.locked = Locked(f, r)] /\ crq' = [r EXCEPT !.name = f.name]
        BY <1>4 DEF Show
    <2>2. FormOK(form') /\ form'.name = f.name /\ form'.sel = f.sel
        BY <2>1 DEF FormOK, FormFields
    <2>3. /\ CrqOK(crq') /\ crq'.name = f.name /\ crq'.signIt = r.signIt /\ crq'.cert = r.cert
          /\ crq'.call = r.call /\ crq'.nb = r.nb /\ crq'.na = r.na /\ crq'.dxcc = r.dxcc
        BY <2>1 DEF CrqOK, CrqFields
    <2>4. CallOK(crq') /\ (renewal # Null => ~crq'.signIt)
        BY <1>4, <2>3 DEF Ready, CallOK
    <2>5. Selected(form', crq')
        BY <2>2, <2>3 DEF Ready, Selected
    <2> QED BY <1>2, <1>4, <2>2, <2>3, <2>4, <2>5 DEF OnPage
<1>5. CASE pg = "sign"
    <2>1. /\ form' = [f EXCEPT !.choice = IF ValidCerts THEN 2 ELSE 1, !.sel = Null]
          /\ crq' = [r EXCEPT !.signIt = ValidCerts]
        BY <1>5 DEF Show
    <2>2. FormOK(form') /\ form'.email = f.email
        BY <2>1 DEF FormOK, FormFields
    <2>3. /\ CrqOK(crq') /\ crq'.name = r.name /\ crq'.signIt = ValidCerts
          /\ crq'.call = r.call /\ crq'.nb = r.nb /\ crq'.na = r.na /\ crq'.dxcc = r.dxcc
        BY <2>1 DEF CrqOK, CrqFields, ValidCerts
    <2>4. CallOK(crq')
        BY <1>5, <2>3 DEF Ready, CallOK
    <2> QED BY <1>2, <1>5, <2>2, <2>3, <2>4 DEF OnPage, Ready
<1>6. CASE pg \in {"provider", "email", "password", "finished"}
    <2>1. form' = f /\ crq' = r
        BY <1>6 DEF Show
    <2> QED BY <1>2, <1>6, <2>1 DEF OnPage, Ready
<1> QED BY <1>2, <1>3, <1>4, <1>5, <1>6

-----------------------------------------------------------------------------
(* The first page, and leaving the page for the call sign.                 *)

LEMMA InitWizard == Init => WizardInv
<1> SUFFICES ASSUME Init PROVE WizardInv
    OBVIOUS
<1>1. store \in Stores /\ (renewal # Null => renewal.cert # Null)
    BY StoreAssumption DEF Init
<1>2. PICK known \in Known : \E garbage \in BOOLEAN :
         LET q == [FirstCrq EXCEPT !.signIt = SignItAfter(FirstCrq)]
             w == ValidateCallsign(FirstForm(known), q, garbage)
         IN  IF ManyProviders THEN form = FirstForm(known) /\ crq = FirstCrq /\ msg = ""
             ELSE form = w.form /\ crq = w.crq /\ msg = w.msg
    BY DEF Init
<1>3. PICK f, r : f = FirstForm(known) /\ r = FirstCrq
    OBVIOUS
<1>4. FormOK(f)
    <2>1. renewal # Null => renewal.dxcc \in Entities
        BY RenewalAssumption DEF Init
    <2>2. DOMAIN f = FormFields /\ f.email = known.email
        BY <1>3 DEF FirstForm, FormFields
    <2>3. f.dxcc = IF renewal = Null THEN 0 ELSE renewal.dxcc
        BY <1>3 DEF FirstForm
    <2>4. known.email \in Emails \cup {NoEmail} /\ 0 \in Entities
        BY KnownAssumption, EntityAssumption
    <2> QED BY <2>1, <2>2, <2>3, <2>4 DEF FormOK
<1>5. CrqOK(r)
    BY <1>3 DEF FirstCrq, CrqOK, CrqFields, ValidCerts
<1>8. Selected(f, r)
    BY <1>3 DEF FirstForm, FirstCrq, Selected
<1>6. CASE ManyProviders
    <2>1. page = "provider" /\ form = f /\ crq = r
        BY <1>3, <1>6, <1>2 DEF Init
    <2> QED BY <1>1, <1>4, <1>5, <1>8, <2>1 DEF WizardInv, OnPage, Past
<1>7. CASE ~ManyProviders
    <2>1. PICK s : s = [r EXCEPT !.signIt = SignItAfter(r)]
        OBVIOUS
    <2>2. PICK v \in Validated(f, s) : page = "callsign" /\ form = v.form /\ crq = v.crq
        BY <1>3, <1>7, <1>2, <2>1 DEF Init, Validated
    <2>3. CrqOK(s) /\ (renewal # Null => ~s.signIt)
        BY <1>1, <1>5, <2>1, SignItKeeps DEF CrqOK, CrqFields
    <2>7. s.cert = r.cert
        BY <1>1, <1>5, <2>1, SignItKeeps
    <2>4. FormOK(v.form) /\ CrqOK(v.crq) /\ v.crq.signIt = s.signIt
        BY <1>4, <2>3, ValidateKeeps
    <2>6. v.form.sel = f.sel /\ v.crq.cert = s.cert
        BY <1>4, <2>3, ValidateSigner
    <2>5. Selected(form, crq)
        BY <1>8, <2>2, <2>6, <2>7 DEF Selected
    <2> QED BY <1>1, <2>2, <2>3, <2>4, <2>5 DEF WizardInv, OnPage, Past
<1> QED BY <1>6, <1>7

LEMMA EditCallsignKeeps == WizardInv /\ EditCallsign => WizardInv'
<1> SUFFICES ASSUME WizardInv, EditCallsign PROVE WizardInv'
    OBVIOUS
<1>1. PICK g \in [call : Calls, dxcc : Entities, begin : BeginDates, end : EndDates] :
               LET f == [form EXCEPT !.call = g.call, !.dxcc = g.dxcc,
                                     !.begin = g.begin, !.end = g.end]
               IN  /\ form' = ValidateCallsign(f, crq, FALSE).form
                   /\ crq' = ValidateCallsign(f, crq, FALSE).crq
    BY DEF EditCallsign
<1>2. PICK f, r : /\ f = [form EXCEPT !.call = g.call, !.dxcc = g.dxcc,
                                      !.begin = g.begin, !.end = g.end]
                  /\ r = crq
    OBVIOUS
<1>3. FormOK(f) /\ CrqOK(r)
    BY <1>2 DEF WizardInv, FormOK, FormFields
<1>10. f.sel = form.sel
    BY <1>2 DEF WizardInv, FormOK, FormFields
<1>4. PICK v \in Validated(f, r) : form' = v.form /\ crq' = v.crq
    BY <1>1, <1>2 DEF Validated
<1>5. FormOK(v.form) /\ CrqOK(v.crq) /\ v.crq.signIt = r.signIt
    BY <1>3, ValidateKeeps
<1>9. v.form.sel = f.sel /\ v.crq.cert = r.cert
    BY <1>3, ValidateSigner
<1>6. /\ FormOK(form') /\ CrqOK(crq') /\ crq'.signIt = crq.signIt
      /\ form'.sel = form.sel /\ crq'.cert = crq.cert
    BY <1>2, <1>4, <1>5, <1>9, <1>10
<1>7. page = "callsign" /\ UNCHANGED <<page, store, renewal>>
    BY DEF EditCallsign
<1>8. Selected(form', crq')
    BY <1>6, <1>7 DEF WizardInv, OnPage, Selected
<1> QED BY <1>6, <1>7, <1>8
        DEF WizardInv, OnPage, Past, FormOK, CrqOK, CallOK, ValidCerts, Selected

LEMMA LeaveCallsignKeeps ==
    ASSUME NEW back \in BOOLEAN, WizardInv, LeaveCallsign(back)
    PROVE  WizardInv'
<1>1. page = "callsign" /\ UNCHANGED <<store, renewal>>
    BY DEF LeaveCallsign
<1>2. PICK v, f0, r0 : v = ValidateCallsign(form, crq, FALSE) /\ f0 = form /\ r0 = crq
    OBVIOUS
<1>3. FormOK(f0) /\ CrqOK(r0)
    BY <1>2 DEF WizardInv
<1>4. v \in Validated(f0, r0)
    BY <1>2 DEF Validated
<1>5. /\ FormOK(v.form) /\ CrqOK(v.crq) /\ v.crq.signIt = r0.signIt
      /\ v.msg = "" => CallOK(v.crq)
    BY <1>3, <1>4, ValidateKeeps
<1>18. v.form.sel = f0.sel /\ v.crq.cert = r0.cert
    BY <1>3, <1>4, ValidateSigner
<1> DEFINE R(uls) == IF uls = "found"
                     THEN [v.crq EXCEPT !.validusa = TRUE, !.name = <<"uls", v.crq.call>>]
                     ELSE v.crq
           S(uls) == [R(uls) EXCEPT !.signIt = SignItAfter(R(uls))]
           F(uls) == IF uls = "found" THEN [v.form EXCEPT !.name = R(uls).name] ELSE v.form
<1>6. PICK uls :
        \/ /\ UNCHANGED page /\ crq' = R(uls)
           /\ form' = F(uls) \/ form' = [F(uls) EXCEPT !.end = NullDate]
        \/ v.msg = "" /\ Show("provider", F(uls), R(uls))
        \/ v.msg = "" /\ \E g \in Preset(F(uls), S(uls)) : Show("name", g, S(uls))
    BY <1>2 DEF LeaveCallsign
<1>7. PICK f, r : f = F(uls) /\ r = R(uls)
    <2> HIDE DEF F, R
    <2> QED OBVIOUS
<1>8. PICK s : s = [r EXCEPT !.signIt = SignItAfter(r)]
    OBVIOUS
<1>9. /\ FormOK(f) /\ FormOK([f EXCEPT !.end = NullDate])
      /\ f.sel = f0.sel /\ [f EXCEPT !.end = NullDate].sel = f0.sel
    BY <1>5, <1>7, <1>18 DEF FormOK, FormFields
<1>10. CrqOK(r) /\ r.signIt = r0.signIt /\ r.cert = r0.cert
    BY <1>5, <1>7, <1>18 DEF CrqOK, CrqFields
<1>11. v.msg = "" => CallOK(r)
    BY <1>5, <1>7 DEF CallOK, CrqOK, CrqFields
<1>12. \/ /\ UNCHANGED page /\ crq' = r
          /\ form' = f \/ form' = [f EXCEPT !.end = NullDate]
       \/ v.msg = "" /\ Show("provider", f, r)
       \/ v.msg = "" /\ \E g \in Preset(f, s) : Show("name", g, s)
    BY <1>6, <1>7, <1>8
<1> HIDE DEF R, S, F
<1>13. /\ store \in Stores
       /\ renewal # Null => renewal.cert # Null /\ ~r0.signIt
    BY <1>1, <1>2 DEF WizardInv, OnPage
<1>17. Selected(f0, r0)
    BY <1>1, <1>2 DEF WizardInv, OnPage
<1>14. CASE UNCHANGED page /\ crq' = r /\ (form' = f \/ form' = [f EXCEPT !.end = NullDate])
    <2>1. FormOK(form') /\ CrqOK(crq') /\ crq'.signIt = r0.signIt
        BY <1>9, <1>10, <1>14
    <2>2. Selected(form', crq')
        BY <1>9, <1>10, <1>14, <1>17 DEF Selected
    <2> QED BY <1>1, <1>13, <1>14, <2>1, <2>2
            DEF WizardInv, OnPage, Past, FormOK, CrqOK, CallOK, ValidCerts, Selected
<1>15. CASE Show("provider", f, r)
    <2>2. Selected(f, r)
        BY <1>9, <1>10, <1>17 DEF Selected
    <2>1. Ready("provider", f, r)
        BY <2>2 DEF Ready, Pages
    <2> QED BY <1>1, <1>9, <1>10, <1>13, <1>15, <2>1, ShowKeeps
<1>16. CASE v.msg = "" /\ \E g \in Preset(f, s) : Show("name", g, s)
    <2>1. PICK g \in Preset(f, s) : Show("name", g, s)
        BY <1>16
    <2>2. FormOK(g) /\ g.sel = f.sel
        BY <1>9, PresetKeeps
    <2>3. CrqOK(s) /\ (renewal # Null => ~s.signIt) /\ s.cert = r.cert
        BY <1>10, <1>13, <1>8, SignItKeeps DEF CrqOK, CrqFields
    <2>4. CallOK(s)
        BY <1>10, <1>11, <1>16, <1>8 DEF CallOK, CrqOK, CrqFields
    <2>6. Selected(g, s)
        BY <1>9, <1>10, <1>17, <2>2, <2>3 DEF Selected
    <2>5. Ready("name", g, s)
        BY <2>3, <2>4, <2>6 DEF Ready, Pages
    <2> QED BY <1>1, <1>13, <2>1, <2>2, <2>3, <2>5, ShowKeeps
<1> QED BY <1>12, <1>14, <1>15, <1>16

-----------------------------------------------------------------------------
(* Every step.                                                             *)

\* Next, Finish and Back of the other pages.
LEMMA MoveKeeps ==
    ASSUME NEW pg \in Pages, WizardInv, Next_(pg) \/ Back(pg)
    PROVE  WizardInv'
<1> USE DEF Pages, Past
<1>1. page = pg /\ pg # "callsign" /\ Complete(pg) /\ UNCHANGED <<store, renewal>>
    BY DEF Next_, Back
<1>2. PICK f, r : f = form /\ r = Transferred(pg)
    OBVIOUS
<1>3. FormOK(f) /\ CrqOK(r)
    BY <1>1, <1>2 DEF WizardInv, OnPage, Transferred, CrqOK, CrqFields
<1>4. store \in Stores /\ (renewal # Null => renewal.cert # Null)
    BY DEF WizardInv
<1>5. /\ r.name = crq.name /\ r.signIt = crq.signIt
      /\ CallOK(crq) => CallOK(r)
    BY <1>2 DEF Transferred, CallOK, WizardInv, CrqOK, CrqFields
<1>6. /\ pg = "name" => CallOK(r) /\ r.name # Null
      /\ pg \in {"email", "password", "sign"} =>
            CallOK(r) /\ r.name # Null /\ EmailAccepted(f.email)
      /\ renewal # Null => pg # "sign" /\ (pg \in {"name", "email", "password"} => ~r.signIt)
    BY <1>1, <1>2, <1>5 DEF WizardInv, OnPage, Complete
<1>10. Selected(f, r)
    <2>1. CASE pg = "sign"
        BY <1>2, <2>1 DEF Transferred, Selected, WizardInv, CrqOK, CrqFields
    <2>2. CASE pg # "sign"
        BY <1>1, <1>2, <2>2 DEF Transferred, WizardInv, OnPage
    <2> QED BY <2>1, <2>2
<1>7. CASE pg = "sign" /\ form.choice = 2 /\ form.sel = Null /\ Next_(pg)
    <2>1. crq' = r /\ UNCHANGED <<page, form>>
        BY <1>2, <1>7 DEF Next_
    <2> QED BY <1>1, <1>2, <1>3, <1>5, <1>6, <1>7, <2>1
            DEF WizardInv, OnPage, Past, FormOK, CrqOK, CallOK, ValidCerts, Selected
<1>8. CASE Next_(pg) /\ ~(pg = "sign" /\ form.choice = 2 /\ form.sel = Null)
    <2>1. PICK to : to = NextPage(pg, r)
        OBVIOUS
    <2>2. Show(to, f, r)
        BY <1>2, <1>8, <2>1 DEF Next_
    <2>3. pg = "sign" => r.cert = f.sel
        BY <1>2 DEF Transferred, WizardInv, CrqOK, CrqFields
    <2>4. Ready(to, f, r)
        BY <1>1, <1>2, <1>3, <1>6, <1>8, <1>10, <2>1, <2>3 DEF Ready, NextPage, CrqOK
    <2> QED BY <1>1, <1>3, <1>4, <2>2, <2>4, ShowKeeps
<1>9. CASE Back(pg)
    <2>1. PICK to : to = PrevPage(pg)
        OBVIOUS
    <2>2. pg # "provider" /\ Show(to, f, r)
        BY <1>2, <1>9, <2>1 DEF Back
    <2>3. Ready(to, f, r)
        BY <1>1, <1>6, <1>10, <2>1, <2>2 DEF Ready, PrevPage
    <2> QED BY <1>1, <1>3, <1>4, <2>2, <2>3, ShowKeeps
<1> QED BY <1>7, <1>8, <1>9

\* tqsl_createCertRequest finds nothing wrong with what the last page hands over.
LEMMA NothingWrong ==
    ASSUME WizardInv, page = "finished"
    PROVE  ~RequestRefused(crq, form.email)
<1>1. CallOK(crq) /\ crq.name # Null /\ EmailAccepted(form.email)
    BY DEF WizardInv, OnPage
<1>2. crq.call # Null
    BY <1>1, CallsAssumption DEF CallOK, Checked
<1>3. ~(form.email.len = 0 \/ form.email.at = -1 \/ form.email.dot < form.email.at)
    <2>1. form.email \in Emails
        BY <1>1 DEF WizardInv, FormOK, EmailAccepted, NoEmail
    <2>2. PICK a \in Emails : a = form.email
        BY <2>1
    <2>3. /\ a.at \in Int /\ a.dot \in Int /\ a.len \in Nat /\ a.dot < a.len
          /\ a.at >= 1 /\ a.dot >= a.at + 2
        BY <1>1, <2>2, EmailAssumption DEF EmailAccepted
    <2> QED BY <2>2, <2>3
<1>4. IsDateValid(crq.nb)
    BY <1>1 DEF CallOK, Checked, DatesFit
<1>5. IsDateNull(crq.na) \/ (IsDateValid(crq.na) /\ ~(CompareDates(crq.na, crq.nb) < 0))
    <2>1. PICK nb, na : nb = crq.nb /\ na = crq.na
        OBVIOUS
    <2>2. IsDateNull(na) \/ (IsDateValid(na) /\ IsDateValid(nb) /\ CompareDates(nb, na) <= 0)
        BY <1>1, <2>1 DEF CallOK, Checked, DatesFit
    <2>3. IsDateNull(na) \/ (IsDateValid(na) /\ ~(CompareDates(na, nb) < 0))
        BY <2>2, CompareDatesAntisymmetric, Zenon
    <2> QED BY <2>1, <2>3
<1> QED BY <1>1, <1>2, <1>3, <1>4, <1>5 DEF RequestRefused, Missing

LEMMA NextKeeps == WizardInv /\ [Next]_vars => WizardInv'
<1> SUFFICES ASSUME WizardInv, [Next]_vars PROVE WizardInv'
    OBVIOUS
<1>1. CASE EditCallsign
    BY <1>1, EditCallsignKeeps
<1>2. ASSUME NEW back \in BOOLEAN, LeaveCallsign(back) PROVE WizardInv'
    BY <1>2, LeaveCallsignKeeps
<1>3. ASSUME NEW name, EditName(name) PROVE WizardInv'
    <2>1. /\ page = "name" /\ UNCHANGED <<page, store, renewal>>
          /\ form' = [form EXCEPT !.name = name, !.locked = Locked([form EXCEPT !.name = name], crq)]
          /\ crq' = [crq EXCEPT !.name = name]
        BY <1>3 DEF EditName
    <2>2. FormOK(form') /\ form'.name = name /\ form'.sel = form.sel
        BY <2>1 DEF WizardInv, FormOK, FormFields
    <2>3. /\ DOMAIN crq' = CrqFields /\ crq'.name = name /\ crq'.signIt = crq.signIt
          /\ crq'.cert = crq.cert /\ crq'.call = crq.call /\ crq'.nb = crq.nb /\ crq'.na = crq.na
          /\ crq'.dxcc = crq.dxcc
        BY <2>1 DEF WizardInv, CrqOK, CrqFields
    <2> QED BY <2>1, <2>2, <2>3 DEF WizardInv, OnPage, Past, FormOK, CrqOK, CallOK, ValidCerts, Selected
<1>4. ASSUME NEW email \in Emails, EditEmail(email) PROVE WizardInv'
    <2>1. /\ page = "email" /\ UNCHANGED <<page, crq, store, renewal>>
          /\ form' = [form EXCEPT !.email = email]
        BY <1>4 DEF EditEmail
    <2>2. FormOK(form') /\ form'.sel = form.sel
        BY <2>1 DEF WizardInv, FormOK, FormFields
    <2> QED BY <2>1, <2>2 DEF WizardInv, OnPage, Past, FormOK, CrqOK, CallOK, ValidCerts, Selected
<1>5. CASE EditPassword
    <2>1. /\ page = "password" /\ UNCHANGED <<page, crq, store, renewal>>
          /\ form' = [form EXCEPT !.pwd = ~form.pwd]
        BY <1>5 DEF EditPassword
    <2>2. FormOK(form') /\ form'.email = form.email /\ form'.sel = form.sel
        BY <2>1 DEF WizardInv, FormOK, FormFields
    <2> QED BY <2>1, <2>2 DEF WizardInv, OnPage, Past, FormOK, CrqOK, CallOK, ValidCerts, Selected
<1>6. ASSUME NEW choice, NEW sel, ChooseSigner(choice, sel) PROVE WizardInv'
    <2>1. /\ page = "sign" /\ UNCHANGED <<page, store, renewal>>
          /\ form' = [form EXCEPT !.choice = choice, !.sel = sel]
          /\ crq' = [crq EXCEPT !.signIt = crq.signIt \/ sel \notin {form.sel, Null}]
        BY <1>6 DEF ChooseSigner
    <2>2. FormOK(form') /\ form'.email = form.email
        BY <2>1 DEF WizardInv, FormOK, FormFields
    <2>3. /\ DOMAIN crq' = CrqFields /\ crq'.name = crq.name /\ crq'.cert = crq.cert
          /\ crq'.call = crq.call /\ crq'.nb = crq.nb /\ crq'.na = crq.na
          /\ crq'.dxcc = crq.dxcc
          /\ crq'.signIt \in BOOLEAN /\ (crq.signIt => crq'.signIt)
        BY <2>1 DEF WizardInv, CrqOK, CrqFields
    <2> QED BY <2>1, <2>2, <2>3 DEF WizardInv, OnPage, Past, FormOK, CrqOK, CallOK, ValidCerts, Selected
<1>7. ASSUME NEW pg \in Pages, Next_(pg) \/ Back(pg) PROVE WizardInv'
    BY <1>7, MoveKeeps
<1>8. CASE Cancel
    BY <1>8 DEF Cancel, WizardInv, OnPage, Past, FormOK, CrqOK, CallOK, ValidCerts, Selected
<1>9. CASE CreateCertRequest
    <2>1. /\ page = "finished" /\ UNCHANGED <<form, crq, store, renewal>>
          /\ page' \in {"abandoned", "created"} \/ (page' = "refused" /\ RequestRefused(crq, form.email))
        BY <1>9 DEF CreateCertRequest
    <2>2. page' \in {"abandoned", "created"}
        BY <2>1, NothingWrong
    <2> QED BY <2>1, <2>2 DEF WizardInv, OnPage, Past, FormOK, CrqOK, CallOK, ValidCerts, Selected
<1>10. CASE UNCHANGED vars
    BY <1>10 DEF vars, WizardInv, OnPage, Past, FormOK, CrqOK, CallOK, ValidCerts, Selected
<1> QED BY <1>1, <1>2, <1>3, <1>4, <1>5, <1>6, <1>7, <1>8, <1>9, <1>10 DEF Next

-----------------------------------------------------------------------------
(* The theorems.                                                           *)

\* The inductive invariant holds in every state of the wizard: the data of the
\* pages that were left is complete, through every way back and forth.
THEOREM Wizard == Spec => []WizardInv
BY InitWizard, NextKeeps, PTL DEF Spec

\* What the pages let through, tqsl_createCertRequest takes: whatever is typed
\* and however the pages are walked, the request is not refused.
THEOREM RequestTaken == Spec => []NothingRefused
<1>1. WizardInv => NothingRefused
    BY DEF WizardInv, OnPage, Past, NothingRefused
<1> QED BY <1>1, Wizard, PTL

\* Who signs, on every walk through the pages: a renewal is signed by the
\* certificate it renews, a new request by the one selected when the page for
\* the signature was left last, and with the answer Yes there is one.
THEOREM SignatureAsSelected == Spec => []SignedBySelected
<1>1. WizardInv => SignedBySelected
    BY DEF WizardInv, OnPage, CrqOK, Selected, SignedBySelected
<1> QED BY <1>1, Wizard, PTL

\* What the page for the call sign has checked is sound, counted in days.
LEMMA CheckedIsSound == WizardInv => AcceptedIsSound
<1> SUFFICES ASSUME WizardInv, page \notin {"provider", "callsign", "cancelled"}
             PROVE  LET nb == DayNo(crq.nb)
                        na == LastDay(crq.na)
                    IN  /\ crq.call \in WellFormed \ store.pending
                        /\ nb <= na
                        /\ nb >= FirstDay(EntityStart[crq.dxcc])
                        /\ na <= LastDay(EntityEnd[crq.dxcc])
                        /\ renewal = Null => \A e \in EntryOf(store, crq.call, crq.dxcc) :
                              IsDateNull(e.na) \/ nb > LastDay(e.na) \/ na < DayNo(e.nb)
    BY DEF AcceptedIsSound
<1>1. CallOK(crq) /\ store \in Stores
    BY DEF WizardInv, OnPage
<1>2. PICK call, x, nb, na : call = crq.call /\ x = crq.dxcc /\ nb = crq.nb /\ na = crq.na
    BY Zenon
<1>3. Checked(call, x, nb, na, store, renewal)
    BY <1>1, <1>2 DEF CallOK
<1>4. PICK start, end : start = EntityStart[x] /\ end = EntityEnd[x]
    BY Zenon
<1> DEFINE one  == [y |-> 1945, m |-> 1, d |-> 1]
           from == [y |-> 1945, m |-> 11, d |-> 1]
<1>5. (IsDateNull(start) \/ IsDateValid(start)) /\ (IsDateNull(end) \/ IsDateValid(end))
    BY <1>3, <1>4, EntityAssumption DEF Checked
<1>6. /\ IsDateValid(nb) /\ (IsDateNull(na) \/ IsDateValid(na))
      /\ IsDateValid(na) => CompareDates(nb, na) <= 0
      /\ IsDateValid(end) => ~IsDateNull(na) /\ CompareDates(na, end) <= 0
      /\ IsDateValid(start) => CompareDates(nb, start) >= 0
      /\ ~IsDateValid(start) => CompareDates(nb, from) >= 0
    BY <1>3, <1>4 DEF Checked, DatesFit
\* Days of the calendar, from the first one the boxes offer.
<1>7. IsDateValid(one) /\ IsDateValid(from) /\ CompareDates(from, one) = 1
    <2>1. 1 \in 1..DaysPerMonth(1945, 1) /\ 1 \in 1..DaysPerMonth(1945, 11)
        BY DEF DaysPerMonth
    <2>2. CompareDates(from, one) = 1
        BY DEF CompareDates
    <2>3. 1945 \in Years
        BY DEF Years
    <2> QED BY <2>1, <2>2, <2>3 DEF IsDateValid
<1>a. \A a : DayNo(a) = SubtractDates(one, a)
    BY DEF DayNo
<1> HIDE DEF one, from
<1>8. PICK base \in Int : base = DayCount(one) /\ base >= 1
    BY <1>7, DayCountIn
<1>9. \A a : IsDateValid(a) =>
          /\ DayNo(a) = DayCount(a) - base /\ DayNo(a) \in Int /\ DayNo(a) < Forever
          /\ ~IsDateNull(a) /\ FirstDay(a) = DayNo(a) /\ LastDay(a) = DayNo(a)
    <2> SUFFICES ASSUME NEW a, IsDateValid(a)
                 PROVE  /\ DayNo(a) = DayCount(a) - base /\ DayNo(a) \in Int /\ DayNo(a) < Forever
                        /\ ~IsDateNull(a) /\ FirstDay(a) = DayNo(a) /\ LastDay(a) = DayNo(a)
        OBVIOUS
    <2>1. DayNo(a) = DayCount(a) - base
        BY <1>a, <1>7, <1>8, SubtractCounts
    <2>2. DayCount(a) \in Int /\ DayCount(a) < 4000000
        BY DayCountIn
    <2>3. DayNo(a) \in Int /\ DayNo(a) < Forever
        BY <1>8, <2>1, <2>2 DEF Forever
    <2>4. ~IsDateNull(a)
        BY NullIsNoDay
    <2> QED BY <2>1, <2>3, <2>4 DEF FirstDay, LastDay
<1>10. \A a : IsDateNull(a) => FirstDay(a) = 0 /\ LastDay(a) = Forever
    BY DEF FirstDay, LastDay
<1>11. ASSUME NEW a, NEW c, IsDateValid(a), IsDateValid(c)
       PROVE  /\ CompareDates(a, c) \in {-1, 0, 1}
              /\ CompareDates(a, c) <= 0 => DayNo(a) <= DayNo(c)
              /\ CompareDates(a, c) >= 0 => DayNo(a) >= DayNo(c)
              /\ CompareDates(a, c) = 1 => DayNo(a) > DayNo(c)
              /\ CompareDates(a, c) = -1 => DayNo(a) < DayNo(c)
    <2>1. DayCount(a) \in Int /\ DayCount(c) \in Int
        BY <1>11, DayCountIn
    <2>2. DayNo(a) = DayCount(a) - base /\ DayNo(c) = DayCount(c) - base
        BY <1>9, <1>11
    <2>3. /\ CompareDates(a, c) \in {-1, 0, 1}
          /\ CompareDates(a, c) = -1 => DayCount(a) < DayCount(c)
          /\ CompareDates(a, c) = 0 => DayCount(a) = DayCount(c)
          /\ CompareDates(a, c) = 1 => DayCount(a) > DayCount(c)
        BY <1>11, CompareIsOrder
    <2> QED BY <1>8, <2>1, <2>2, <2>3
<1> DEFINE first == DayNo(nb)
           last  == LastDay(na)
<1>12. first \in Int /\ first < Forever /\ last \in Int /\ last <= Forever
    <2>1. Forever \in Int
        BY DEF Forever
    <2> QED BY <1>6, <1>9, <1>10, <2>1
<1>13. call \in WellFormed \ store.pending
    BY <1>3 DEF Checked
<1>14. first <= last
    <2>1. CASE IsDateNull(na)
        BY <1>10, <1>12, <2>1
    <2>2. CASE IsDateValid(na)
        BY <1>6, <1>9, <1>11, <2>2
    <2> QED BY <1>6, <2>1, <2>2
<1>15. first >= FirstDay(start)
    <2>1. CASE IsDateValid(start)
        BY <1>6, <1>9, <1>11, <2>1
    <2>2. CASE IsDateNull(start)
        <3>1. CompareDates(nb, from) >= 0
            BY <1>6, <1>9, <2>2
        <3>2. first >= DayNo(from)
            BY <1>6, <1>7, <1>11, <3>1
        <3>3. DayNo(from) > DayNo(one)
            BY <1>7, <1>11
        <3>4. DayNo(one) = 0
            <4>1. DayNo(one) = base - base
                BY <1>7, <1>8, <1>9
            <4> QED BY <4>1
        <3>5. DayNo(from) \in Int
            BY <1>7, <1>9
        <3> QED BY <1>10, <1>12, <2>2, <3>2, <3>3, <3>4, <3>5
    <2> QED BY <1>5, <2>1, <2>2
<1>16. last <= LastDay(end)
    <2>1. CASE IsDateNull(end)
        BY <1>10, <1>12, <2>1
    <2>2. CASE IsDateValid(end)
        <3>1. IsDateValid(na) /\ CompareDates(na, end) <= 0
            BY <1>6, <2>2
        <3> QED BY <1>9, <1>11, <2>2, <3>1
    <2> QED BY <1>5, <2>1, <2>2
<1>17. ASSUME renewal = Null, NEW e \in EntryOf(store, call, x), ~IsDateNull(e.na)
       PROVE  first > LastDay(e.na) \/ last < DayNo(e.nb)
    <2>1. PICK b, c : b = e.nb /\ c = e.na
        BY Zenon
    <2>2. e \in store.entries
        BY <1>17 DEF EntryOf
    <2>3. IsDateValid(b) /\ IsDateValid(c)
        BY <1>1, <1>17, <2>1, <2>2, StoreAssumption
    <2>4. ~Overlaps(nb, na, e)
        BY <1>3, <1>17 DEF Checked
    <2>5. CASE IsDateValid(na)
        <3>1. CompareDates(nb, c) = 1 \/ CompareDates(na, b) = -1
            BY <2>1, <2>4, <2>5 DEF Overlaps
        <3>2. DayNo(nb) > DayNo(c) \/ DayNo(na) < DayNo(b)
            BY <1>6, <1>11, <2>3, <2>5, <3>1
        <3> QED BY <1>9, <2>1, <2>3, <2>5, <3>2
    <2>6. CASE IsDateNull(na)
        <3>1. ~IsDateValid(na)
            BY <1>9, <2>6
        <3>2. CompareDates(nb, c) = 1
            BY <2>1, <2>4, <3>1 DEF Overlaps
        <3>3. DayNo(nb) > DayNo(c)
            BY <1>6, <1>11, <2>3, <3>2
        <3> QED BY <1>9, <2>1, <2>3, <3>3
    <2> QED BY <1>6, <2>5, <2>6
<1> HIDE DEF first, last
<1>18. renewal = Null => \A e \in EntryOf(store, call, x) :
          IsDateNull(e.na) \/ first > LastDay(e.na) \/ last < DayNo(e.nb)
    BY <1>17
<1> QED BY <1>2, <1>4, <1>13, <1>14, <1>15, <1>16, <1>18 DEF first, last

\* What the page for the call sign accepted is a request that may be sent, on
\* every later page: the comparisons field by field and the dates that entities
\* rewrite leave days in order, inside the entity's, and shared with no entry
\* that has an end.
THEOREM AcceptedSoundly == Spec => []AcceptedIsSound
BY CheckedIsSound, Wizard, PTL
=============================================================================
