---------------------------- MODULE SheetsProofs ----------------------------
(***************************************************************************)
(* Theorems about Sheets, for any number of sessions, keys, rows, retries  *)
(* and edits, for columns of any number of letters, and whichever faults   *)
(* may happen unless a theorem says otherwise.                             *)
(***************************************************************************)
EXTENDS Sheets, FiniteSetTheorems, SequenceTheorems, WellFoundedInduction, TLAPS

(* Least and greatest numbers. *)

\* Stands in for induction: what holds of 0, and of a number if it holds of those
\* below, has no least exception.
LEMMA LeastNumber ==
    ASSUME NEW S, S \subseteq Nat, S # {}
    PROVE  \E m \in S : \A j \in S : m <= j
<1> DEFINE R == StrictSubsetOrdering(Nat)
           T == {0..m : m \in S}
<1>1. \A m \in Nat : 0..m \in FiniteSubsetsOf(Nat)
  BY FS_Interval DEF FiniteSubsetsOf
<1>2. PICK X \in T : \A Y \in T : <<Y, X>> \notin R
  <2>1. T \subseteq FiniteSubsetsOf(Nat) /\ T # {}
    BY <1>1
  <2> HIDE DEF T, R
  <2> QED BY <2>1, FS_StrictSubsetOrderingWellFounded, WFMin DEF R
<1>3. PICK m \in S : X = 0..m
  BY <1>2
<1>4. ASSUME NEW j \in S, j < m PROVE FALSE
  <2>1. 0..j \subseteq 0..m /\ m \in 0..m /\ m \notin 0..j /\ j \in Nat /\ m \in Nat
    BY <1>4
  <2>2. <<0..j, 0..m>> \in R
    BY <2>1 DEF StrictSubsetOrdering
  <2> QED BY <1>2, <1>3, <2>2
<1> QED BY <1>3, <1>4

LEMMA GreatestNumber ==
    ASSUME NEW n \in Nat, NEW S, S \subseteq 0..n, S # {}
    PROVE  \E m \in S : \A j \in S : j <= m
<1> DEFINE T == {j \in 0..n : n - j \in S}
<1>1. T \subseteq Nat /\ T # {}
  <2>1. PICK i \in S : TRUE OBVIOUS
  <2>2. n - i \in T /\ T \subseteq Nat OBVIOUS
  <2> HIDE DEF T
  <2> QED BY <2>2
<1>2. PICK m \in T : \A j \in T : m <= j
  <2> HIDE DEF T
  <2> QED BY <1>1, LeastNumber
<1>3. ASSUME NEW j \in S PROVE j <= n - m
  <2>1. n - j \in T OBVIOUS
  <2> QED BY <2>1, <1>2
<1> QED BY <1>2, <1>3

LEMMA LastInMax ==
    ASSUME NEW n \in Nat, NEW S, S \subseteq 1..n, S # {}
    PROVE  /\ LastIn(S) \in S
           /\ \A i \in S : i <= LastIn(S)
<1>1. \E m \in S : \A j \in S : j <= m
  BY GreatestNumber, 1..n \subseteq 0..n
<1> QED BY <1>1 DEF LastIn

-----------------------------------------------------------------------------
(* Names and numbers of columns. *)

LEMMA DivMod ==
    ASSUME NEW n \in Nat \ {0}
    PROVE  /\ (n - 1) \div 26 \in 0..(n-1)
           /\ ((n - 1) % 26) + 1 \in 1..26
           /\ n = ((n - 1) \div 26) * 26 + ((n - 1) % 26) + 1
OBVIOUS
Letters == 1..26

\* The functions in the definitions of IndexToCol and ColToIndex.
IsNames(out, N) ==
    out = [n \in 0..N |->
             IF n = 0 THEN <<>> ELSE Append(out[(n - 1) \div 26], ((n - 1) % 26) + 1)]
IsNumbers(f, s, k) ==
    f = [i \in 0..k |-> IF i = 0 THEN 0 ELSE f[i - 1] * 26 + s[i]]

LEMMA NamesExist == \A N \in Nat : \E out : IsNames(out, N)
<1> DEFINE Bad == {N \in Nat : ~\E out : IsNames(out, N)}
<1> SUFFICES ASSUME Bad # {} PROVE FALSE OBVIOUS
<1>1. PICK N \in Bad : \A M \in Bad : N <= M
  <2> HIDE DEF Bad
  <2>1. Bad \subseteq Nat BY DEF Bad
  <2> QED BY <2>1, LeastNumber
<1>2. N # 0
  <2> DEFINE out == [n \in 0..0 |-> <<>>]
  <2>1. IsNames(out, 0) BY DEF IsNames
  <2> QED BY <2>1, <1>1
<1>3. PICK f : IsNames(f, N - 1) BY <1>1, <1>2
<1> DEFINE out == [n \in 0..N |-> IF n = N THEN Append(f[(N - 1) \div 26], ((N - 1) % 26) + 1)
                                  ELSE f[n]]
<1>4. ASSUME NEW n \in 0..N, n # 0
      PROVE  out[n] = Append(out[(n - 1) \div 26], ((n - 1) % 26) + 1)
  <2>1. (n - 1) \div 26 \in 0..(n - 1) BY <1>4, DivMod
  <2>2. out[(n - 1) \div 26] = f[(n - 1) \div 26] BY <2>1
  <2>3. CASE n = N BY <2>2, <2>3
  <2>4. CASE n # N
    <3>1. f[n] = Append(f[(n - 1) \div 26], ((n - 1) % 26) + 1)
      <4>1. n \in 0..(N - 1) /\ N - 1 \in Nat BY <1>1, <1>4, <2>4
      <4> QED BY <1>3, <1>4, <4>1 DEF IsNames
    <3> QED BY <2>2, <2>4, <3>1
  <2> QED BY <2>3, <2>4
<1>5. out[0] = <<>> BY <1>2, <1>3 DEF IsNames
<1>6. IsNames(out, N)
  <2>1. out = [n \in 0..N |-> out[n]] OBVIOUS
  <2> HIDE DEF out
  <2> QED BY <1>4, <1>5, <2>1 DEF IsNames
<1> QED BY <1>1, <1>6

LEMMA IndexToColNames ==
    ASSUME NEW index \in Nat
    PROVE  \E out : IsNames(out, index + 1) /\ IndexToCol(index) = out[index + 1]
<1> DEFINE out == CHOOSE f : IsNames(f, index + 1)
<1>1. IsNames(out, index + 1) BY NamesExist
<1>2. IndexToCol(index) = out[index + 1] BY DEF IndexToCol, IsNames
<1> QED BY <1>1, <1>2

LEMMA NumbersExist ==
    ASSUME NEW s
    PROVE  \A k \in Nat : \E f : IsNumbers(f, s, k)
<1> DEFINE Bad == {k \in Nat : ~\E f : IsNumbers(f, s, k)}
<1> SUFFICES ASSUME Bad # {} PROVE FALSE OBVIOUS
<1>1. PICK k \in Bad : \A m \in Bad : k <= m
  <2>1. Bad \subseteq Nat OBVIOUS
  <2> HIDE DEF Bad
  <2> QED BY <2>1, LeastNumber
<1>2. k # 0
  <2> DEFINE f == [i \in 0..0 |-> 0]
  <2>1. IsNumbers(f, s, 0) BY DEF IsNumbers
  <2> QED BY <2>1, <1>1
<1>3. PICK f : IsNumbers(f, s, k - 1) BY <1>1, <1>2
<1> DEFINE g == [i \in 0..k |-> IF i = k THEN f[k - 1] * 26 + s[k] ELSE f[i]]
<1>4. ASSUME NEW i \in 0..k, i # 0 PROVE g[i] = g[i - 1] * 26 + s[i]
  <2>1. i - 1 \in 0..(k - 1) /\ g[i - 1] = f[i - 1] BY <1>4
  <2>2. CASE i = k BY <2>1, <2>2
  <2>3. CASE i # k
    <3>1. i \in 0..(k - 1) /\ f[i] = f[i - 1] * 26 + s[i] BY <1>3, <1>4, <2>3 DEF IsNumbers
    <3> QED BY <2>1, <2>3, <3>1
  <2> QED BY <2>2, <2>3
<1>5. g[0] = 0 BY <1>2, <1>3 DEF IsNumbers
<1>6. IsNumbers(g, s, k)
  <2>1. g = [i \in 0..k |-> g[i]] OBVIOUS
  <2> HIDE DEF g
  <2> QED BY <1>4, <1>5, <2>1 DEF IsNumbers
<1> QED BY <1>1, <1>6

LEMMA ColToIndexNumbers ==
    ASSUME NEW s, Len(s) \in Nat
    PROVE  \E f : IsNumbers(f, s, Len(s)) /\ ColToIndex(s) = f[Len(s)] - 1
<1> DEFINE f == CHOOSE g : IsNumbers(g, s, Len(s))
<1>1. IsNumbers(f, s, Len(s)) BY NumbersExist
<1>2. ColToIndex(s) = f[Len(s)] - 1 BY DEF ColToIndex, IsNumbers
<1> QED BY <1>1, <1>2

LEMMA NamesApply ==
    ASSUME NEW N \in Nat, NEW f, IsNames(f, N), NEW n \in 0..N
    PROVE  f[n] = IF n = 0 THEN <<>> ELSE Append(f[(n - 1) \div 26], ((n - 1) % 26) + 1)
<1> DEFINE Row(g, i) == IF i = 0 THEN <<>> ELSE Append(g[(i - 1) \div 26], ((i - 1) % 26) + 1)
<1>1. f = [i \in 0..N |-> Row(f, i)] BY DEF IsNames
<1> HIDE DEF Row
<1>2. f[n] = Row(f, n) BY <1>1
<1> QED BY <1>2 DEF Row

LEMMA NumbersType ==
    ASSUME NEW s \in Seq(Letters), NEW k \in 0..Len(s), NEW f, IsNumbers(f, s, k)
    PROVE  \A i \in 0..k : f[i] \in Nat
<1> DEFINE Bad == {i \in 0..k : f[i] \notin Nat}
<1> SUFFICES ASSUME Bad # {} PROVE FALSE OBVIOUS
<1>1. PICK i \in Bad : \A j \in Bad : i <= j
  <2>1. Bad \subseteq Nat OBVIOUS
  <2> HIDE DEF Bad
  <2> QED BY <2>1, LeastNumber
<1>2. i # 0 BY <1>1 DEF IsNumbers
<1>3. f[i - 1] \in Nat /\ s[i] \in Nat
  <2>1. i \in 1..Len(s) /\ i - 1 \in 0..k /\ i - 1 < i BY <1>1, <1>2
  <2>2. s[i] \in Letters BY <2>1
  <2>3. \A d \in Letters : d \in Nat BY DEF Letters
  <2>4. i - 1 \notin Bad
    <3> HIDE DEF Bad
    <3> QED BY <1>1, <2>1
  <2> QED BY <2>1, <2>2, <2>3, <2>4
<1>4. f[i] = f[i - 1] * 26 + s[i] BY <1>1, <1>2 DEF IsNumbers
<1> QED BY <1>1, <1>3, <1>4

\* Names and numbers do not depend on how far they are tabulated.
LEMMA NamesAgree ==
    ASSUME NEW N \in Nat, NEW M \in Nat, NEW f, NEW g, IsNames(f, N), IsNames(g, M)
    PROVE  \A n \in Nat : n <= N /\ n <= M => f[n] = g[n]
<1> DEFINE Bad == {n \in Nat : n <= N /\ n <= M /\ f[n] # g[n]}
<1> SUFFICES ASSUME Bad # {} PROVE FALSE OBVIOUS
<1>1. PICK n \in Bad : \A m \in Bad : n <= m
  <2>1. Bad \subseteq Nat OBVIOUS
  <2> HIDE DEF Bad
  <2> QED BY <2>1, LeastNumber
<1>2. n # 0 BY <1>1 DEF IsNames
<1>3. (n - 1) \div 26 \in 0..(n - 1) BY <1>1, <1>2, DivMod
<1>4. f[(n - 1) \div 26] = g[(n - 1) \div 26] BY <1>1, <1>2, <1>3
<1>5. f[n] = g[n] BY <1>1, <1>2, <1>4, NamesApply
<1> QED BY <1>1, <1>5

LEMMA NumbersAgree ==
    ASSUME NEW k \in Nat, NEW m \in Nat, NEW s, NEW t, NEW f, NEW g,
           IsNumbers(f, s, k), IsNumbers(g, t, m), k <= m,
           \A i \in 1..k : s[i] = t[i]
    PROVE  \A i \in 0..k : f[i] = g[i]
<1> DEFINE Bad == {i \in 0..k : f[i] # g[i]}
<1> SUFFICES ASSUME Bad # {} PROVE FALSE OBVIOUS
<1>1. PICK i \in Bad : \A j \in Bad : i <= j
  <2>1. Bad \subseteq Nat OBVIOUS
  <2> HIDE DEF Bad
  <2> QED BY <2>1, LeastNumber
<1>2. i # 0 BY <1>1 DEF IsNumbers
<1>3. f[i - 1] = g[i - 1] BY <1>1, <1>2
<1>4. f[i] = g[i] BY <1>1, <1>2, <1>3 DEF IsNumbers
<1> QED BY <1>1, <1>4

\* The name with nothing in it has the number 0.
Name(n) == IF n = 0 THEN <<>> ELSE IndexToCol(n - 1)
Number(s) == ColToIndex(s) + 1

LEMMA NameStep ==
    ASSUME NEW n \in Nat \ {0}
    PROVE  Name(n) = Append(Name((n - 1) \div 26), ((n - 1) % 26) + 1)
<1>1. PICK f : IsNames(f, n) /\ IndexToCol(n - 1) = f[n]
  <2>1. n - 1 \in Nat /\ (n - 1) + 1 = n OBVIOUS
  <2> QED BY <2>1, IndexToColNames
<1>2. (n - 1) \div 26 \in 0..(n - 1) BY DivMod
<1>3. f[n] = Append(f[(n - 1) \div 26], ((n - 1) % 26) + 1)
  <2>1. n \in 0..n /\ n # 0 OBVIOUS
  <2> QED BY <1>1, <2>1, NamesApply
<1>4. Name((n - 1) \div 26) = f[(n - 1) \div 26]
  <2> DEFINE q == (n - 1) \div 26
  <2>1. CASE q = 0 BY <1>1, <2>1 DEF IsNames, Name
  <2>2. CASE q # 0
    <3> HIDE DEF q
    <3>0. q \in Nat \ {0} /\ q <= n BY <1>2, <2>2 DEF q
    <3>1. q - 1 \in Nat /\ (q - 1) + 1 = q BY <3>0
    <3>2. PICK g : IsNames(g, q) /\ IndexToCol(q - 1) = g[q] BY <3>1, IndexToColNames
    <3>3. f[q] = g[q] BY <1>1, <3>0, <3>2, NamesAgree
    <3>4. Name(q) = f[q] BY <2>2, <3>2, <3>3 DEF Name
    <3> QED BY <3>4 DEF q
  <2> QED BY <2>1, <2>2
<1> QED BY <1>1, <1>3, <1>4 DEF Name

LEMMA NumberStep ==
    ASSUME NEW s \in Seq(Letters), NEW d \in Letters
    PROVE  Number(s) \in Nat /\ Number(Append(s, d)) = Number(s) * 26 + d
<1> DEFINE t == Append(s, d)
           k == Len(s)
<1>1. k \in Nat /\ Len(t) = k + 1 /\ t[k + 1] = d /\ \A i \in 1..k : s[i] = t[i]
  OBVIOUS
<1>0. t \in Seq(Letters) OBVIOUS
<1> HIDE DEF t, k
<1>2. PICK f : IsNumbers(f, s, k) /\ ColToIndex(s) = f[k] - 1
  BY <1>1, ColToIndexNumbers DEF k
<1>3. PICK g : IsNumbers(g, t, k + 1) /\ ColToIndex(t) = g[k + 1] - 1
  BY <1>1, ColToIndexNumbers
<1>4. f[k] = g[k] BY <1>1, <1>2, <1>3, NumbersAgree
<1>5. g[k + 1] = g[k] * 26 + d BY <1>1, <1>3 DEF IsNumbers
<1>6. f[k] \in Nat /\ g[k + 1] \in Nat
  BY <1>0, <1>1, <1>2, <1>3, NumbersType DEF k
<1>8. Number(s) = f[k] BY <1>2, <1>6 DEF Number
<1>9. Number(t) = g[k + 1] BY <1>3, <1>6 DEF Number
<1> QED BY <1>4, <1>5, <1>6, <1>8, <1>9 DEF t

LEMMA NumberEmpty == Number(<<>>) = 0
<1>1. PICK f : IsNumbers(f, <<>>, 0) /\ ColToIndex(<<>>) = f[0] - 1
  BY ColToIndexNumbers, Len(<<>>) = 0
<1> QED BY <1>1 DEF Number, IsNumbers

\* index_to_col writes a number so that col_to_index reads it back (a1.py:25-33).
THEOREM NumberOfName ==
    ASSUME NEW n \in Nat
    PROVE  Name(n) \in Seq(Letters) /\ Number(Name(n)) = n
<1> DEFINE Bad == {i \in Nat : ~(Name(i) \in Seq(Letters) /\ Number(Name(i)) = i)}
<1> SUFFICES ASSUME Bad # {} PROVE FALSE OBVIOUS
<1>1. PICK i \in Bad : \A j \in Bad : i <= j
  <2>1. Bad \subseteq Nat OBVIOUS
  <2> HIDE DEF Bad
  <2> QED BY <2>1, LeastNumber
<1>2. i # 0 BY <1>1, NumberEmpty DEF Name
<1> DEFINE q == (i - 1) \div 26
           d == ((i - 1) % 26) + 1
<1>3. q \in 0..(i - 1) /\ d \in Letters /\ i = q * 26 + d
  BY <1>1, <1>2, DivMod DEF Letters
<1>4. Name(i) = Append(Name(q), d) BY <1>1, <1>2, NameStep
<1> HIDE DEF q, d
<1>5. q \in Nat /\ q < i /\ d \in Letters BY <1>1, <1>3
<1>6. Name(q) \in Seq(Letters) /\ Number(Name(q)) = q BY <1>1, <1>5
<1>7. Name(i) \in Seq(Letters)
  <2>1. \A s \in Seq(Letters) : Append(s, d) \in Seq(Letters) BY <1>5
  <2> QED BY <1>4, <1>6, <2>1
<1>8. Number(Name(i)) = i BY <1>3, <1>4, <1>6, NumberStep
<1> QED BY <1>1, <1>7, <1>8

\* And the other way: a name is written again as it was read.
THEOREM NameOfNumber ==
    ASSUME NEW s \in Seq(Letters)
    PROVE  Number(s) \in Nat /\ Name(Number(s)) = s
<1> DEFINE Good(t) == Number(t) \in Nat /\ Name(Number(t)) = t
           Bad == {k \in Nat : \E t \in Seq(Letters) : Len(t) = k /\ ~Good(t)}
<1> SUFFICES ASSUME Bad # {} PROVE FALSE
  <2>1. Len(s) \in Nat OBVIOUS
  <2> QED BY <2>1
<1>1. PICK k \in Bad : \A j \in Bad : k <= j
  <2>1. Bad \subseteq Nat OBVIOUS
  <2> HIDE DEF Bad
  <2> QED BY <2>1, LeastNumber
<1>2. PICK t \in Seq(Letters) : Len(t) = k /\ ~Good(t) BY <1>1
<1>3. t # <<>>
  <2>1. Good(<<>>) BY NumberEmpty DEF Name
  <2> QED BY <2>1, <1>2
<1>4. PICK u \in Seq(Letters), d \in Letters : t = Append(u, d)
  BY <1>2, <1>3, SequenceEmptyOrAppend
<1>5. Len(u) \in Nat /\ Len(u) < k BY <1>2, <1>4
<1>6. Good(u) BY <1>1, <1>5
<1>7. Number(t) = Number(u) * 26 + d BY <1>4, NumberStep
<1>8. d \in 1..26 BY DEF Letters
<1>9. /\ Number(t) \in Nat \ {0}
      /\ (Number(t) - 1) \div 26 = Number(u)
      /\ ((Number(t) - 1) % 26) + 1 = d
  <2> DEFINE m == Number(u)
             n == Number(t)
  <2>1. m \in Nat /\ n = m * 26 + d BY <1>6, <1>7
  <2> HIDE DEF m, n, Good, Bad
  <2>2. n \in Nat \ {0} /\ (n - 1) \div 26 = m /\ ((n - 1) % 26) + 1 = d
    BY <1>8, <2>1
  <2> QED BY <2>2 DEF m, n
<1>10. Name(Number(t)) = Append(Name(Number(u)), d) BY <1>9, NameStep
<1> QED BY <1>2, <1>4, <1>6, <1>9, <1>10

\* Each column has one name and each name is of one column, however many letters
\* it has: the two conversions of a1.py are inverse to each other.
THEOREM ColumnsInverse ==
    /\ \A i \in Nat : ColToIndex(IndexToCol(i)) = i
    /\ \A s \in Seq(1..26) : s # <<>> => IndexToCol(ColToIndex(s)) = s
<1>1. ASSUME NEW i \in Nat PROVE ColToIndex(IndexToCol(i)) = i
  <2>1. Number(Name(i + 1)) = i + 1 /\ Name(i + 1) \in Seq(Letters) BY NumberOfName
  <2>2. Name(i + 1) = IndexToCol(i) BY DEF Name
  <2>3. ColToIndex(IndexToCol(i)) \in Int
    <3> DEFINE s == Name(i + 1)
    <3>1. PICK f : IsNumbers(f, s, Len(s)) /\ ColToIndex(s) = f[Len(s)] - 1
      BY <2>1, ColToIndexNumbers
    <3>2. f[Len(s)] \in Nat BY <2>1, <3>1, NumbersType
    <3> QED BY <2>2, <3>1, <3>2
  <2> QED BY <2>1, <2>2, <2>3 DEF Number
<1>2. ASSUME NEW s \in Seq(1..26), s # <<>> PROVE IndexToCol(ColToIndex(s)) = s
  <2>1. Number(s) \in Nat /\ Name(Number(s)) = s BY NameOfNumber DEF Letters
  <2>2. Number(s) # 0 BY <1>2, <2>1 DEF Name
  <2>3. ColToIndex(s) \in Int
    <3>0. s \in Seq(Letters) /\ Len(s) \in Nat BY DEF Letters
    <3>1. PICK f : IsNumbers(f, s, Len(s)) /\ ColToIndex(s) = f[Len(s)] - 1
      BY <3>0, ColToIndexNumbers
    <3>2. f[Len(s)] \in Nat BY <3>0, <3>1, NumbersType
    <3> QED BY <3>1, <3>2
  <2>4. Number(s) - 1 = ColToIndex(s) BY <2>3 DEF Number
  <2> QED BY <2>1, <2>2, <2>4 DEF Name
<1> QED BY <1>1, <1>2

LEMMA RoundTripHolds == RoundTrip
<1>1. ASSUME NEW i \in 0..LastColumn PROVE ColToIndex(IndexToCol(i)) = i
  <2>1. i \in Nat BY DEF LastColumn
  <2> QED BY <2>1, ColumnsInverse
<1>2. ASSUME NEW a \in 1..26, NEW b \in 1..26
      PROVE  IndexToCol(ColToIndex(<<a, b>>)) = <<a, b>>
  <2>1. <<a, b>> \in Seq(1..26) /\ <<a, b>> # <<>> OBVIOUS
  <2> QED BY <2>1, ColumnsInverse
<1> QED BY <1>1, <1>2 DEF RoundTrip

\* The columns a write names by letters are those it has found by index.
THEOREM ColumnsRoundTripHolds == Spec => []ColumnsRoundTrip
<1>1. Init => ColumnsRoundTrip BY RoundTripHolds DEF ColumnsRoundTrip
<1>2. ColumnsRoundTrip /\ [Next]_vars => ColumnsRoundTrip'
  <2>1. RoundTrip' <=> RoundTrip BY DEF RoundTrip
  <2> QED BY <2>1, RoundTripHolds DEF ColumnsRoundTrip
<1> QED BY <1>1, <1>2, PTL DEF Spec

-----------------------------------------------------------------------------
(* What happens to a sheet. *)

Inserted(s, p, r) == SubSeq(s, 1, p) \o <<r>> \o SubSeq(s, p + 1, Len(s))
Swapped(s, i) == [s EXCEPT ![i] = s[i + 1], ![i + 1] = s[i]]

\* t is s with r put in after its first p rows.
HasInserted(t, s, p, r) ==
    /\ t \in Seq(Rows)
    /\ Len(t) = Len(s) + 1
    /\ \A i \in 1..(Len(s) + 1) :
          t[i] = IF i <= p THEN s[i] ELSE IF i = p + 1 THEN r ELSE s[i - 1]

LEMMA InsertedRows ==
    ASSUME NEW s \in Seq(Rows), NEW p \in 0..Len(s), NEW r \in Rows
    PROVE  HasInserted(Inserted(s, p, r), s, p, r)
<1> DEFINE a == SubSeq(s, 1, p)
           b == SubSeq(s, p + 1, Len(s))
           t == a \o <<r>>
<1>1. a \in Seq(Rows) /\ Len(a) = p /\ \A i \in 1..p : a[i] = s[i]
  OBVIOUS
<1>2. b \in Seq(Rows) /\ Len(b) = Len(s) - p /\ \A i \in 1..(Len(s) - p) : b[i] = s[p + i]
  OBVIOUS
<1> HIDE DEF a, b
<1>3. /\ t \in Seq(Rows) /\ Len(t) = p + 1
      /\ \A i \in 1..(p + 1) : t[i] = IF i = p + 1 THEN r ELSE s[i]
  BY <1>1
<1> HIDE DEF t
<1>4. /\ t \o b \in Seq(Rows) /\ Len(t \o b) = Len(s) + 1
      /\ \A i \in 1..(Len(s) + 1) : (t \o b)[i] = IF i <= p + 1 THEN t[i] ELSE b[i - (p + 1)]
  <2>1. Len(t) + Len(b) = Len(s) + 1 /\ Len(t) = p + 1 /\ t \in Seq(Rows) /\ b \in Seq(Rows)
    BY <1>2, <1>3
  <2>2. /\ t \o b \in Seq(Rows) /\ Len(t \o b) = Len(t) + Len(b)
        /\ \A i \in 1..(Len(t) + Len(b)) :
              (t \o b)[i] = IF i <= Len(t) THEN t[i] ELSE b[i - Len(t)]
    BY <2>1, ConcatProperties
  <2> QED BY <2>1, <2>2
<1>5. \A i \in 1..(Len(s) + 1) : i > p + 1 => b[i - (p + 1)] = s[i - 1]
  <2> SUFFICES ASSUME NEW i \in 1..(Len(s) + 1), i > p + 1 PROVE b[i - (p + 1)] = s[i - 1]
    OBVIOUS
  <2>1. i - (p + 1) \in 1..(Len(s) - p) /\ p + (i - (p + 1)) = i - 1 OBVIOUS
  <2> QED BY <1>2, <2>1
<1>6. \A i \in 1..(Len(s) + 1) :
          (t \o b)[i] = IF i <= p THEN s[i] ELSE IF i = p + 1 THEN r ELSE s[i - 1]
  <2> SUFFICES ASSUME NEW i \in 1..(Len(s) + 1)
               PROVE  (t \o b)[i] = IF i <= p THEN s[i] ELSE IF i = p + 1 THEN r ELSE s[i - 1]
    OBVIOUS
  <2>1. CASE i <= p
    <3>1. i <= p + 1 /\ i \in 1..(p + 1) /\ i # p + 1 BY <2>1
    <3> QED BY <1>3, <1>4, <2>1, <3>1
  <2>2. CASE i = p + 1
    <3>1. i <= p + 1 /\ i \in 1..(p + 1) /\ ~(i <= p) BY <2>2
    <3> QED BY <1>3, <1>4, <2>2, <3>1
  <2>3. CASE i > p + 1
    <3>1. ~(i <= p + 1) /\ i # p + 1 /\ ~(i <= p) BY <2>3
    <3> QED BY <1>4, <1>5, <2>3, <3>1
  <2>4. i <= p \/ i = p + 1 \/ i > p + 1 OBVIOUS
  <2> QED BY <2>1, <2>2, <2>3, <2>4
<1>7. Inserted(s, p, r) = t \o b BY DEF Inserted, a, b, t
<1> QED BY <1>4, <1>6, <1>7 DEF HasInserted

LEMMA OwnedFinite ==
    ASSUME NEW s \in Seq(Rows), NEW c
    PROVE  IsFiniteSet(Owned(s, c)) /\ Cardinality(Owned(s, c)) \in Nat
<1>1. Owned(s, c) \in SUBSET (1..Len(s)) BY DEF Owned
<1>2. IsFiniteSet(1..Len(s)) BY FS_Interval, Len(s) \in Int
<1> QED BY <1>1, <1>2, FS_Subset, FS_CardinalityType

\* Rows that an injection takes to rows of the same author are no more than these.
LEMMA OwnedInjected ==
    ASSUME NEW s \in Seq(Rows), NEW c, NEW T, NEW f \in [T -> Owned(s, c)],
           \A i, j \in T : f[i] = f[j] => i = j
    PROVE  IsFiniteSet(T) /\ Cardinality(T) <= Cardinality(Owned(s, c))
<1>1. f \in Injection(T, Owned(s, c)) BY DEF Injection, IsInjective
<1> QED BY <1>1, OwnedFinite, FS_Injection

LEMMA OwnedInserted ==
    ASSUME NEW s \in Seq(Rows), NEW p \in 0..Len(s), NEW r \in Rows, NEW c
    PROVE  /\ r.by # c => Cardinality(Owned(Inserted(s, p, r), c)) <= Cardinality(Owned(s, c))
           /\ Cardinality(Owned(Inserted(s, p, r), c)) <= Cardinality(Owned(s, c)) + 1
<1> DEFINE t == Inserted(s, p, r)
           T == Owned(t, c) \ {p + 1}
           f == [i \in T |-> IF i <= p THEN i ELSE i - 1]
<1>1. /\ t \in Seq(Rows) /\ Len(t) = Len(s) + 1
      /\ \A i \in 1..(Len(s) + 1) :
            t[i] = IF i <= p THEN s[i] ELSE IF i = p + 1 THEN r ELSE s[i - 1]
  <2>1. HasInserted(t, s, p, r) BY InsertedRows
  <2> QED BY <2>1 DEF HasInserted
<1> HIDE DEF t
<1>2. f \in [T -> Owned(s, c)]
  <2> SUFFICES ASSUME NEW i \in T PROVE (IF i <= p THEN i ELSE i - 1) \in Owned(s, c)
    OBVIOUS
  <2>1. i \in 1..(Len(s) + 1) /\ i # p + 1 /\ t[i].by = c BY <1>1 DEF Owned
  <2>2. CASE i <= p
    <3>1. t[i] = s[i] /\ i \in 1..Len(s) BY <1>1, <2>1, <2>2
    <3> QED BY <2>1, <2>2, <3>1 DEF Owned
  <2>3. CASE ~(i <= p)
    <3>1. t[i] = s[i - 1] /\ i - 1 \in 1..Len(s) BY <1>1, <2>1, <2>3
    <3> QED BY <2>1, <2>3, <3>1 DEF Owned
  <2> QED BY <2>2, <2>3
<1>3. \A i, j \in T : f[i] = f[j] => i = j
  <2>1. \A i \in T : i \in Nat /\ i # p + 1 BY DEF Owned
  <2> QED BY <2>1
<1>4. IsFiniteSet(T) /\ Cardinality(T) <= Cardinality(Owned(s, c))
  <2> HIDE DEF T, f
  <2> QED BY <1>2, <1>3, OwnedInjected
<1>5. Owned(t, c) \subseteq T \cup {p + 1} OBVIOUS
<1>6. r.by # c => Owned(t, c) = T
  <2>1. p + 1 \in Owned(t, c) => r.by = c BY <1>1 DEF Owned
  <2> QED BY <2>1
<1>7. /\ IsFiniteSet(T \cup {p + 1})
      /\ Cardinality(T \cup {p + 1}) <= Cardinality(T) + 1
  <2> HIDE DEF T
  <2>1. Cardinality(T) \in Nat BY <1>4, FS_CardinalityType
  <2>2. /\ IsFiniteSet(T \cup {p + 1})
        /\ Cardinality(T \cup {p + 1}) = IF p + 1 \in T THEN Cardinality(T)
                                         ELSE Cardinality(T) + 1
    BY <1>4, FS_AddElement
  <2> QED BY <2>1, <2>2
<1>8. Cardinality(Owned(t, c)) <= Cardinality(T \cup {p + 1})
  <2> HIDE DEF T
  <2> QED BY <1>5, <1>7, FS_Subset
<1>9. /\ Cardinality(T) \in Nat /\ Cardinality(T \cup {p + 1}) \in Nat
      /\ Cardinality(Owned(t, c)) \in Nat /\ Cardinality(Owned(s, c)) \in Nat
  BY <1>1, <1>4, <1>7, OwnedFinite, FS_CardinalityType
<1> HIDE DEF T
<1> QED BY <1>4, <1>6, <1>7, <1>8, <1>9 DEF t

LEMMA OwnedSwapped ==
    ASSUME NEW s \in Seq(Rows), NEW i \in 1..Len(s), i + 1 <= Len(s), NEW c
    PROVE  /\ Swapped(s, i) \in Seq(Rows) /\ Len(Swapped(s, i)) = Len(s)
           /\ \A j \in 1..Len(s) : Swapped(s, i)[j] = IF j = i THEN s[i + 1]
                                                      ELSE IF j = i + 1 THEN s[i] ELSE s[j]
           /\ Cardinality(Owned(Swapped(s, i), c)) <= Cardinality(Owned(s, c))
<1> DEFINE t == Swapped(s, i)
           f == [j \in Owned(t, c) |-> IF j = i THEN i + 1 ELSE IF j = i + 1 THEN i ELSE j]
<1>1. /\ t \in Seq(Rows) /\ Len(t) = Len(s)
      /\ \A j \in 1..Len(s) : t[j] = IF j = i THEN s[i + 1]
                                     ELSE IF j = i + 1 THEN s[i] ELSE s[j]
  BY DEF Swapped
<1> HIDE DEF t
<1>2. f \in [Owned(t, c) -> Owned(s, c)]
  BY <1>1 DEF Owned
<1>3. \A j, k \in Owned(t, c) : f[j] = f[k] => j = k
  BY DEF Owned
<1>4. Cardinality(Owned(t, c)) <= Cardinality(Owned(s, c))
  <2> HIDE DEF f
  <2> QED BY <1>1, <1>2, <1>3, OwnedInjected
<1> QED BY <1>1, <1>4 DEF t

-----------------------------------------------------------------------------
(* The inductive invariant. *)

\* Where a session stands, and what it can have written by then.
SessionInv(c) ==
    /\ call[c].at = "idle" => call[c] = Idle
    /\ call[c].at \in {"idle", "reading"} =>
          Owned(sheet, c) = {}
    /\ call[c].at # "idle" /\ call[c].kind # "read" => call[c].key \in Keys

\* Until rows change place, the numbers a session has found stand for rows with
\* its key.
PlaceInv(c) ==
    c \notin shifted /\ call[c].at = "writing" /\ call[c].kind \in {"update", "find"} =>
        \A i \in call[c].rows : i \in 1..Len(sheet) /\ sheet[i].key = call[c].key

\* An attempt that has failed has left at most one row, and so has the last one.
Accounted(c) ==
    call[c].kind = "append" =>
        Cardinality(Owned(sheet, c))
            <= call[c].attempt + (IF call[c].at \in {"done", "failed"} THEN 1 ELSE 0)

Keyed(c) ==
    c \notin shifted /\ call[c].kind \in {"update", "find"} =>
        \A i \in Owned(sheet, c) : sheet[i].key = call[c].key

PerSession(c) == SessionInv(c) /\ PlaceInv(c) /\ Accounted(c) /\ Keyed(c)

IInv == TypeOK /\ \A c \in Calls : PerSession(c)

-----------------------------------------------------------------------------
(* A write that is carried out. *)

LEMMA SheetType ==
    ASSUME TypeOK
    PROVE  sheet \in Seq(Rows) /\ Len(sheet) \in Nat /\ \A i \in 1..Len(sheet) : sheet[i] \in Rows
<1>1. sheet \in Seq(Rows) BY DEF TypeOK
<1> QED BY <1>1

LEMMA AttemptType ==
    ASSUME TypeOK, NEW c \in Calls
    PROVE  call[c].attempt \in Nat
<1>1. call[c] \in Sessions BY DEF TypeOK
<1> QED BY <1>1, BoundsAssumption DEF Sessions

LEMMA AppendBelow ==
    ASSUME TypeOK
    PROVE  /\ LastIn(DataRows(sheet)) \in 0..Len(sheet)
           /\ \A i \in 1..Len(sheet) : sheet[i].key # NoKey => i <= LastIn(DataRows(sheet))
<1>1. Len(sheet) \in Nat /\ DataRows(sheet) \subseteq 1..Len(sheet)
  BY SheetType DEF DataRows
<1>2. CASE DataRows(sheet) = {}
  <2>1. \A i \in 1..Len(sheet) : sheet[i].key = NoKey BY <1>2, SheetType DEF DataRows, Blank, Rows
  <2> QED BY <1>1, <1>2, <2>1, SheetType DEF LastIn, Rows
<1>3. CASE DataRows(sheet) # {}
  <2>1. /\ LastIn(DataRows(sheet)) \in DataRows(sheet)
        /\ \A i \in DataRows(sheet) : i <= LastIn(DataRows(sheet))
    BY <1>1, <1>3, LastInMax
  <2>2. \A i \in 1..Len(sheet) : sheet[i].key # NoKey => i \in DataRows(sheet)
    BY SheetType DEF DataRows, Blank, Rows
  <2> QED BY <1>1, <2>1, <2>2, SheetType DEF Rows
<1> QED BY <1>2, <1>3

LEMMA WrittenAppend ==
    ASSUME TypeOK, NEW c \in Calls, call[c].kind = "append"
    PROVE  \E p \in 0..Len(sheet), r \in Rows :
              /\ r = RowOf(call[c].key, c)
              /\ \A i \in 1..Len(sheet) : sheet[i].key # NoKey => i <= p
              /\ Written(c) = Inserted(sheet, p, r)
              /\ Written(c) \in Seq(Rows) /\ Len(Written(c)) = Len(sheet) + 1
              /\ \A i \in 1..(Len(sheet) + 1) :
                    Written(c)[i] = IF i <= p THEN sheet[i]
                                    ELSE IF i = p + 1 THEN r ELSE sheet[i - 1]
<1> DEFINE p == LastIn(DataRows(sheet))
           r == RowOf(call[c].key, c)
<1>1. r \in Rows
  <2>1. call[c] \in Sessions BY DEF TypeOK
  <2>2. call[c].key \in Keys \cup {NoKey} BY <2>1 DEF Sessions
  <2> QED BY <2>2 DEF RowOf, Rows
<1>2. p \in 0..Len(sheet) /\ \A i \in 1..Len(sheet) : sheet[i].key # NoKey => i <= p
  BY AppendBelow
<1>3. Written(c) = Inserted(sheet, p, r) BY DEF Written, Inserted
<1>4. r = RowOf(call[c].key, c) OBVIOUS
<1> HIDE DEF p, r
<1>5. HasInserted(Inserted(sheet, p, r), sheet, p, r)
  BY <1>1, <1>2, SheetType, InsertedRows
<1> QED BY <1>1, <1>2, <1>3, <1>4, <1>5 DEF HasInserted

LEMMA WrittenOver ==
    ASSUME TypeOK, NEW c \in Calls, call[c].kind # "append"
    PROVE  /\ Written(c) \in Seq(Rows) /\ Len(Written(c)) = Len(sheet)
           /\ \A i \in 1..Len(sheet) :
                 /\ Written(c)[i].key = sheet[i].key
                 /\ i \in call[c].rows => Written(c)[i].by = c
                 /\ i \notin call[c].rows => Written(c)[i] = sheet[i]
<1> DEFINE w == [i \in 1..Len(sheet) |->
                   IF i \in call[c].rows THEN RowOf(sheet[i].key, c) ELSE sheet[i]]
<1>1. Written(c) = w BY DEF Written
<1>2. Len(sheet) \in Nat /\ \A i \in 1..Len(sheet) : sheet[i] \in Rows BY SheetType
<1>3. \A i \in 1..Len(sheet) : w[i] \in Rows
  BY <1>2 DEF Rows, RowOf
<1>4. w \in [1..Len(sheet) -> Rows] BY <1>3
<1>5. w \in Seq(Rows) /\ Len(w) = Len(sheet)
  <2> HIDE DEF w
  <2> QED BY <1>2, <1>4
<1>6. ASSUME NEW i \in 1..Len(sheet)
      PROVE  /\ w[i].key = sheet[i].key
             /\ i \in call[c].rows => w[i].by = c
             /\ i \notin call[c].rows => w[i] = sheet[i]
  BY DEF RowOf
<1> QED BY <1>1, <1>5, <1>6

LEMMA WrittenType ==
    ASSUME TypeOK, NEW c \in Calls
    PROVE  Written(c) \in Seq(Rows) /\ Len(Written(c)) \in Nat /\ Len(Written(c)) >= Len(sheet)
<1>1. sheet \in Seq(Rows) /\ Len(sheet) \in Nat BY SheetType
<1>2. CASE call[c].kind = "append" BY <1>1, <1>2, WrittenAppend
<1>3. CASE call[c].kind # "append" BY <1>1, <1>3, WrittenOver
<1> QED BY <1>2, <1>3

\* What a session writes adds no rows to another's.
LEMMA WrittenOthers ==
    ASSUME TypeOK, NEW c \in Calls, NEW d \in Calls \ {c}
    PROVE  /\ Cardinality(Owned(Written(c), d)) <= Cardinality(Owned(sheet, d))
           /\ Owned(sheet, d) = {} => Owned(Written(c), d) = {}
<1>1. sheet \in Seq(Rows) /\ Len(sheet) \in Nat BY SheetType
<1>2. Cardinality(Owned(Written(c), d)) <= Cardinality(Owned(sheet, d))
  <2>1. CASE call[c].kind = "append"
    <3>1. PICK p \in 0..Len(sheet), r \in Rows :
                  r = RowOf(call[c].key, c) /\ Written(c) = Inserted(sheet, p, r)
      BY <2>1, WrittenAppend
    <3>2. r.by # d BY <3>1 DEF RowOf
    <3> QED BY <1>1, <3>1, <3>2, OwnedInserted
  <2>2. CASE call[c].kind # "append"
    <3>1. Owned(Written(c), d) \in SUBSET Owned(sheet, d)
      BY <1>1, <2>2, WrittenOver DEF Owned
    <3> QED BY <1>1, <3>1, OwnedFinite, FS_Subset
  <2> QED BY <2>1, <2>2
<1>3. Owned(sheet, d) = {} => Owned(Written(c), d) = {}
  <2>1. Written(c) \in Seq(Rows) BY WrittenType
  <2>2. /\ IsFiniteSet(Owned(sheet, d)) /\ Cardinality(Owned(Written(c), d)) \in Nat
        /\ IsFiniteSet(Owned(Written(c), d))
    BY <1>1, <2>1, OwnedFinite
  <2> QED BY <1>2, <2>2, FS_EmptySet
<1> QED BY <1>2, <1>3

LEMMA WrittenOwn ==
    ASSUME TypeOK, NEW c \in Calls, call[c].kind = "append"
    PROVE  Cardinality(Owned(Written(c), c)) <= Cardinality(Owned(sheet, c)) + 1
<1>1. sheet \in Seq(Rows) BY SheetType
<1> QED BY <1>1, WrittenAppend, OwnedInserted

\* A row was there with its key and author before, or it has been written by c:
\* a new one, or one it had found.
LEMMA WrittenFrom ==
    ASSUME TypeOK, NEW c \in Calls, NEW j \in 1..Len(Written(c))
    PROVE  \/ \E i \in 1..Len(sheet) : Written(c)[j] = sheet[i]
           \/ call[c].kind = "append" /\ Written(c)[j] = RowOf(call[c].key, c)
           \/ /\ call[c].kind # "append" /\ j \in call[c].rows /\ j \in 1..Len(sheet)
              /\ Written(c)[j].key = sheet[j].key /\ Written(c)[j].by = c
<1>1. sheet \in Seq(Rows) /\ Len(sheet) \in Nat BY SheetType
<1>2. CASE call[c].kind = "append"
  <2>1. PICK p \in 0..Len(sheet), r \in Rows :
            /\ r = RowOf(call[c].key, c)
            /\ Len(Written(c)) = Len(sheet) + 1
            /\ \A i \in 1..(Len(sheet) + 1) :
                  Written(c)[i] = IF i <= p THEN sheet[i]
                                  ELSE IF i = p + 1 THEN r ELSE sheet[i - 1]
    BY <1>2, WrittenAppend
  <2>2. Written(c)[j] = IF j <= p THEN sheet[j] ELSE IF j = p + 1 THEN r ELSE sheet[j - 1]
    BY <2>1
  <2>3. j <= p => j \in 1..Len(sheet) BY <1>1, <2>1
  <2>4. ~(j <= p) /\ j # p + 1 => j - 1 \in 1..Len(sheet) BY <1>1, <2>1
  <2> QED BY <1>2, <2>1, <2>2, <2>3, <2>4
<1>3. CASE call[c].kind # "append" BY <1>3, WrittenOver
<1> QED BY <1>2, <1>3

\* Rows with a key keep their place and their key.
LEMMA WrittenInPlace ==
    ASSUME TypeOK, NEW c \in Calls, NEW i \in 1..Len(sheet), sheet[i].key # NoKey
    PROVE  i \in 1..Len(Written(c)) /\ Written(c)[i].key = sheet[i].key
<1>1. Len(sheet) \in Nat BY SheetType
<1>2. i \in 1..Len(Written(c)) BY <1>1, WrittenType
<1>3. CASE call[c].kind = "append"
  <2>1. PICK p \in 0..Len(sheet), r \in Rows :
            /\ \A m \in 1..Len(sheet) : sheet[m].key # NoKey => m <= p
            /\ \A m \in 1..(Len(sheet) + 1) :
                  Written(c)[m] = IF m <= p THEN sheet[m]
                                  ELSE IF m = p + 1 THEN r ELSE sheet[m - 1]
    BY <1>3, WrittenAppend
  <2>2. i <= p /\ i \in 1..(Len(sheet) + 1) BY <1>1, <2>1
  <2> QED BY <1>2, <2>1, <2>2
<1>4. CASE call[c].kind # "append" BY <1>2, <1>4, WrittenOver
<1> QED BY <1>3, <1>4

-----------------------------------------------------------------------------
(* Type correctness. *)

\* What a read returns ends at the last row of the range that has data.
LEMMA Returned ==
    ASSUME TypeOK, NEW first \in Nat \ {0}, NEW last \in Nat
    PROVE  /\ RowsReturned(first, last) \in Nat
           /\ RowsReturned(first, last) # 0 => first + RowsReturned(first, last) <= Len(sheet) + 1
           /\ \A i \in DataRows(sheet) \cap (first..FetchedTo(first, last)) :
                 i < first + RowsReturned(first, last)
           /\ Shown(first, last) \in 0..RowsReturned(first, last)
<1> DEFINE S == DataRows(sheet) \cap (first..FetchedTo(first, last))
<1>0. CAP \in Nat \ {0} BY BoundsAssumption
<1>1. Len(sheet) \in Nat /\ S \subseteq 1..Len(sheet) /\ \A i \in S : i >= first /\ i \in Nat
  <2>1. Len(sheet) \in Nat BY SheetType
  <2>2. FetchedTo(first, last) \in Int BY <1>0 DEF FetchedTo
  <2> QED BY <2>1, <2>2 DEF DataRows
<1> HIDE DEF S
<1>2. CASE S = {}
  <2>1. RowsReturned(first, last) = 0 BY <1>2 DEF RowsReturned, LastIn, S
  <2> QED BY <1>0, <1>2, <2>1 DEF Shown, Truncated, S
<1>3. CASE S # {}
  <2> DEFINE e == LastIn(S)
  <2>1. e \in S /\ \A i \in S : i <= e BY <1>1, <1>3, LastInMax
  <2> HIDE DEF e
  <2>2. e \in Nat /\ e >= first /\ e <= Len(sheet) /\ e # 0 BY <1>1, <2>1
  <2>3. RowsReturned(first, last) = e - first + 1 BY <2>2 DEF RowsReturned, e, S
  <2>4. \A i \in S : i < first + (e - first + 1) BY <1>1, <2>1, <2>2
  <2>5. Shown(first, last) \in 0..RowsReturned(first, last)
    BY <1>0, <2>2, <2>3 DEF Shown, Truncated
  <2> QED BY <1>1, <2>2, <2>3, <2>4, <2>5 DEF S
<1> QED BY <1>2, <1>3

LEMMA InitSheet ==
    ASSUME Init
    PROVE  /\ sheet \in Seq(Rows)
           /\ \A i \in 1..Len(sheet) : /\ sheet[i].by = Nobody
                                       /\ "blank" \notin Faults => sheet[i].key # NoKey
<1> DEFINE body == {RowOf(k, Nobody) : k \in Keys}
                       \cup (IF "blank" \in Faults THEN {Blank} ELSE {})
<1>1. PICK n \in 0..MaxRows : \E b \in [1..n -> body] : sheet = <<Header>> \o b
  BY DEF Init
<1>2. PICK b \in [1..n -> body] : sheet = <<Header>> \o b
  BY <1>1
<1>3. \A r \in body : /\ r \in Rows /\ r.by = Nobody
                      /\ "blank" \notin Faults => r.key # NoKey
  BY NamesAssumption DEF RowOf, Blank, Rows
<1> HIDE DEF body
<1>4. n \in Nat /\ Header \in Rows /\ Header.by = Nobody
  BY BoundsAssumption DEF Header, RowOf, Rows
<1>5. Header.key # NoKey BY DEF Header, RowOf, NoKey
<1>6. b \in Seq(Rows) /\ Len(b) = n
  <2>1. b \in [1..n -> Rows] BY <1>2, <1>3
  <2> QED BY <1>4, <2>1
<1>7. <<Header>> \in Seq(Rows) /\ Len(<<Header>>) = 1 /\ <<Header>>[1] = Header
  BY <1>4
<1>8. /\ sheet \in Seq(Rows) /\ Len(sheet) = 1 + n
      /\ \A i \in 1..(1 + n) : sheet[i] = IF i <= 1 THEN <<Header>>[i] ELSE b[i - 1]
  BY <1>2, <1>6, <1>7, ConcatProperties
<1>9. ASSUME NEW i \in 1..(1 + n)
      PROVE  sheet[i].by = Nobody /\ ("blank" \notin Faults => sheet[i].key # NoKey)
  <2>1. CASE i = 1 BY <1>4, <1>5, <1>7, <1>8, <2>1
  <2>2. CASE i # 1
    <3>1. i - 1 \in 1..n /\ ~(i <= 1) BY <1>4, <2>2
    <3>2. b[i - 1] \in body BY <1>2, <3>1
    <3> QED BY <1>3, <1>8, <3>1, <3>2
  <2> QED BY <2>1, <2>2
<1> QED BY <1>8, <1>9

LEMMA InitType == Init => TypeOK
<1> SUFFICES ASSUME Init PROVE TypeOK OBVIOUS
<1>1. sheet \in Seq(Rows) BY InitSheet
<1>2. Idle \in Sessions BY BoundsAssumption DEF Idle, Sessions, Kinds
<1> QED BY <1>1, <1>2, BoundsAssumption DEF Init, TypeOK

SessionStep(c) == Begin(c) \/ Answered(c) \/ Refused(c) \/ AnswerLost(c)

LEMMA LocatedRows ==
    ASSUME TypeOK, NEW k, NEW i \in Matches(k, Shown(1, 0))
    PROVE  i \in 1..Len(sheet) /\ sheet[i].key = k
<1>1. /\ RowsReturned(1, 0) \in Nat /\ Shown(1, 0) \in 0..RowsReturned(1, 0)
      /\ RowsReturned(1, 0) # 0 => 1 + RowsReturned(1, 0) <= Len(sheet) + 1
  BY Returned
<1>2. Len(sheet) \in Nat BY SheetType
<1> QED BY <1>1, <1>2 DEF Matches

\* The parts of a session that a step sets.
LEMMA CallPut ==
    ASSUME TypeOK, NEW c \in Calls, NEW r \in Sessions, call' = [call EXCEPT ![c] = r]
    PROVE  /\ call' \in [Calls -> Sessions] /\ call'[c] = r
           /\ \A d \in Calls \ {c} : call'[d] = call[d]
BY DEF TypeOK

LEMMA BeginCall ==
    ASSUME TypeOK, NEW c \in Calls, Begin(c)
    PROVE  /\ call' \in [Calls -> Sessions]
           /\ \A d \in Calls \ {c} : call'[d] = call[d]
           /\ call'[c].at \in {"reading", "writing"}
           /\ call'[c].at = "writing" <=> call'[c].kind = "append"
           /\ call'[c].kind # "read" => call'[c].key \in Keys
           /\ call'[c].attempt = 0
           /\ call'[c].first = 1 /\ call'[c].last = 0
<1>1. PICK kind \in Kinds, key \in Keys \cup {NoKey} :
          /\ key = NoKey <=> kind = "read"
          /\ call' = [call EXCEPT ![c] =
                [Idle EXCEPT !.at = IF kind = "append" THEN "writing" ELSE "reading",
                             !.kind = kind, !.key = key]]
  BY DEF Begin
<1> DEFINE at == IF kind = "append" THEN "writing" ELSE "reading"
           r == [Idle EXCEPT !.at = at, !.kind = kind, !.key = key]
<1>2. at \in {"reading", "writing"} /\ (at = "writing" <=> kind = "append") OBVIOUS
<1>3. call' = [call EXCEPT ![c] = r] BY <1>1
<1> HIDE DEF at
<1>4. /\ r.at = at /\ r.kind = kind /\ r.key = key /\ r.attempt = 0
      /\ r.first = 1 /\ r.last = 0
  BY DEF Idle
<1>5. r \in Sessions
  <2>1. Idle \in Sessions BY BoundsAssumption DEF Idle, Sessions, Kinds
  <2>2. at \in {"idle", "reading", "writing", "done", "failed"} BY <1>2
  <2> QED BY <2>1, <2>2 DEF Sessions
<1> HIDE DEF r
<1> QED BY <1>1, <1>2, <1>3, <1>4, <1>5, CallPut

LEMMA ReadPageCall ==
    ASSUME TypeOK, NEW c \in Calls, ReadPage(c)
    PROVE  /\ call' \in [Calls -> Sessions]
           /\ \A d \in Calls \ {c} : call'[d] = call[d]
           /\ call'[c].kind = "read"
           /\ LET first == call[c].first
                  last == call[c].last
                  shown == Shown(first, last)
              IN  /\ call'[c].rows = call[c].rows \cup (first..(first + shown - 1))
                  /\ IF Truncated(first, last)
                     THEN /\ call'[c].at = "reading" /\ call'[c].first = first + shown
                          /\ call'[c].last = first + shown + PAGE - 1
                     ELSE call'[c].at = "done"
<1> DEFINE first == call[c].first
           last == call[c].last
           shown == Shown(first, last)
           rows == call[c].rows \cup (first..(first + shown - 1))
           next == first + shown
<1>0. call[c] \in Sessions BY DEF TypeOK
<1>1. first \in Nat \ {0} /\ last \in Nat /\ call[c].rows \subseteq Nat
  BY <1>0 DEF Sessions
<1>2. shown \in Nat
  <2> HIDE DEF first, last
  <2>1. shown \in 0..RowsReturned(first, last) /\ RowsReturned(first, last) \in Nat
    BY <1>1, Returned
  <2> QED BY <2>1
<1>3. next \in Nat \ {0} /\ next + PAGE - 1 \in Nat
  <2> HIDE DEF first, shown
  <2> QED BY <1>1, <1>2, BoundsAssumption
<1>4. rows \subseteq Nat
  <2> HIDE DEF first, shown
  <2> QED BY <1>1, <1>2
<1>5. call[c].at = "reading" /\ call[c].kind = "read" BY DEF ReadPage, Reading
<1>6. IF Truncated(first, last)
      THEN call' = [call EXCEPT ![c].first = next, ![c].last = next + PAGE - 1,
                                ![c].rows = rows, ![c].attempt = 0]
      ELSE call' = [call EXCEPT ![c].at = "done", ![c].rows = rows]
  BY DEF ReadPage, NextFirst
<1> HIDE DEF first, last, shown, rows, next
<1>7. CASE Truncated(first, last)
  <2> DEFINE r == [call[c] EXCEPT !.first = next, !.last = next + PAGE - 1,
                                  !.rows = rows, !.attempt = 0]
  <2>1. /\ r \in Sessions /\ r.kind = "read" /\ r.at = "reading" /\ r.rows = rows
        /\ r.first = next /\ r.last = next + PAGE - 1
    <3>1. 0 \in 0..MAX_RETRIES /\ rows \in SUBSET Nat BY <1>4, BoundsAssumption
    <3> QED BY <1>0, <1>3, <1>5, <3>1 DEF Sessions
  <2>2. call' = [call EXCEPT ![c] = r] BY <1>6, <1>7
  <2> HIDE DEF r
  <2> QED BY <1>7, <2>1, <2>2, CallPut DEF first, last, shown, rows, next
<1>8. CASE ~Truncated(first, last)
  <2> DEFINE r == [call[c] EXCEPT !.at = "done", !.rows = rows]
  <2>1. r \in Sessions /\ r.kind = "read" /\ r.at = "done" /\ r.rows = rows
    BY <1>0, <1>4, <1>5 DEF Sessions
  <2>2. call' = [call EXCEPT ![c] = r] BY <1>6, <1>8
  <2> HIDE DEF r
  <2> QED BY <1>8, <2>1, <2>2, CallPut DEF first, last, shown, rows, next
<1> QED BY <1>7, <1>8

LEMMA LocateCall ==
    ASSUME TypeOK, NEW c \in Calls, Locate(c)
    PROVE  /\ call' \in [Calls -> Sessions]
           /\ \A d \in Calls \ {c} : call'[d] = call[d]
           /\ call'[c].at \in {"writing", "done"}
           /\ call'[c].kind = call[c].kind /\ call'[c].key = call[c].key
           /\ call'[c].rows \subseteq Matches(call[c].key, Shown(1, 0))
<1> DEFINE found == Matches(call[c].key, Shown(1, 0))
<1>0. call[c] \in Sessions BY DEF TypeOK
<1>1. PICK rows \in IF call[c].kind = "find" THEN {{i} : i \in found} \cup {{}} ELSE {found} :
           call' = [call EXCEPT ![c].rows = rows, ![c].attempt = 0,
                                ![c].at = IF rows = {} THEN "done" ELSE "writing"]
  BY DEF Locate
<1>2. rows \subseteq found
  <2> HIDE DEF found
  <2> QED BY <1>1
<1>3. found \subseteq Nat BY LocatedRows
<1> DEFINE at == IF rows = {} THEN "done" ELSE "writing"
           r == [call[c] EXCEPT !.rows = rows, !.attempt = 0, !.at = at]
<1>4. at \in {"writing", "done"} OBVIOUS
<1>5. call' = [call EXCEPT ![c] = r] BY <1>1
<1> HIDE DEF at, found
<1>6. /\ r \in Sessions /\ r.rows = rows /\ r.at = at
      /\ r.kind = call[c].kind /\ r.key = call[c].key
  <2>1. 0 \in 0..MAX_RETRIES /\ rows \in SUBSET Nat BY <1>2, <1>3, BoundsAssumption
  <2>2. at \in {"idle", "reading", "writing", "done", "failed"} BY <1>4
  <2> QED BY <1>0, <2>1, <2>2 DEF Sessions
<1> HIDE DEF r
<1> QED BY <1>2, <1>4, <1>5, <1>6, CallPut DEF found

LEMMA EndsCall ==
    ASSUME TypeOK, NEW c \in Calls, NEW at \in {"done", "failed"},
           call' = [call EXCEPT ![c].at = at]
    PROVE  /\ call' \in [Calls -> Sessions]
           /\ \A d \in Calls \ {c} : call'[d] = call[d]
           /\ call'[c].at = at /\ call'[c].attempt = call[c].attempt
           /\ call'[c].kind = call[c].kind /\ call'[c].key = call[c].key
<1> DEFINE r == [call[c] EXCEPT !.at = at]
<1>0. call[c] \in Sessions BY DEF TypeOK
<1>1. /\ r \in Sessions /\ r.at = at /\ r.attempt = call[c].attempt
      /\ r.kind = call[c].kind /\ r.key = call[c].key
  BY <1>0 DEF Sessions
<1>2. call' = [call EXCEPT ![c] = r] OBVIOUS
<1> HIDE DEF r
<1> QED BY <1>1, <1>2, CallPut

LEMMA RetriesCall ==
    ASSUME TypeOK, NEW c \in Calls, Retries(c)
    PROVE  /\ call' \in [Calls -> Sessions]
           /\ \A d \in Calls \ {c} : call'[d] = call[d]
           /\ call'[c].at = call[c].at /\ call'[c].attempt = call[c].attempt + 1
           /\ call'[c].kind = call[c].kind /\ call'[c].key = call[c].key
           /\ call'[c].rows = call[c].rows
           /\ call'[c].first = call[c].first /\ call'[c].last = call[c].last
<1> DEFINE r == [call[c] EXCEPT !.attempt = call[c].attempt + 1]
<1>0. call[c] \in Sessions BY DEF TypeOK
<1>1. call[c].attempt \in 0..MAX_RETRIES /\ call[c].attempt < MAX_RETRIES
  BY <1>0 DEF Retries, Sessions
<1>2. call[c].attempt + 1 \in 0..MAX_RETRIES BY <1>1, BoundsAssumption
<1>3. /\ r \in Sessions /\ r.at = call[c].at /\ r.attempt = call[c].attempt + 1
      /\ r.kind = call[c].kind /\ r.key = call[c].key /\ r.rows = call[c].rows
      /\ r.first = call[c].first /\ r.last = call[c].last
  BY <1>0, <1>2 DEF Sessions
<1>4. call' = [call EXCEPT ![c] = r] BY DEF Retries
<1> HIDE DEF r
<1> QED BY <1>3, <1>4, CallPut

LEMMA SessionType ==
    ASSUME TypeOK, NEW c \in Calls, SessionStep(c)
    PROVE  TypeOK' /\ \A d \in Calls \ {c} : call'[d] = call[d]
<1>1. CASE Begin(c) BY <1>1, BeginCall DEF Begin, TypeOK
<1>2. CASE ReadPage(c) BY <1>2, ReadPageCall DEF ReadPage, TypeOK
<1>3. CASE Locate(c) BY <1>3, LocateCall DEF Locate, TypeOK
<1>4. CASE CarriedOut(c)
  <2>1. sheet' \in Seq(Rows) BY <1>4, WrittenType DEF CarriedOut
  <2> QED BY <1>4, <2>1, EndsCall DEF CarriedOut, TypeOK
<1>5. CASE Refused(c)
  BY <1>5, RetriesCall, EndsCall DEF Refused, GivesUp, TypeOK
<1>6. CASE AnswerLost(c)
  <2>1. sheet' \in Seq(Rows) BY <1>6, WrittenType DEF AnswerLost
  <2>2. call' \in [Calls -> Sessions] /\ \A d \in Calls \ {c} : call'[d] = call[d]
    BY <1>6, RetriesCall, EndsCall DEF AnswerLost, GivesUp
  <2> QED BY <1>6, <2>1, <2>2 DEF AnswerLost, TypeOK
<1> QED BY <1>1, <1>2, <1>3, <1>4, <1>5, <1>6 DEF SessionStep, Answered

LEMMA InsertRowType ==
    ASSUME TypeOK, NEW i \in 1..Len(sheet), NEW k \in Keys, InsertRow(i, k)
    PROVE  TypeOK'
<1>1. RowOf(k, Nobody) \in Rows BY DEF RowOf, Rows
<1>2. sheet' = Inserted(sheet, i, RowOf(k, Nobody)) BY DEF InsertRow, Edited, Inserted
<1>3. sheet' \in Seq(Rows)
  <2>1. i \in 0..Len(sheet) /\ sheet \in Seq(Rows) BY SheetType
  <2>2. HasInserted(sheet', sheet, i, RowOf(k, Nobody)) BY <1>1, <1>2, <2>1, InsertedRows
  <2> QED BY <2>2 DEF HasInserted
<1> QED BY <1>3, BoundsAssumption DEF InsertRow, Edited, TypeOK

LEMMA SwapRowsType ==
    ASSUME TypeOK, NEW i \in 2..(Len(sheet) - 1), SwapRows(i)
    PROVE  TypeOK'
<1>1. sheet' = Swapped(sheet, i) BY DEF SwapRows, Edited, Swapped
<1>2. i \in 1..Len(sheet) /\ i + 1 <= Len(sheet) /\ sheet \in Seq(Rows) BY SheetType
<1>3. sheet' \in Seq(Rows) BY <1>1, <1>2, OwnedSwapped
<1>4. edits' \in 0..MaxEdits BY BoundsAssumption DEF SwapRows, Edited, TypeOK
<1>5. shifted' \subseteq Calls /\ UNCHANGED call
  BY DEF SwapRows, Edited, TypeOK
<1> QED BY <1>3, <1>4, <1>5 DEF TypeOK

-----------------------------------------------------------------------------
(* A session's step as another sees it. *)

LEMMA SessionFrame ==
    ASSUME TypeOK, NEW c \in Calls, SessionStep(c)
    PROVE  /\ sheet' = sheet \/ sheet' = Written(c)
           /\ shifted' = shifted
<1>1. shifted' = shifted
  BY DEF SessionStep, Begin, Answered, ReadPage, Locate, CarriedOut, Refused, AnswerLost
<1>2. sheet' = sheet \/ sheet' = Written(c)
  BY DEF SessionStep, Begin, Answered, ReadPage, Locate, CarriedOut, Refused, AnswerLost
<1> QED BY <1>1, <1>2

\* As for the rows of d, whatever c writes takes none away that d has found, and
\* adds none.
LEMMA WrittenKeyed ==
    ASSUME TypeOK, NEW c \in Calls, NEW d \in Calls \ {c}, Keyed(d), d \notin shifted,
           call[d].kind \in {"update", "find"}
    PROVE  \A j \in Owned(Written(c), d) : Written(c)[j].key = call[d].key
<1> SUFFICES ASSUME NEW j \in 1..Len(Written(c)), Written(c)[j].by = d
             PROVE  Written(c)[j].key = call[d].key
  BY DEF Owned
<1>1. PICK i \in 1..Len(sheet) : Written(c)[j] = sheet[i]
  <2>1. RowOf(call[c].key, c).by = c BY DEF RowOf
  <2> QED BY <2>1, WrittenFrom
<1>2. i \in Owned(sheet, d) BY <1>1 DEF Owned
<1> QED BY <1>1, <1>2 DEF Keyed

LEMMA WrittenPlace ==
    ASSUME TypeOK, NEW c \in Calls, NEW d \in Calls, SessionInv(d), PlaceInv(d),
           d \notin shifted, call[d].at = "writing", call[d].kind \in {"update", "find"}
    PROVE  \A i \in call[d].rows :
              i \in 1..Len(Written(c)) /\ Written(c)[i].key = call[d].key
<1>1. call[d].key # NoKey BY NamesAssumption DEF SessionInv
<1> QED BY <1>1, WrittenInPlace DEF PlaceInv

LEMMA OtherSession ==
    ASSUME IInv, NEW c \in Calls, SessionStep(c), NEW d \in Calls \ {c}
    PROVE  PerSession(d)'
<1>1. /\ call'[d] = call[d] /\ shifted' = shifted
      /\ sheet' = sheet \/ sheet' = Written(c)
  BY SessionFrame, SessionType DEF IInv
<1>2. PerSession(d) /\ TypeOK BY DEF IInv
<1>3. CASE sheet' = sheet
  BY <1>1, <1>2, <1>3 DEF PerSession, SessionInv, PlaceInv, Accounted, Keyed
<1>4. CASE sheet' = Written(c)
  <2>1. SessionInv(d)'
    <3>1. Owned(sheet, d) = {} => Owned(Written(c), d) = {} BY <1>2, WrittenOthers
    <3> QED BY <1>1, <1>2, <1>4, <3>1 DEF PerSession, SessionInv
  <2>2. PlaceInv(d)' BY <1>1, <1>2, <1>4, WrittenPlace DEF PerSession, PlaceInv
  <2>3. Accounted(d)'
    <3>1. /\ Cardinality(Owned(Written(c), d)) <= Cardinality(Owned(sheet, d))
          /\ Cardinality(Owned(Written(c), d)) \in Nat /\ Cardinality(Owned(sheet, d)) \in Nat
      BY <1>2, WrittenOthers, WrittenType, OwnedFinite, SheetType
    <3>2. call[d].attempt \in Nat BY <1>2, AttemptType
    <3> QED BY <1>1, <1>2, <1>4, <3>1, <3>2 DEF PerSession, Accounted
  <2>4. Keyed(d)' BY <1>1, <1>2, <1>4, WrittenKeyed DEF PerSession, Keyed
  <2> QED BY <2>1, <2>2, <2>3, <2>4 DEF PerSession
<1> QED BY <1>1, <1>3, <1>4

-----------------------------------------------------------------------------
(* A session's own step. *)

\* Who owns no row has its appends accounted for and its rows keyed.
LEMMA Ownerless ==
    ASSUME NEW c \in Calls, Owned(sheet, c)' = {}, call'[c].attempt \in Nat
    PROVE  Accounted(c)' /\ Keyed(c)'
<1>1. Cardinality(Owned(sheet, c)') = 0 BY FS_EmptySet
<1> QED BY <1>1 DEF Accounted, Keyed

LEMMA OwnReading ==
    ASSUME IInv, NEW c \in Calls, Begin(c) \/ ReadPage(c) \/ Locate(c)
    PROVE  PerSession(c)'
<1>1. TypeOK /\ PerSession(c) BY DEF IInv
<1>2. /\ call[c].at \in {"idle", "reading"}
      /\ sheet' = sheet /\ shifted' = shifted
  BY DEF Begin, ReadPage, Locate, Reading
<1>3. Owned(sheet, c) = {} BY <1>1, <1>2 DEF PerSession, SessionInv
<1>4. Accounted(c)' /\ Keyed(c)'
  <2>1. call'[c] \in Sessions BY <1>1, BeginCall, ReadPageCall, LocateCall
  <2>2. call'[c].attempt \in Nat BY <2>1, BoundsAssumption DEF Sessions
  <2> QED BY <1>2, <1>3, <2>2, Ownerless
<1>5. CASE Begin(c)
  <2>1. SessionInv(c)' BY <1>1, <1>2, <1>3, <1>5, BeginCall DEF SessionInv
  <2>2. PlaceInv(c)' BY <1>1, <1>5, BeginCall DEF PlaceInv
  <2> QED BY <1>4, <2>1, <2>2 DEF PerSession
<1>6. CASE ReadPage(c)
  <2>1. call'[c].at \in {"reading", "done"} /\ call'[c].kind = "read"
    BY <1>1, <1>6, ReadPageCall
  <2> QED BY <1>2, <1>3, <1>4, <2>1 DEF PerSession, SessionInv, PlaceInv
<1>7. CASE Locate(c)
  <2>1. /\ call'[c] \in Sessions /\ call'[c].at \in {"writing", "done"}
        /\ call'[c].kind = call[c].kind /\ call'[c].key = call[c].key
        /\ call'[c].rows \subseteq Matches(call[c].key, Shown(1, 0))
    BY <1>1, <1>7, LocateCall
  <2>2. call[c].at # "idle" BY <1>7 DEF Locate, Reading
  <2>3. SessionInv(c)' BY <1>1, <1>2, <2>1, <2>2 DEF PerSession, SessionInv
  <2>4. PlaceInv(c)' BY <1>1, <1>2, <2>1, LocatedRows DEF PlaceInv
  <2> QED BY <1>4, <2>3, <2>4 DEF PerSession
<1> QED BY <1>5, <1>6, <1>7

LEMMA OwnRefused ==
    ASSUME IInv, NEW c \in Calls, Refused(c)
    PROVE  PerSession(c)'
<1>1. TypeOK /\ PerSession(c) BY DEF IInv
<1>2. /\ call[c].at \in {"reading", "writing"}
      /\ sheet' = sheet /\ shifted' = shifted
  BY DEF Refused, Reading, Writing
<1>3. call[c].attempt \in Nat /\ Cardinality(Owned(sheet, c)) \in Nat
  BY <1>1, AttemptType, SheetType, OwnedFinite
<1>4. CASE Retries(c)
  <2>1. /\ call'[c].at = call[c].at /\ call'[c].attempt = call[c].attempt + 1
        /\ call'[c].kind = call[c].kind /\ call'[c].key = call[c].key
        /\ call'[c].rows = call[c].rows
    BY <1>1, <1>4, RetriesCall
  <2>2. Accounted(c)' BY <1>1, <1>2, <1>3, <2>1 DEF PerSession, Accounted
  <2> QED BY <1>1, <1>2, <2>1, <2>2 DEF PerSession, SessionInv, PlaceInv, Keyed
<1>5. CASE GivesUp(c)
  <2>1. /\ call'[c].at = "failed" /\ call'[c].kind = call[c].kind
        /\ call'[c].key = call[c].key /\ call'[c].attempt = call[c].attempt
    BY <1>1, <1>5, EndsCall DEF GivesUp
  <2>2. Accounted(c)' BY <1>1, <1>2, <1>3, <2>1 DEF PerSession, Accounted
  <2> QED BY <1>1, <1>2, <2>1, <2>2 DEF PerSession, SessionInv, PlaceInv, Keyed
<1> QED BY <1>4, <1>5 DEF Refused

\* A write by key goes into the rows found only.
LEMMA OwnKeyed ==
    ASSUME TypeOK, NEW c \in Calls, PerSession(c), call[c].at = "writing",
           c \notin shifted, call[c].kind \in {"update", "find"}
    PROVE  \A j \in Owned(Written(c), c) : Written(c)[j].key = call[c].key
<1> SUFFICES ASSUME NEW j \in 1..Len(Written(c)), Written(c)[j].by = c
             PROVE  Written(c)[j].key = call[c].key
  BY DEF Owned
<1>1. CASE \E i \in 1..Len(sheet) : Written(c)[j] = sheet[i]
  <2>1. PICK i \in 1..Len(sheet) : Written(c)[j] = sheet[i] BY <1>1
  <2>2. i \in Owned(sheet, c) BY <2>1 DEF Owned
  <2> QED BY <2>1, <2>2 DEF PerSession, Keyed
<1>2. CASE j \in call[c].rows /\ Written(c)[j].key = sheet[j].key
  BY <1>2 DEF PerSession, PlaceInv
<1>3. call[c].kind # "append" OBVIOUS
<1> QED BY <1>1, <1>2, <1>3, WrittenFrom

LEMMA OwnCounted ==
    ASSUME TypeOK, NEW c \in Calls, PerSession(c), call[c].at = "writing",
           call[c].kind = "append"
    PROVE  Cardinality(Owned(Written(c), c)) <= call[c].attempt + 1
<1>1. Cardinality(Owned(sheet, c)) <= call[c].attempt
  BY AttemptType DEF PerSession, Accounted
<1>2. Cardinality(Owned(Written(c), c)) <= Cardinality(Owned(sheet, c)) + 1
  BY WrittenOwn
<1>3. /\ Cardinality(Owned(Written(c), c)) \in Nat /\ Cardinality(Owned(sheet, c)) \in Nat
      /\ call[c].attempt \in Nat
  BY WrittenType, SheetType, OwnedFinite, AttemptType
<1> QED BY <1>1, <1>2, <1>3

LEMMA OwnCarriedOut ==
    ASSUME IInv, NEW c \in Calls, CarriedOut(c)
    PROVE  PerSession(c)'
<1>1. TypeOK /\ PerSession(c) BY DEF IInv
<1>2. call[c].at = "writing" /\ sheet' = Written(c) /\ shifted' = shifted
  BY DEF CarriedOut, Writing
<1>3. /\ call'[c].at = "done" /\ call'[c].kind = call[c].kind
      /\ call'[c].key = call[c].key /\ call'[c].attempt = call[c].attempt
  BY <1>1, EndsCall DEF CarriedOut
<1>4. SessionInv(c)' /\ PlaceInv(c)'
  BY <1>1, <1>2, <1>3 DEF PerSession, SessionInv, PlaceInv
<1>5. Accounted(c)' BY <1>1, <1>2, <1>3, OwnCounted DEF Accounted
<1>6. Keyed(c)' BY <1>1, <1>2, <1>3, OwnKeyed DEF Keyed
<1> QED BY <1>4, <1>5, <1>6 DEF PerSession

LEMMA OwnAnswerLost ==
    ASSUME IInv, NEW c \in Calls, AnswerLost(c)
    PROVE  PerSession(c)'
<1>1. TypeOK /\ PerSession(c) BY DEF IInv
<1>2. call[c].at = "writing" /\ sheet' = Written(c) /\ shifted' = shifted
  BY DEF AnswerLost, Writing
<1>3. /\ call'[c].kind = call[c].kind /\ call'[c].key = call[c].key
      /\ \/ /\ call'[c].at = "writing" /\ call'[c].attempt = call[c].attempt + 1
            /\ call'[c].rows = call[c].rows
         \/ call'[c].at = "failed" /\ call'[c].attempt = call[c].attempt
  <2>1. CASE Retries(c) BY <1>1, <1>2, <2>1, RetriesCall
  <2>2. CASE GivesUp(c) BY <1>1, <2>2, EndsCall DEF GivesUp
  <2> QED BY <2>1, <2>2 DEF AnswerLost
<1>4. SessionInv(c)' BY <1>1, <1>2, <1>3 DEF PerSession, SessionInv
<1>5. PlaceInv(c)'
  BY <1>1, <1>2, <1>3, WrittenPlace DEF PerSession, PlaceInv
<1>6. Accounted(c)'
  <2>1. call[c].kind = "append" => Cardinality(Owned(Written(c), c)) <= call[c].attempt + 1
    BY <1>1, <1>2, OwnCounted
  <2>2. call[c].attempt \in Nat /\ call[c].attempt + 1 + 0 = call[c].attempt + 1
    BY <1>1, AttemptType
  <2>3. CASE call'[c].at = "writing" BY <1>2, <1>3, <2>1, <2>2, <2>3 DEF Accounted
  <2>4. CASE call'[c].at = "failed" BY <1>2, <1>3, <2>1, <2>2, <2>4 DEF Accounted
  <2> QED BY <1>3, <2>3, <2>4
<1>7. Keyed(c)' BY <1>1, <1>2, <1>3, OwnKeyed DEF Keyed
<1> QED BY <1>4, <1>5, <1>6, <1>7 DEF PerSession

-----------------------------------------------------------------------------
(* Edits by others. *)

Edit == \/ \E i \in 1..Len(sheet), k \in Keys : InsertRow(i, k)
        \/ \E i \in 2..(Len(sheet) - 1) : SwapRows(i)

\* An edit makes no rows of a session's, and every row is an old one or new with
\* a key.
LEMMA EditedRows ==
    ASSUME TypeOK, Edit
    PROVE  /\ TypeOK'
           /\ call' = call
           /\ shifted' = shifted \cup {c \in Calls : Reading(c) \/ Writing(c)}
           /\ \A c \in Calls : Cardinality(Owned(sheet', c)) <= Cardinality(Owned(sheet, c))
           /\ \A j \in 1..Len(sheet') : \/ \E i \in 1..Len(sheet) : sheet'[j] = sheet[i]
                                        \/ \E k \in Keys : sheet'[j] = RowOf(k, Nobody)
<1>0. sheet \in Seq(Rows) /\ Len(sheet) \in Nat BY SheetType
<1>1. CASE \E i \in 1..Len(sheet), k \in Keys : InsertRow(i, k)
  <2>1. PICK i \in 1..Len(sheet), k \in Keys : InsertRow(i, k) BY <1>1
  <2> DEFINE r == RowOf(k, Nobody)
  <2>2. r \in Rows /\ sheet' = Inserted(sheet, i, r)
    BY <2>1 DEF InsertRow, Edited, Inserted, RowOf, Rows
  <2>3. \A c \in Calls : r.by # c BY NamesAssumption DEF RowOf
  <2>4. r = RowOf(k, Nobody) OBVIOUS
  <2> HIDE DEF r
  <2>5. i \in 0..Len(sheet) BY <1>0
  <2>6. \A c \in Calls : Cardinality(Owned(sheet', c)) <= Cardinality(Owned(sheet, c))
    BY <1>0, <2>2, <2>3, <2>5, OwnedInserted
  <2>7. /\ Len(sheet') = Len(sheet) + 1
        /\ \A j \in 1..(Len(sheet) + 1) :
              sheet'[j] = IF j <= i THEN sheet[j] ELSE IF j = i + 1 THEN r ELSE sheet[j - 1]
    <3>1. HasInserted(sheet', sheet, i, r) BY <1>0, <2>2, <2>5, InsertedRows
    <3> QED BY <3>1 DEF HasInserted
  <2>8. ASSUME NEW j \in 1..Len(sheet')
        PROVE  (\E m \in 1..Len(sheet) : sheet'[j] = sheet[m]) \/ sheet'[j] = r
    <3>1. CASE j <= i
      <4>1. j \in 1..Len(sheet) /\ sheet'[j] = sheet[j] BY <1>0, <2>5, <2>7, <3>1
      <4> QED BY <4>1
    <3>2. CASE ~(j <= i) /\ j # i + 1
      <4>1. j - 1 \in 1..Len(sheet) /\ sheet'[j] = sheet[j - 1] BY <1>0, <2>5, <2>7, <3>2
      <4> QED BY <4>1
    <3>3. CASE j = i + 1 BY <1>0, <2>5, <2>7, <3>3
    <3> QED BY <3>1, <3>2, <3>3
  <2> QED BY <2>1, <2>4, <2>6, <2>8, InsertRowType DEF InsertRow, Edited
<1>2. CASE \E i \in 2..(Len(sheet) - 1) : SwapRows(i)
  <2>1. PICK i \in 2..(Len(sheet) - 1) : SwapRows(i) BY <1>2
  <2>2. i \in 1..Len(sheet) /\ i + 1 \in 1..Len(sheet) /\ i + 1 <= Len(sheet) BY <1>0
  <2>3. sheet' = Swapped(sheet, i)
    BY <2>1 DEF SwapRows, Edited, Swapped
  <2>4. /\ Len(sheet') = Len(sheet)
        /\ \A j \in 1..Len(sheet) : sheet'[j] = IF j = i THEN sheet[i + 1]
                                                ELSE IF j = i + 1 THEN sheet[i] ELSE sheet[j]
        /\ \A c : Cardinality(Owned(sheet', c)) <= Cardinality(Owned(sheet, c))
    BY <1>0, <2>2, <2>3, OwnedSwapped
  <2>5. \A j \in 1..Len(sheet') : \E m \in 1..Len(sheet) : sheet'[j] = sheet[m]
    BY <2>2, <2>4
  <2> QED BY <2>1, <2>4, <2>5, SwapRowsType DEF SwapRows, Edited
<1> QED BY <1>1, <1>2 DEF Edit

LEMMA EditInv == ASSUME IInv, Edit PROVE IInv'
<1>1. TypeOK /\ TypeOK' BY EditedRows DEF IInv
<1> SUFFICES ASSUME NEW c \in Calls PROVE PerSession(c)' BY <1>1 DEF IInv
<1>2. PerSession(c) BY DEF IInv
<1>3. /\ call' = call
      /\ shifted' = shifted \cup {d \in Calls : Reading(d) \/ Writing(d)}
  BY <1>1, EditedRows
<1>4. /\ Cardinality(Owned(sheet', c)) <= Cardinality(Owned(sheet, c))
      /\ Cardinality(Owned(sheet', c)) \in Nat /\ Cardinality(Owned(sheet, c)) \in Nat
      /\ IsFiniteSet(Owned(sheet', c)) /\ IsFiniteSet(Owned(sheet, c))
  <2>1. sheet' \in Seq(Rows) BY <1>1 DEF TypeOK
  <2> QED BY <1>1, <2>1, EditedRows, SheetType, OwnedFinite
<1>5. Owned(sheet, c) = {} => Owned(sheet', c) = {}
  <2>1. Owned(sheet, c) = {} => Cardinality(Owned(sheet, c)) = 0 BY FS_EmptySet
  <2>2. Cardinality(Owned(sheet', c)) = 0 => Owned(sheet', c) = {} BY <1>4, FS_EmptySet
  <2> QED BY <1>4, <2>1, <2>2
<1>6. SessionInv(c)' BY <1>2, <1>3, <1>5 DEF PerSession, SessionInv
<1>7. PlaceInv(c)' BY <1>3 DEF PlaceInv, Writing
<1>8. Accounted(c)'
  <2>1. call[c].attempt \in Nat BY <1>1, AttemptType
  <2> QED BY <1>2, <1>3, <1>4, <2>1 DEF PerSession, Accounted
<1>9. Keyed(c)'
  <2> SUFFICES ASSUME c \notin shifted', call[c].kind \in {"update", "find"},
                      NEW j \in 1..Len(sheet'), sheet'[j].by = c
               PROVE  sheet'[j].key = call[c].key
    BY <1>3 DEF Keyed, Owned
  <2>1. \A k : RowOf(k, Nobody).by # c BY NamesAssumption DEF RowOf
  <2>2. PICK i \in 1..Len(sheet) : sheet'[j] = sheet[i] BY <1>1, <2>1, EditedRows
  <2>3. i \in Owned(sheet, c) BY <2>2 DEF Owned
  <2> QED BY <1>2, <1>3, <2>2, <2>3 DEF PerSession, Keyed
<1> QED BY <1>6, <1>7, <1>8, <1>9 DEF PerSession

-----------------------------------------------------------------------------
(* The invariant, and what follows from it. *)

LEMMA InitIInv == Init => IInv
<1> SUFFICES ASSUME Init PROVE IInv OBVIOUS
<1>1. TypeOK BY InitType
<1>2. \A c \in Calls : Owned(sheet, c) = {}
  BY InitSheet, NamesAssumption DEF Owned
<1>3. ASSUME NEW c \in Calls PROVE PerSession(c)
  <2>1. call[c] = Idle /\ Owned(sheet, c) = {} BY <1>2 DEF Init
  <2>2. Idle.at = "idle" /\ Idle.kind = "read" BY DEF Idle
  <2> QED BY <2>1, <2>2 DEF PerSession, SessionInv, PlaceInv, Accounted, Keyed
<1> QED BY <1>1, <1>3 DEF IInv

LEMMA NextCases ==
    Next <=> (\E c \in Calls : SessionStep(c)) \/ Edit
BY DEF Next, SessionStep, Edit

LEMMA NextIInv == ASSUME IInv, [Next]_vars PROVE IInv'
<1>1. ASSUME NEW c \in Calls, SessionStep(c) PROVE IInv'
  <2>1. TypeOK' BY <1>1, SessionType DEF IInv
  <2>2. \A d \in Calls \ {c} : PerSession(d)' BY <1>1, OtherSession
  <2>3. PerSession(c)'
    BY <1>1, OwnReading, OwnRefused, OwnCarriedOut, OwnAnswerLost DEF SessionStep, Answered
  <2> QED BY <2>1, <2>2, <2>3 DEF IInv
<1>2. CASE UNCHANGED vars
  BY <1>2 DEF vars, IInv, TypeOK, PerSession, SessionInv, PlaceInv, Accounted, Keyed
<1> QED BY <1>1, <1>2, EditInv, NextCases

\* What keeps a session's record, the rows it has found and the rows it has
\* written in step, whatever others do to the sheet between two requests.
THEOREM InvariantHolds == Spec => []IInv
BY InitIInv, NextIInv, PTL DEF Spec

\* Every variable keeps its type; no request is tried more often than once and
\* MAX_RETRIES times more.
THEOREM TypeCorrect == Spec => []TypeOK
BY InvariantHolds, PTL DEF IInv

\* An append leaves at most one row for each attempt, whichever answers are lost
\* (client.py:103-124), since no attempt is made that is not counted.
THEOREM AppendsBoundedHolds == Spec => []AppendsBounded
<1>1. IInv => AppendsBounded
  <2> SUFFICES ASSUME IInv, NEW c \in Calls, call[c].kind = "append"
               PROVE  Cardinality(Owned(sheet, c)) <= MAX_RETRIES + 1
    BY DEF AppendsBounded
  <2>1. TypeOK /\ Accounted(c) BY DEF IInv, PerSession
  <2>2. call[c].attempt \in 0..MAX_RETRIES
    <3>1. call[c] \in Sessions BY <2>1 DEF TypeOK
    <3> QED BY <3>1 DEF Sessions
  <2>3. Cardinality(Owned(sheet, c)) \in Nat BY <2>1, SheetType, OwnedFinite
  <2> QED BY <2>1, <2>2, <2>3, BoundsAssumption DEF Accounted
<1> QED BY <1>1, InvariantHolds, PTL

\* update_rows_by_key, and an update_range after find_rows, get into no row with
\* another key, unless rows have changed place in between.
THEOREM KeyedWritesHolds == Spec => []KeyedWrites
<1>1. IInv => KeyedWrites BY DEF IInv, PerSession, Keyed, KeyedWrites, Owned
<1> QED BY <1>1, InvariantHolds, PTL

-----------------------------------------------------------------------------
(* Reading to the end. *)

NoBlanks == \A i \in 1..Len(sheet) : sheet[i].key # NoKey

\* The rows above the page that comes next have been shown, and this page is open
\* or one of PAGE rows after the first.
PageInv(c) ==
    call[c].at = "reading" /\ call[c].kind = "read" =>
        /\ \/ call[c].last = 0
           \/ call[c].last = call[c].first + PAGE - 1 /\ call[c].first > CAP
        /\ \A i \in 1..(call[c].first - 1) : i \in call[c].rows

ReadInv == NoBlanks /\ \A c \in Calls : PageInv(c)

LEMMA WrittenNoBlanks ==
    ASSUME TypeOK, NoBlanks, NEW c \in Calls, call[c].kind = "append" => call[c].key \in Keys,
           NEW j \in 1..Len(Written(c))
    PROVE  Written(c)[j].key # NoKey
<1>1. RowOf(call[c].key, c).key = call[c].key BY DEF RowOf
<1> QED BY <1>1, WrittenFrom, NamesAssumption DEF NoBlanks

LEMMA NoBlanksKept == ASSUME IInv, NoBlanks, [Next]_vars PROVE NoBlanks'
<1>1. TypeOK BY DEF IInv
<1>2. ASSUME NEW c \in Calls, SessionStep(c) PROVE NoBlanks'
  <2>1. CASE sheet' = sheet BY <2>1 DEF NoBlanks
  <2>2. CASE sheet' # sheet
    <3>1. Writing(c) /\ sheet' = Written(c)
      BY <1>2, <2>2
      DEF SessionStep, Begin, Answered, ReadPage, Locate, CarriedOut, Refused, AnswerLost
    <3>2. call[c].kind = "append" => call[c].key \in Keys
      BY <3>1 DEF IInv, PerSession, SessionInv, Writing
    <3> QED BY <1>1, <3>1, <3>2, WrittenNoBlanks DEF NoBlanks
  <2> QED BY <2>1, <2>2
<1>3. CASE Edit
  <2>1. \A k : RowOf(k, Nobody).key = k BY DEF RowOf
  <2> QED BY <1>1, <1>3, <2>1, EditedRows, NamesAssumption DEF NoBlanks
<1>4. CASE UNCHANGED vars BY <1>4 DEF vars, NoBlanks
<1> QED BY <1>2, <1>3, <1>4, NextCases

LEMMA PageKept == ASSUME TypeOK, NEW c \in Calls, SessionStep(c), PageInv(c) PROVE PageInv(c)'
<1>1. CASE Begin(c) BY <1>1, BeginCall DEF PageInv
<1>2. CASE ReadPage(c)
  <2> DEFINE first == call[c].first
             shown == Shown(first, call[c].last)
  <2>1. /\ call'[c].rows = call[c].rows \cup (first..(first + shown - 1))
        /\ call'[c].at = "reading" => /\ call'[c].first = first + shown
                                      /\ call'[c].last = first + shown + PAGE - 1
    BY <1>2, ReadPageCall
  <2>2. first \in Nat \ {0} /\ call[c].last \in Nat
    <3>1. call[c] \in Sessions BY DEF TypeOK
    <3> QED BY <3>1 DEF Sessions
  <2>3. shown \in Nat
    <3> HIDE DEF first
    <3>1. /\ RowsReturned(first, call[c].last) \in Nat
          /\ shown \in 0..RowsReturned(first, call[c].last)
      BY <2>2, Returned
    <3> QED BY <3>1
  <2>4. \A i \in 1..(first - 1) : i \in call[c].rows
    BY <1>2 DEF PageInv, ReadPage, Reading
  <2> HIDE DEF first, shown
  <2>5. \A i \in 1..(first + shown - 1) : i \in 1..(first - 1) \/ i \in first..(first + shown - 1)
    BY <2>2, <2>3
  <2> SUFFICES ASSUME call'[c].at = "reading"
               PROVE  /\ call'[c].last = call'[c].first + PAGE - 1
                      /\ call'[c].first > CAP
                      /\ \A i \in 1..(call'[c].first - 1) : i \in call'[c].rows
    BY DEF PageInv
  <2>6. call'[c].first = first + shown /\ call'[c].last = first + shown + PAGE - 1
    BY <2>1
  <2>7. ASSUME NEW i \in 1..(first + shown - 1) PROVE i \in call'[c].rows
    BY <2>1, <2>4, <2>5
  <2>8. /\ call'[c].last = call'[c].first + PAGE - 1
        /\ call'[c].first > CAP
    <3>1. Truncated(first, call[c].last) BY <1>2, ReadPageCall DEF first
    <3>2. shown = CAP BY <3>1 DEF shown, Shown
    <3> QED BY <2>2, <2>6, <3>2, BoundsAssumption
  <2>9. \A i \in 1..(call'[c].first - 1) : i \in call'[c].rows
    BY <2>2, <2>3, <2>6, <2>7
  <2> QED BY <2>8, <2>9
<1>3. CASE Locate(c) BY <1>3, LocateCall DEF PageInv
<1>4. CASE CarriedOut(c) BY <1>4, EndsCall DEF CarriedOut, PageInv
<1>5. CASE Refused(c) BY <1>5, RetriesCall, EndsCall DEF Refused, GivesUp, PageInv
<1>6. CASE AnswerLost(c) BY <1>6, RetriesCall, EndsCall DEF AnswerLost, GivesUp, PageInv
<1> QED BY <1>1, <1>2, <1>3, <1>4, <1>5, <1>6 DEF SessionStep, Answered

LEMMA InitReadInv == ASSUME "blank" \notin Faults, Init PROVE ReadInv
<1>1. NoBlanks BY InitSheet DEF NoBlanks
<1>2. Idle.at = "idle" BY DEF Idle
<1> QED BY <1>1, <1>2 DEF Init, ReadInv, PageInv

LEMMA NextReadInv == ASSUME IInv, ReadInv, [Next]_vars PROVE ReadInv'
<1>1. TypeOK /\ NoBlanks' BY NoBlanksKept DEF IInv, ReadInv
<1>2. ASSUME NEW c \in Calls PROVE PageInv(c)'
  <2>1. PageInv(c) BY DEF ReadInv
  <2>2. CASE call'[c] = call[c] BY <2>1, <2>2 DEF PageInv
  <2>3. CASE SessionStep(c) BY <1>1, <2>1, <2>3, PageKept
  <2>4. ASSUME NEW d \in Calls \ {c}, SessionStep(d) PROVE call'[c] = call[c]
    BY <1>1, <2>4, SessionType DEF IInv
  <2>5. Edit \/ UNCHANGED vars => call' = call BY <1>1, EditedRows DEF vars
  <2> QED BY <2>2, <2>3, <2>4, <2>5, NextCases
<1> QED BY <1>1, <1>2 DEF ReadInv

\* A page that is not cut short reaches the last row if it has room for the row
\* beyond the cap: if there is such a row it has data.  In any case it reaches as far
\* as it was asked for.
LEMMA LastPage ==
    ASSUME TypeOK, NoBlanks, NEW first \in Nat \ {0}, NEW last \in Nat,
           last = 0 \/ (last = first + PAGE - 1 /\ first > CAP), ~Truncated(first, last),
           NEW i \in DataRows(sheet), WithinReach(i)
    PROVE  i \in 1..(first - 1) \/ i \in first..(first + Shown(first, last) - 1)
<1> DEFINE end == FetchedTo(first, last)
           n == RowsReturned(first, last)
<1>1. CAP \in Nat \ {0} /\ PAGE \in Nat /\ Len(sheet) \in Nat BY BoundsAssumption, SheetType
<1>2. /\ end \in Nat
      /\ end >= first + CAP \/ (end = first + PAGE - 1 /\ first > CAP /\ i <= CAP + PAGE)
  BY <1>1 DEF FetchedTo, WithinReach
<1>3. i \in 1..Len(sheet) BY DEF DataRows
<1>4. n \in Nat /\ \A m \in DataRows(sheet) \cap (first..end) : m < first + n
  BY Returned
<1>5. n <= CAP /\ Shown(first, last) = n BY <1>1, <1>4 DEF Truncated, Shown
<1> HIDE DEF end, n
<1>6. i <= end
  <2> SUFFICES ASSUME i > end PROVE FALSE BY <1>2, <1>3
  <2>0. end >= first + CAP BY <1>1, <1>2, <1>3
  <2>1. first + CAP \in 1..Len(sheet) /\ first + CAP \in first..end BY <1>1, <1>2, <1>3, <2>0
  <2>2. first + CAP \in DataRows(sheet) BY <2>1 DEF NoBlanks, DataRows, Blank
  <2>3. first + CAP < first + n BY <1>4, <2>1, <2>2
  <2> QED BY <1>1, <1>4, <1>5, <2>3
<1>7. i >= first => i < first + n BY <1>2, <1>3, <1>4, <1>6
<1> QED BY <1>1, <1>3, <1>4, <1>5, <1>7

LEMMA ReadToTheEnd ==
    ASSUME IInv, ReadInv, [Next]_vars, NEW c \in Calls,
           Reading(c), call[c].kind = "read", call'[c].at = "done",
           NEW i \in DataRows(sheet), WithinReach(i)
    PROVE  i \in call'[c].rows
<1>1. TypeOK /\ NoBlanks /\ PageInv(c) BY DEF IInv, ReadInv
<1>2. call'[c].at # call[c].at BY DEF Reading
<1>3. SessionStep(c)
  <2>1. ASSUME NEW d \in Calls \ {c}, SessionStep(d) PROVE call'[c] = call[c]
    BY <1>1, <2>1, SessionType DEF IInv
  <2>2. Edit \/ UNCHANGED vars => call' = call BY <1>1, EditedRows DEF vars
  <2> QED BY <1>2, <2>1, <2>2, NextCases
<1>4. ReadPage(c)
  <2>1. ~Begin(c) BY DEF Begin, Reading
  <2>2. ~Locate(c) /\ ~CarriedOut(c) /\ ~AnswerLost(c)
    BY DEF Locate, CarriedOut, AnswerLost, Reading, Writing
  <2>3. Refused(c) => call'[c].at # "done"
    BY <1>1, <1>2, RetriesCall, EndsCall DEF Refused, GivesUp
  <2> QED BY <1>3, <2>1, <2>2, <2>3 DEF SessionStep, Answered
<1> DEFINE first == call[c].first
           last == call[c].last
<1>5. /\ call'[c].rows = call[c].rows \cup (first..(first + Shown(first, last) - 1))
      /\ ~Truncated(first, last)
  BY <1>1, <1>4, ReadPageCall
<1>6. first \in Nat \ {0} /\ last \in Nat
  <2>1. call[c] \in Sessions BY <1>1 DEF TypeOK
  <2> QED BY <2>1 DEF Sessions
<1>7. /\ last = 0 \/ (last = first + PAGE - 1 /\ first > CAP)
      /\ \A j \in 1..(first - 1) : j \in call[c].rows
  BY <1>1 DEF PageInv, Reading
<1> HIDE DEF first, last
<1> QED BY <1>1, <1>5, <1>6, <1>7, LastPage

\* Whatever the cap, the shipped one of a whole page included, and whatever others
\* do to the sheet: who follows next_range until there is none has been shown every
\* row with data of the first page and of the one after it, and with a cap below a
\* page all of them (toolsets/sheets/__init__.py:136-167).
THEOREM ReadsFarHolds ==
    ASSUME "blank" \notin Faults
    PROVE  Spec => ReadsFar
<1>1. Init => ReadInv BY InitReadInv
<1>2. IInv /\ ReadInv /\ [Next]_vars => ReadInv' BY NextReadInv
<1>3. IInv /\ ReadInv /\ [Next]_vars =>
        [\A c \in Calls :
            Reading(c) /\ call[c].kind = "read" /\ call'[c].at = "done"
            => {i \in DataRows(sheet) : WithinReach(i)} \subseteq call'[c].rows]_vars
  BY ReadToTheEnd
<1> QED BY <1>1, <1>2, <1>3, InvariantHolds, PTL DEF Spec, ReadsFar
=============================================================================
