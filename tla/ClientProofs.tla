---------------------------- MODULE ClientProofs ----------------------------
(***************************************************************************)
(* Theorems about what the client shows: the layout of results             *)
(* (TableFormat), for tables of any number of columns and rows with texts  *)
(* of any length and terminals of any width, and the completion            *)
(* (Completion), for any names and any texts that are typed.               *)
(*                                                                         *)
(* Widths are sums and maxima over the columns, and the offers are what a  *)
(* loop finds.  What is needed of them is proved by induction, from the    *)
(* fact that every set of numbers that is not empty has a least one.       *)
(***************************************************************************)
EXTENDS TableFormat, Completion, FiniteSetTheorems, SequenceTheorems, WellFoundedInduction, TLAPS

-----------------------------------------------------------------------------
(* Numbers.                                                                *)

\* The least number principle, from the well-foundedness of < on the numbers.
LEMMA LeastNumber ==
  ASSUME NEW T, T \subseteq Nat, T # {}
  PROVE  \E x \in T : \A y \in T : x <= y
<1> DEFINE R == OpToRel(<, Nat)
<1>1. IsWellFoundedOn(R, Nat)
  BY NatLessThanWellFounded
<1>2. ASSUME NEW x \in Nat, NEW y \in Nat, x < y PROVE <<x, y>> \in R
  BY <1>2 DEF OpToRel
<1> HIDE DEF R
<1>3. PICK x \in T : \A y \in T : ~ (<<y, x>> \in R)
  BY <1>1, WFMin
<1>4. ASSUME NEW y \in T PROVE x <= y
  <2>1. x \in Nat /\ y \in Nat /\ ~ (y < x)
    BY <1>2, <1>3
  <2>. QED
    BY <2>1
<1>. QED
  BY <1>4

\* Induction over the numbers, for a set instead of a predicate.
LEMMA Induction ==
  ASSUME NEW T, 0 \in T, \A n \in Nat : n \in T => n + 1 \in T
  PROVE  \A n \in Nat : n \in T
<1> SUFFICES ASSUME Nat \ T # {} PROVE FALSE
  OBVIOUS
<1>1. PICK m \in Nat \ T : \A k \in Nat \ T : m <= k
  BY LeastNumber
<1>2. m # 0 /\ m - 1 \in Nat
  BY <1>1
<1>3. m - 1 \in T
  BY <1>1, <1>2
<1>. QED
  BY <1>2, <1>3

\* Max of a set of numbers that has a bound is its largest member.
LEMMA MaxOfBounded ==
  ASSUME NEW S, S \subseteq Nat, S # {}, NEW b \in Nat, \A x \in S : x <= b
  PROVE  Max(S) \in S /\ \A x \in S : x <= Max(S)
<1> DEFINE T == {b - x : x \in S}
<1>1. T \subseteq Nat /\ T # {}
  <2>1. \A x \in S : b - x \in Nat
    OBVIOUS
  <2>. QED
    BY <2>1
<1>2. PICK m \in T : \A y \in T : m <= y
  <2> HIDE DEF T
  <2>. QED BY <1>1, LeastNumber
<1>3. PICK x \in S : m = b - x
  OBVIOUS
<1>4. \A y \in S : y <= x
  BY <1>2, <1>3
<1>5. \E z \in S : \A y \in S : z >= y
  BY <1>3, <1>4
<1>. QED
  BY <1>5 DEF Max

-----------------------------------------------------------------------------
(***************************************************************************)
(* Sums.  Total is a fold, the value of a recursive function on the sets   *)
(* of columns; such a function exists, and its values on the first k       *)
(* columns are the partial sums.                                           *)
(***************************************************************************)
Sums(w, D) ==
  CHOOSE iter : iter = [s \in SUBSET D |-> IF s = {} THEN 0
                                           ELSE LET x == Max(s) IN iter[s \ {x}] + w[x]]

LEMMA TotalIsSum == \A w : Total(w) = Sums(w, DOMAIN w)[DOMAIN w]
  BY Zenon DEF Total, FoldLeft, MapThenFoldSet, Sums

AreSums(f, w, D) ==
  f = [s \in SUBSET D |-> IF s = {} THEN 0 ELSE f[s \ {Max(s)}] + w[Max(s)]]

LEMMA SumsExist ==
  ASSUME NEW w \in Seq(Int)
  PROVE  \E f : AreSums(f, w, DOMAIN w)
<1> DEFINE T == {n \in Nat : \E f : AreSums(f, w, 1 .. n)}
<1>1. 0 \in T
  <2> DEFINE f == [s \in SUBSET (1 .. 0) |-> 0]
  <2>1. SUBSET (1 .. 0) = {{}}
    OBVIOUS
  <2>2. AreSums(f, w, 1 .. 0)
    BY <2>1 DEF AreSums
  <2>. QED
    BY <2>2
<1>2. ASSUME NEW n \in Nat, n \in T
      PROVE  n + 1 \in T
  <2>1. PICK f : AreSums(f, w, 1 .. n)
    BY <1>2
  <2> DEFINE g == [s \in SUBSET (1 .. n + 1) |->
                     IF n + 1 \in s THEN f[s \ {n + 1}] + w[n + 1] ELSE f[s]]
  <2>2. ASSUME NEW s \in SUBSET (1 .. n + 1)
        PROVE  g[s] = IF s = {} THEN 0 ELSE g[s \ {Max(s)}] + w[Max(s)]
    <3>1. CASE s = {}
      <4>1. s \in SUBSET (1 .. n) /\ n + 1 \notin s
        BY <3>1
      <4>2. f[s] = 0
        BY <2>1, <3>1, <4>1 DEF AreSums
      <4>. QED
        BY <3>1, <4>1, <4>2
    <3>2. CASE s # {}
      <4>1. Max(s) \in s /\ \A x \in s : x <= Max(s)
        <5>1. s \subseteq Nat /\ n + 1 \in Nat /\ \A x \in s : x <= n + 1
          OBVIOUS
        <5> HIDE DEF g
        <5>. QED
          BY <3>2, <5>1, MaxOfBounded, Zenon
      <4> DEFINE m == Max(s)
      <4>2. m \in s /\ \A x \in s : x <= m
        BY <4>1
      <4> HIDE DEF m
      <4>3. CASE n + 1 \in s
        <5>1. m = n + 1
          BY <4>2, <4>3
        <5>2. s \ {m} \in SUBSET (1 .. n + 1) /\ n + 1 \notin s \ {m}
          BY <5>1
        <5>3. g[s] = f[s \ {n + 1}] + w[n + 1]
          BY <4>3
        <5>4. g[s \ {m}] = f[s \ {m}]
          BY <5>2
        <5>5. g[s] = g[s \ {m}] + w[m]
          BY <5>1, <5>3, <5>4
        <5>. QED
          BY <3>2, <5>5 DEF m
      <4>4. CASE n + 1 \notin s
        <5>1. s \in SUBSET (1 .. n) /\ s \ {m} \in SUBSET (1 .. n + 1) /\ n + 1 \notin s \ {m}
          <6>1. \A x \in s : x \in 1 .. n
            BY <4>4
          <6>. QED
            BY <4>4, <6>1
        <5>2. g[s] = f[s] /\ g[s \ {m}] = f[s \ {m}]
          BY <4>4, <5>1
        <5>3. f[s] = f[s \ {m}] + w[m]
          BY <2>1, <3>2, <5>1 DEF AreSums, m
        <5>4. g[s] = g[s \ {m}] + w[m]
          BY <5>2, <5>3
        <5>. QED
          BY <3>2, <5>4 DEF m
      <4>. QED
        BY <4>3, <4>4
    <3>. QED
      BY <3>1, <3>2
  <2>3. g = [s \in SUBSET (1 .. n + 1) |->
               IF s = {} THEN 0 ELSE g[s \ {Max(s)}] + w[Max(s)]]
    <3>1. g = [s \in SUBSET (1 .. n + 1) |-> g[s]]
      OBVIOUS
    <3> HIDE DEF g
    <3>. QED
      BY <2>2, <3>1, Zenon
  <2>4. AreSums(g, w, 1 .. n + 1)
    <3> HIDE DEF g
    <3>. QED
      BY <2>3 DEF AreSums
  <2>. QED
    BY <2>4
<1>3. Len(w) \in T
  <2> HIDE DEF T
  <2>. QED
    BY <1>1, <1>2, Induction
<1>. QED
  BY <1>3

LEMMA SumsAre == ASSUME NEW w \in Seq(Int) PROVE AreSums(Sums(w, DOMAIN w), w, DOMAIN w)
  BY SumsExist, Zenon DEF Sums, AreSums

\* The sums of the first k of some numbers.
Partial(w) == [k \in 0 .. Len(w) |-> Sums(w, DOMAIN w)[1 .. k]]

LEMMA PartialSums ==
  ASSUME NEW w \in Seq(Int)
  PROVE  /\ Partial(w)[0] = 0
         /\ \A k \in 1 .. Len(w) : Partial(w)[k] = Partial(w)[k - 1] + w[k]
         /\ Total(w) = Partial(w)[Len(w)]
<1> DEFINE S == Sums(w, DOMAIN w)
<1>1. DOMAIN w = 1 .. Len(w) /\ Len(w) \in Nat
  OBVIOUS
<1>2. \A s \in SUBSET (1 .. Len(w)) :
        S[s] = IF s = {} THEN 0 ELSE S[s \ {Max(s)}] + w[Max(s)]
  <2>1. AreSums(S, w, 1 .. Len(w))
    BY <1>1, SumsAre
  <2> HIDE DEF S
  <2>. QED
    BY <2>1 DEF AreSums
<1>3. Partial(w) = [k \in 0 .. Len(w) |-> S[1 .. k]]
  BY DEF Partial
<1>4. Total(w) = S[1 .. Len(w)]
  BY <1>1, TotalIsSum
<1> HIDE DEF S
<1>5. Partial(w)[0] = 0
  <2>1. 1 .. 0 = {} /\ 1 .. 0 \in SUBSET (1 .. Len(w))
    OBVIOUS
  <2>. QED
    BY <1>1, <1>2, <1>3, <2>1
<1>6. ASSUME NEW k \in 1 .. Len(w)
      PROVE  Partial(w)[k] = Partial(w)[k - 1] + w[k]
  <2>1. 1 .. k \subseteq Nat /\ 1 .. k # {} /\ k \in Nat /\ \A x \in 1 .. k : x <= k
    <3>1. k \in Nat /\ 1 \in 1 .. k
      OBVIOUS
    <3>. QED
      BY <3>1
  <2>2. Max(1 .. k) \in 1 .. k /\ \A x \in 1 .. k : x <= Max(1 .. k)
    BY <2>1, MaxOfBounded, Zenon
  <2>3. Max(1 .. k) = k
    BY <2>2
  <2>4. (1 .. k) \ {k} = 1 .. k - 1 /\ 1 .. k \in SUBSET (1 .. Len(w))
    OBVIOUS
  <2>5. S[1 .. k] = S[1 .. k - 1] + w[k]
    BY <1>2, <2>1, <2>3, <2>4
  <2>. QED
    BY <1>3, <2>5
<1>7. Total(w) = Partial(w)[Len(w)]
  BY <1>1, <1>3, <1>4
<1>. QED
  BY <1>5, <1>6, <1>7

LEMMA TotalType == ASSUME NEW w \in Seq(Int) PROVE Total(w) \in Int
<1> DEFINE T == {k \in Nat : k <= Len(w) => Partial(w)[k] \in Int}
<1>1. 0 \in T
  BY PartialSums
<1>2. ASSUME NEW k \in Nat, k \in T PROVE k + 1 \in T
  <2> SUFFICES ASSUME k + 1 <= Len(w) PROVE Partial(w)[k + 1] \in Int
    OBVIOUS
  <2>1. k + 1 \in 1 .. Len(w) /\ k + 1 - 1 = k
    OBVIOUS
  <2>. QED
    BY <1>2, <2>1, PartialSums
<1> HIDE DEF T
<1>3. Len(w) \in T
  <2>1. Len(w) \in Nat
    OBVIOUS
  <2>. QED
    BY <1>1, <1>2, <2>1, Induction
<1>. QED
  BY <1>3, PartialSums DEF T

LEMMA TotalBound ==
  ASSUME NEW w \in Seq(Int), NEW m \in Nat, \A k \in 1 .. Len(w) : w[k] <= m
  PROVE  Total(w) <= Len(w) * m
<1> DEFINE T == {k \in Nat : k <= Len(w) => Partial(w)[k] \in Int /\ Partial(w)[k] <= k * m}
<1>1. 0 \in T
  BY PartialSums
<1>2. ASSUME NEW k \in Nat, k \in T PROVE k + 1 \in T
  <2> SUFFICES ASSUME k + 1 <= Len(w)
               PROVE  Partial(w)[k + 1] \in Int /\ Partial(w)[k + 1] <= (k + 1) * m
    OBVIOUS
  <2>1. k + 1 \in 1 .. Len(w) /\ k + 1 - 1 = k
    OBVIOUS
  <2>2. (k + 1) * m = k * m + m /\ k * m \in Int
    OBVIOUS
  <2>3. Partial(w)[k + 1] = Partial(w)[k] + w[k + 1] /\ w[k + 1] <= m /\ w[k + 1] \in Int
    BY <2>1, PartialSums
  <2>4. Partial(w)[k] \in Int /\ Partial(w)[k] <= k * m
    BY <1>2
  <2>. QED
    BY <2>2, <2>3, <2>4
<1> HIDE DEF T
<1>3. Len(w) \in T
  <2>1. Len(w) \in Nat
    OBVIOUS
  <2>. QED
    BY <1>1, <1>2, <2>1, Induction
<1>. QED
  BY <1>3, PartialSums DEF T

LEMMA TotalPlus ==
  ASSUME NEW w \in Seq(Int)
  PROVE  Total([k \in DOMAIN w |-> w[k] + 3]) = Total(w) + 3 * Len(w)
<1> DEFINE v == [k \in DOMAIN w |-> w[k] + 3]
<1>1. v \in Seq(Int) /\ Len(v) = Len(w) /\ \A k \in 1 .. Len(w) : v[k] = w[k] + 3
  OBVIOUS
<1> HIDE DEF v
<1> DEFINE T == {k \in Nat : k <= Len(w) =>
                   Partial(w)[k] \in Int /\ Partial(v)[k] = Partial(w)[k] + 3 * k}
<1>2. 0 \in T
  BY <1>1, PartialSums
<1>3. ASSUME NEW k \in Nat, k \in T PROVE k + 1 \in T
  <2> SUFFICES ASSUME k + 1 <= Len(w)
               PROVE  /\ Partial(w)[k + 1] \in Int
                      /\ Partial(v)[k + 1] = Partial(w)[k + 1] + 3 * (k + 1)
    OBVIOUS
  <2>1. k + 1 \in 1 .. Len(w) /\ k + 1 - 1 = k
    OBVIOUS
  <2>2. Partial(w)[k + 1] = Partial(w)[k] + w[k + 1] /\ w[k + 1] \in Int
    BY <2>1, PartialSums
  <2>3. Partial(v)[k + 1] = Partial(v)[k] + v[k + 1] /\ v[k + 1] = w[k + 1] + 3
    <3>1. \A j \in 1 .. Len(v) : Partial(v)[j] = Partial(v)[j - 1] + v[j]
      BY <1>1, PartialSums
    <3>. QED
      BY <1>1, <2>1, <3>1
  <2>4. Partial(w)[k] \in Int /\ Partial(v)[k] = Partial(w)[k] + 3 * k
    BY <1>3
  <2>. QED
    BY <2>2, <2>3, <2>4
<1> HIDE DEF T
<1>4. Len(w) \in T
  BY <1>2, <1>3, Induction
<1>. QED
  BY <1>1, <1>4, PartialSums DEF T, v

LEMMA TotalGrows ==
  ASSUME NEW w \in Seq(Int), NEW v \in Seq(Int), Len(v) = Len(w),
         \A k \in 1 .. Len(w) : w[k] <= v[k]
  PROVE  Total(w) <= Total(v)
<1> DEFINE T == {k \in Nat : k <= Len(w) =>
                   /\ Partial(w)[k] \in Int /\ Partial(v)[k] \in Int
                   /\ Partial(w)[k] <= Partial(v)[k]}
<1>1. 0 \in T
  BY PartialSums
<1>2. ASSUME NEW k \in Nat, k \in T PROVE k + 1 \in T
  <2> SUFFICES ASSUME k + 1 <= Len(w)
               PROVE  /\ Partial(w)[k + 1] \in Int /\ Partial(v)[k + 1] \in Int
                      /\ Partial(w)[k + 1] <= Partial(v)[k + 1]
    OBVIOUS
  <2>1. k + 1 \in 1 .. Len(w) /\ k + 1 - 1 = k
    OBVIOUS
  <2>2. Partial(w)[k + 1] = Partial(w)[k] + w[k + 1] /\ w[k + 1] \in Int
    BY <2>1, PartialSums
  <2>3. Partial(v)[k + 1] = Partial(v)[k] + v[k + 1] /\ v[k + 1] \in Int
    <3>1. \A j \in 1 .. Len(v) : Partial(v)[j] = Partial(v)[j - 1] + v[j]
      BY PartialSums
    <3>. QED
      BY <2>1, <3>1
  <2>4. /\ Partial(w)[k] \in Int /\ Partial(v)[k] \in Int
        /\ Partial(w)[k] <= Partial(v)[k]
    BY <1>2
  <2>5. w[k + 1] <= v[k + 1]
    BY <2>1
  <2>. QED
    BY <2>2, <2>3, <2>4, <2>5
<1> HIDE DEF T
<1>3. Len(w) \in T
  <2>1. Len(w) \in Nat
    OBVIOUS
  <2>. QED
    BY <1>1, <1>2, <2>1, Induction
<1>. QED
  BY <1>3, PartialSums DEF T

-----------------------------------------------------------------------------
(* Tables, their texts and their widths.                                   *)

LEMMA TableType ==
  ASSUME NEW t, IsTable(t), t # << >>
  PROVE  /\ t \in Seq(Column) /\ DOMAIN t = 1 .. Len(t) /\ Len(t) \in Nat \ {0}
         /\ Rows(t) \in Nat /\ printRows(t) \in Nat /\ printRows(t) <= Rows(t)
         /\ \A c \in DOMAIN t :
              /\ t[c].name \in Nat
              /\ t[c].cells \in Seq(Nat)
              /\ Len(t[c].cells) = Rows(t)
<1>1. t \in Seq(Column) /\ DOMAIN t = 1 .. Len(t) /\ Len(t) \in Nat \ {0}
  BY DEF IsTable
<1>2. \A c \in DOMAIN t : t[c] \in Column
  BY <1>1
<1>3. \A c \in DOMAIN t : t[c].name \in Nat /\ t[c].cells \in Seq(Nat)
  BY <1>2 DEF Column
<1>4. 1 \in DOMAIN t
  BY <1>1
<1>5. \A c \in DOMAIN t : Len(t[c].cells) = Rows(t)
  BY <1>4 DEF IsTable, Rows
<1>6. Rows(t) \in Nat
  BY <1>3, <1>4 DEF Rows
<1>7. printRows(t) \in Nat /\ printRows(t) <= Rows(t)
  BY <1>6, WidthsAssumption DEF printRows, Smaller
<1>. QED
  BY <1>1, <1>3, <1>5, <1>6, <1>7

LEMMA TextsType ==
  ASSUME NEW t, IsTable(t), t # << >>, NEW c \in DOMAIN t
  PROVE  /\ Texts(t, c) \in Seq(Nat)
         /\ Len(Texts(t, c)) = printRows(t) + 1
         /\ Texts(t, c)[1] = t[c].name
         /\ \A r \in 1 .. printRows(t) : Texts(t, c)[r + 1] = t[c].cells[r]
<1> DEFINE name == t[c].name  cells == t[c].cells  p == printRows(t)
<1>1. name \in Nat /\ cells \in Seq(Nat) /\ p \in 0 .. Len(cells)
  BY TableType
<1>2. Texts(t, c) = <<name>> \o SubSeq(cells, 1, p)
  BY DEF Texts
<1> HIDE DEF name, cells, p
<1>3. /\ SubSeq(cells, 1, p) \in Seq(Nat) /\ Len(SubSeq(cells, 1, p)) = p
      /\ \A r \in 1 .. p : SubSeq(cells, 1, p)[r] = cells[r]
  BY <1>1
<1>4. /\ <<name>> \in Seq(Nat) /\ Len(<<name>>) = 1 /\ <<name>>[1] = name
  BY <1>1
<1> DEFINE u == <<name>>  v == SubSeq(cells, 1, p)
<1> HIDE DEF u, v
<1>5. /\ u \o v \in Seq(Nat) /\ Len(u \o v) = p + 1 /\ (u \o v)[1] = name
      /\ \A r \in 1 .. p : (u \o v)[r + 1] = cells[r]
  BY <1>1, <1>3, <1>4 DEF u, v
<1>. QED
  BY <1>2, <1>5 DEF u, v, name, cells, p

\* Finitely many numbers have a bound.
LEMMA Bounded ==
  ASSUME NEW s \in Seq(Nat)
  PROVE  \E b \in Nat : \A r \in 1 .. Len(s) : s[r] <= b
<1> DEFINE T == {n \in Nat : n <= Len(s) => \E b \in Nat : \A r \in 1 .. n : s[r] <= b}
<1>1. 0 \in T
  OBVIOUS
<1>2. ASSUME NEW n \in Nat, n \in T PROVE n + 1 \in T
  <2> SUFFICES ASSUME n + 1 <= Len(s)
               PROVE  \E b \in Nat : \A r \in 1 .. n + 1 : s[r] <= b
    OBVIOUS
  <2>1. PICK b \in Nat : \A r \in 1 .. n : s[r] <= b
    BY <1>2
  <2>2. s[n + 1] \in Nat
    OBVIOUS
  <2>3. b + s[n + 1] \in Nat /\ \A r \in 1 .. n + 1 : s[r] <= b + s[n + 1]
    <3>1. ASSUME NEW r \in 1 .. n + 1 PROVE s[r] <= b + s[n + 1]
      <4>1. CASE r = n + 1
        BY <2>2, <4>1
      <4>2. CASE r # n + 1
        <5>1. r \in 1 .. n /\ s[r] \in Nat
          BY <4>2
        <5>. QED
          BY <2>1, <2>2, <5>1
      <4>. QED
        BY <4>1, <4>2
    <3>. QED
      BY <2>2, <3>1
  <2>. QED
    BY <2>3
<1> HIDE DEF T
<1>3. Len(s) \in T
  <2>1. Len(s) \in Nat
    OBVIOUS
  <2>. QED
    BY <1>1, <1>2, <2>1, Induction
<1>. QED
  BY <1>3 DEF T

LEMMA LongestText ==
  ASSUME NEW t, IsTable(t), t # << >>, NEW c \in DOMAIN t
  PROVE  /\ maxLen(t, c) \in Nat
         /\ \A r \in 1 .. printRows(t) + 1 : Texts(t, c)[r] <= maxLen(t, c)
         /\ \E r \in 1 .. printRows(t) + 1 : Texts(t, c)[r] = maxLen(t, c)
<1> DEFINE s == Texts(t, c)
           S == {t[c].name} \cup {t[c].cells[r] : r \in 1 .. printRows(t)}
<1>1. printRows(t) \in Nat /\ s \in Seq(Nat) /\ Len(s) = printRows(t) + 1
  BY TableType, TextsType
<1>2. \A r \in 1 .. Len(s) : s[r] \in S
  <2>1. s[1] \in S
    BY TextsType
  <2>2. \A r \in 1 .. printRows(t) : s[r + 1] \in S
    BY TextsType
  <2>3. \A r \in 1 .. Len(s) : r = 1 \/ (r - 1 \in 1 .. printRows(t) /\ r = r - 1 + 1)
    BY <1>1
  <2> HIDE DEF s, S
  <2>. QED
    BY <2>1, <2>2, <2>3
<1>3. \A x \in S : \E r \in 1 .. Len(s) : x = s[r]
  <2>1. 1 \in 1 .. Len(s) /\ s[1] = t[c].name
    BY <1>1, TextsType
  <2>2. \A r \in 1 .. printRows(t) : r + 1 \in 1 .. Len(s) /\ s[r + 1] = t[c].cells[r]
    BY <1>1, TextsType
  <2> HIDE DEF s
  <2>. QED
    BY <2>1, <2>2
<1>4. maxLen(t, c) = Max(S)
  BY DEF maxLen
<1> HIDE DEF s, S
<1>5. S \subseteq Nat /\ S # {}
  <2>1. 1 \in 1 .. Len(s)
    BY <1>1
  <2>. QED
    BY <1>1, <1>2, <1>3, <2>1
<1>6. PICK b \in Nat : \A r \in 1 .. Len(s) : s[r] <= b
  BY <1>1, Bounded
<1>7. \A x \in S : x <= b
  BY <1>3, <1>6
<1>8. Max(S) \in S /\ \A x \in S : x <= Max(S)
  BY <1>5, <1>7, MaxOfBounded
<1>9. \E r \in 1 .. Len(s) : s[r] = Max(S)
  BY <1>3, <1>8
<1>. QED
  BY <1>1, <1>2, <1>4, <1>5, <1>8, <1>9 DEF s

-----------------------------------------------------------------------------
(* Widths.                                                                 *)

LEMMA TermWidthType ==
  ASSUME g_display_width \in Int, ws_col \in Sizes
  PROVE  getTermWidth \in Nat
  BY WidthsAssumption DEF getTermWidth

LEMMA AvailableType ==
  ASSUME NEW t, IsTable(t), t # << >>, NEW w \in Nat
  PROVE  /\ availableWidth(t, w) \in Nat
         /\ availableWidth(t, w) \div Len(t) \in Nat
         /\ Len(t) * (availableWidth(t, w) \div Len(t)) <= availableWidth(t, w)
<1>1. Len(t) \in Nat \ {0}
  BY TableType
<1>2. availableWidth(t, w) \in Nat
  BY <1>1 DEF availableWidth, totalCols, Larger
<1>3. ASSUME NEW a \in Nat, NEW n \in Nat \ {0}
      PROVE  a \div n \in Nat /\ n * (a \div n) <= a
  OBVIOUS
<1>. QED
  BY <1>1, <1>2, <1>3

LEMMA NaturalType ==
  ASSUME NEW t, IsTable(t), t # << >>
  PROVE  /\ naturalWidths(t) \in Seq(Nat) /\ Len(naturalWidths(t)) = Len(t)
         /\ maxDataWidth(t) \in Int
<1> DEFINE n == Len(t)
<1>1. n \in Nat \ {0} /\ DOMAIN t = 1 .. n
  BY TableType
<1>2. \A c \in 1 .. n : maxLen(t, c) \in Nat
  BY <1>1, LongestText
<1>3. naturalWidths(t) = [c \in 1 .. n |-> maxLen(t, c)]
  BY <1>1 DEF naturalWidths
<1>4. naturalWidths(t) \in Seq(Nat) /\ Len(naturalWidths(t)) = n
  BY <1>1, <1>2, <1>3
<1>5. maxDataWidth(t) \in Int
  BY <1>1, <1>4, TotalType DEF maxDataWidth, Larger, totalCols
<1>. QED
  BY <1>4, <1>5

\* Two ways to lay a table out: as wide as its texts, or each column cut down to
\* its share of the width, of which there are at least five.
LEMMA WidthsOf ==
  ASSUME NEW t, IsTable(t), t # << >>, NEW w \in Nat, ~ tooNarrow(t, w)
  PROVE  /\ colWidths(t, w) \in Seq(Nat) /\ Len(colWidths(t, w)) = Len(t)
         /\ \/ /\ maxDataWidth(t) <= availableWidth(t, w)
               /\ colWidths(t, w) = naturalWidths(t)
            \/ /\ ~ (maxDataWidth(t) <= availableWidth(t, w))
               /\ \A c \in DOMAIN t :
                    colWidths(t, w)[c] = Larger(5, Smaller(maxLen(t, c),
                                                     availableWidth(t, w) \div Len(t)))
         /\ availableWidth(t, w) \div Len(t) >= 5
<1> DEFINE n == Len(t)  a == availableWidth(t, w)  avg == a \div n
<1>1. n \in Nat \ {0} /\ DOMAIN t = 1 .. n
  BY TableType
<1>2. a \in Nat /\ avg \in Nat /\ avg >= 5
  BY AvailableType DEF tooNarrow, totalCols
<1>3. \A c \in 1 .. n : maxLen(t, c) \in Nat
  BY <1>1, LongestText
<1>4. /\ naturalWidths(t) \in Seq(Nat) /\ Len(naturalWidths(t)) = n
      /\ maxDataWidth(t) \in Int
  BY NaturalType
<1>5. colWidths(t, w) =
        IF maxDataWidth(t) > a THEN [c \in 1 .. n |-> Larger(5, Smaller(maxLen(t, c), avg))]
                               ELSE naturalWidths(t)
  BY <1>1 DEF colWidths, totalCols
<1> HIDE DEF n, a, avg
<1>6. CASE maxDataWidth(t) > a
  <2>1. \A c \in 1 .. n : Larger(5, Smaller(maxLen(t, c), avg)) \in Nat
    BY <1>2, <1>3 DEF Larger, Smaller
  <2> DEFINE v == [c \in 1 .. n |-> Larger(5, Smaller(maxLen(t, c), avg))]
  <2>2. v \in Seq(Nat) /\ Len(v) = n
    BY <1>1, <2>1
  <2>3. ~ (maxDataWidth(t) <= a)
    BY <1>2, <1>4, <1>6
  <2>. QED
    BY <1>1, <1>2, <1>5, <1>6, <2>2, <2>3 DEF n, a, avg
<1>7. CASE ~ (maxDataWidth(t) > a)
  <2>1. maxDataWidth(t) <= a
    BY <1>2, <1>4, <1>7
  <2>. QED
    BY <1>2, <1>4, <1>5, <1>7, <2>1 DEF n, a, avg
<1>. QED
  BY <1>6, <1>7

LEMMA TextOf ==
  ASSUME NEW t, IsTable(t), t # << >>, NEW c \in DOMAIN t, NEW r \in 1 .. printRows(t) + 1
  PROVE  Texts(t, c)[r] \in Nat
<1>1. printRows(t) \in Nat /\ Texts(t, c) \in Seq(Nat) /\ Len(Texts(t, c)) = printRows(t) + 1
  BY TableType, TextsType
<1>. QED
  BY <1>1

\* A column is as wide as its longest text, or wide enough for dots.
LEMMA TextFits ==
  ASSUME NEW t, IsTable(t), t # << >>, NEW w \in Nat, ~ tooNarrow(t, w),
         NEW c \in DOMAIN t, NEW r \in 1 .. printRows(t) + 1
  PROVE  /\ colWidths(t, w)[c] \in Nat
         /\ Texts(t, c)[r] <= colWidths(t, w)[c] \/ colWidths(t, w)[c] >= 5
<1>1. colWidths(t, w)[c] \in Nat
  <2>1. c \in 1 .. Len(colWidths(t, w)) /\ colWidths(t, w) \in Seq(Nat)
    BY TableType, WidthsOf
  <2>. QED
    BY <2>1
<1>2. CASE colWidths(t, w) = naturalWidths(t)
  BY <1>1, <1>2, LongestText DEF naturalWidths
<1>3. CASE colWidths(t, w)[c] =
             Larger(5, Smaller(maxLen(t, c), availableWidth(t, w) \div Len(t)))
  <2>1. maxLen(t, c) \in Nat /\ availableWidth(t, w) \div Len(t) \in Nat
    BY LongestText, AvailableType
  <2>. QED
    BY <1>1, <1>3, <2>1 DEF Larger, Smaller
<1>. QED
  BY <1>1, <1>2, <1>3, WidthsOf

LEMMA CutOf ==
  ASSUME NEW length \in Nat, NEW width \in Nat, length <= width \/ width >= 5
  PROVE  /\ Shown(length, width) = width
         /\ Cut(length, width) \in Nat /\ Cut(length, width) <= length
         /\ Cut(length, width) = length \/ (2 <= Cut(length, width) /\ Cut(length, width) < length)
  BY DEF Shown, Cut, Larger

-----------------------------------------------------------------------------
(* The layout of a table that has columns, on a terminal that is wide      *)
(* enough for them.                                                        *)

\* The line of the dashes is as long as the columns are wide, and so is every
\* line of texts.
LEMMA LinesOf ==
  ASSUME NEW t, IsTable(t), t # << >>, NEW w \in Nat, ~ tooNarrow(t, w)
  PROVE  /\ DashLine(t, colWidths(t, w)) = Total(colWidths(t, w)) + 3 * Len(t)
         /\ \A r \in 1 .. printRows(t) + 1 :
              TextLine(t, colWidths(t, w), r) = Total(colWidths(t, w)) + 3 * Len(t)
<1> DEFINE widths == colWidths(t, w)
<1>1. widths \in Seq(Int) /\ DOMAIN t = DOMAIN widths /\ Len(widths) = Len(t)
  <2>1. widths \in Seq(Nat) /\ Len(widths) = Len(t) /\ DOMAIN t = 1 .. Len(t)
    BY WidthsOf, TableType
  <2> HIDE DEF widths
  <2>. QED
    BY <2>1
<1>2. \A r \in 1 .. printRows(t) + 1, c \in DOMAIN t : Shown(Texts(t, c)[r], widths[c]) = widths[c]
  BY TextOf, TextFits, CutOf
<1> HIDE DEF widths
<1>3. Total([c \in DOMAIN widths |-> widths[c] + 3]) = Total(widths) + 3 * Len(t)
  BY <1>1, TotalPlus
<1>4. DashLine(t, widths) = Total(widths) + 3 * Len(t)
  BY <1>1, <1>3 DEF DashLine
<1>5. ASSUME NEW r \in 1 .. printRows(t) + 1
      PROVE  TextLine(t, widths, r) = Total(widths) + 3 * Len(t)
  <2>1. [c \in DOMAIN t |-> Shown(Texts(t, c)[r], widths[c]) + 3]
          = [c \in DOMAIN widths |-> widths[c] + 3]
    BY <1>1, <1>2
  <2>. QED
    BY <1>3, <2>1 DEF TextLine
<1>. QED
  BY <1>4, <1>5 DEF widths

\* Two lines that are equally long, followed by others that are as long.
LEMMA SameLengths ==
  ASSUME NEW s \in Seq(Int), NEW total, NEW p \in Nat, NEW u \in Seq(Int), Len(u) = 2,
         NEW v \in Seq(Int), Len(v) = p, s = u \o v,
         \A r \in 1 .. 2 : u[r] = total, \A r \in 1 .. p : v[r] = total
  PROVE  DOMAIN s = 1 .. p + 2 /\ Len(s) = p + 2 /\ \A r \in 1 .. p + 2 : s[r] = total
<1>1. /\ Len(s) = Len(u) + Len(v)
      /\ \A r \in 1 .. Len(u) + Len(v) :
           s[r] = IF r <= Len(u) THEN u[r] ELSE v[r - Len(u)]
  BY ConcatProperties, Zenon
<1>2. Len(s) = p + 2 /\ 2 + p = p + 2
  BY <1>1
<1>3. ASSUME NEW r \in 1 .. p + 2 PROVE s[r] = total
  <2>1. s[r] = IF r <= 2 THEN u[r] ELSE v[r - 2]
    BY <1>1, <1>2
  <2>2. CASE r <= 2
    <3>1. r \in 1 .. 2
      BY <2>2
    <3>. QED
      BY <2>1, <2>2, <3>1, Zenon
  <2>3. CASE ~ (r <= 2)
    <3>1. r - 2 \in 1 .. p
      BY <2>3
    <3>. QED
      BY <2>1, <2>3, <3>1, Zenon
  <2>. QED
    BY <2>2, <2>3
<1>4. DOMAIN s = 1 .. Len(s)
  OBVIOUS
<1>. QED
  BY <1>2, <1>3, <1>4

LEMMA LayoutOf ==
  ASSUME NEW t, IsTable(t), t # << >>, NEW w \in Nat, ~ tooNarrow(t, w)
  PROVE  /\ \A c \in DOMAIN t : \A r \in 1 .. printRows(t) + 1 :
              Layout(t, w).kept[c][r] = Cut(Texts(t, c)[r], colWidths(t, w)[c])
         /\ DOMAIN Layout(t, w).lines = 1 .. printRows(t) + 2
         /\ Len(Layout(t, w).lines) = printRows(t) + 2
         /\ \A r \in 1 .. printRows(t) + 2 :
              Layout(t, w).lines[r] = Total(colWidths(t, w)) + 3 * Len(t)
<1> DEFINE widths == colWidths(t, w)  p == printRows(t)  total == Total(widths) + 3 * Len(t)
           top  == <<TextLine(t, widths, 1), DashLine(t, widths)>>
           rows == [r \in 1 .. p |-> TextLine(t, widths, r + 1)]
<1>1. Layout(t, w).kept = [c \in DOMAIN t |-> [r \in 1 .. p + 1 |->
                                                  Cut(Texts(t, c)[r], widths[c])]]
  BY DEF Layout
<1>2. Layout(t, w).lines = top \o rows
  BY DEF Layout
<1>3. p \in Nat
  BY TableType
<1>4. /\ DashLine(t, widths) = total
      /\ \A r \in 1 .. p + 1 : TextLine(t, widths, r) = total
  BY LinesOf
<1>5. \A c \in DOMAIN t : \A r \in 1 .. p + 1 :
        Layout(t, w).kept[c][r] = Cut(Texts(t, c)[r], widths[c])
  BY <1>1
<1>6. total \in Int
  <2>1. widths \in Seq(Int) /\ Len(t) \in Nat
    BY WidthsOf, TableType
  <2>. QED
    BY <2>1, TotalType
<1> HIDE DEF widths, p, total
<1>7. 1 \in 1 .. p + 1 /\ \A r \in 1 .. p : r + 1 \in 1 .. p + 1
  BY <1>3
<1>8. top = <<total, total>>
  BY <1>4, <1>7
<1>9. rows = [r \in 1 .. p |-> total]
  BY <1>4, <1>7
<1> HIDE DEF top, rows
<1>10. top \in Seq(Int) /\ Len(top) = 2 /\ rows \in Seq(Int) /\ Len(rows) = p
  BY <1>3, <1>6, <1>8, <1>9
<1>11. top \o rows \in Seq(Int)
  BY <1>10, ConcatProperties
<1>12. /\ DOMAIN (top \o rows) = 1 .. p + 2 /\ Len(top \o rows) = p + 2
       /\ \A r \in 1 .. p + 2 : (top \o rows)[r] = total
  BY <1>3, <1>8, <1>9, <1>10, <1>11, SameLengths
<1>. QED
  BY <1>2, <1>5, <1>12 DEF widths, p, total

\* All columns together are not wider than the width there is for them.
LEMMA ColumnsFit ==
  ASSUME NEW t, IsTable(t), t # << >>, NEW w \in Nat, ~ tooNarrow(t, w)
  PROVE  Total(colWidths(t, w)) \in Int /\ Total(colWidths(t, w)) <= availableWidth(t, w)
<1> DEFINE n == Len(t)  a == availableWidth(t, w)  avg == a \div n  widths == colWidths(t, w)
<1>1. n \in Nat \ {0} /\ DOMAIN t = 1 .. n /\ a \in Nat /\ avg \in Nat /\ avg >= 5 /\ n * avg <= a
  BY TableType, AvailableType, WidthsOf
<1>2. widths \in Seq(Int) /\ Len(widths) = n
  BY WidthsOf
<1>3. CASE maxDataWidth(t) <= a /\ widths = naturalWidths(t)
  <2>1. Total(widths) \in Int
    BY <1>2, TotalType
  <2>. QED
    BY <1>1, <1>3, <2>1 DEF maxDataWidth, Larger, totalCols
<1>4. CASE \A c \in DOMAIN t : widths[c] = Larger(5, Smaller(maxLen(t, c), avg))
  <2>1. \A c \in 1 .. Len(widths) : widths[c] <= avg
    <3> HIDE DEF a, avg, widths, n
    <3>1. ASSUME NEW c \in 1 .. n PROVE widths[c] <= avg
      <4>1. maxLen(t, c) \in Nat
        BY <1>1, LongestText
      <4>. QED
        BY <1>1, <1>4, <4>1 DEF Larger, Smaller
    <3>. QED
      BY <1>2, <3>1
  <2> HIDE DEF a, avg, widths
  <2>2. Total(widths) <= Len(widths) * avg
    BY <1>1, <1>2, <2>1, TotalBound
  <2>3. Total(widths) \in Int
    BY <1>2, TotalType
  <2>4. Len(widths) * avg = n * avg /\ n * avg \in Int
    BY <1>1, <1>2
  <2>5. Total(widths) <= a
    BY <1>1, <2>2, <2>3, <2>4
  <2>. QED
    BY <2>3, <2>5 DEF a, widths
<1>. QED
  BY <1>3, <1>4, WidthsOf

LEMMA Uncut ==
  ASSUME NEW t, IsTable(t), t # << >>, NEW w \in Nat, ~ tooNarrow(t, w),
         Total(naturalWidths(t)) <= availableWidth(t, w)
  PROVE  colWidths(t, w) = naturalWidths(t)
<1> DEFINE n == Len(t)  a == availableWidth(t, w)  avg == a \div n
<1>1. n \in Nat \ {0} /\ a \in Nat /\ avg \in Nat /\ avg >= 5 /\ n * avg <= a
  BY TableType, AvailableType, WidthsOf
<1> HIDE DEF n, a, avg
<1>2. n * 5 <= n * avg /\ n * avg \in Int
  BY <1>1
<1>3. n * 5 <= a
  BY <1>1, <1>2
<1>4. maxDataWidth(t) <= a
  BY <1>3 DEF maxDataWidth, Larger, totalCols, n, a
<1>. QED
  BY <1>4, WidthsOf DEF a

LEMMA NaturalIsUncut ==
  ASSUME NEW t, IsTable(t), t # << >>, NEW w \in Nat, ~ tooNarrow(t, w),
         colWidths(t, w) = naturalWidths(t),
         NEW c \in DOMAIN t, NEW r \in 1 .. printRows(t) + 1
  PROVE  Layout(t, w).kept[c][r] = Texts(t, c)[r]
<1>1. Texts(t, c)[r] \in Nat /\ maxLen(t, c) \in Nat /\ Texts(t, c)[r] <= maxLen(t, c)
  BY TextOf, LongestText
<1>2. colWidths(t, w)[c] = maxLen(t, c)
  BY DEF naturalWidths
<1>3. Cut(Texts(t, c)[r], maxLen(t, c)) = Texts(t, c)[r]
  BY <1>1 DEF Cut
<1>. QED
  BY <1>2, <1>3, LayoutOf

\* A wider terminal has room for all that fits on a narrower one.
LEMMA WiderIsWide ==
  ASSUME NEW t, IsTable(t), t # << >>, NEW w \in Nat, NEW v \in Nat, w <= v,
         ~ tooNarrow(t, w)
  PROVE  /\ availableWidth(t, w) <= availableWidth(t, v)
         /\ availableWidth(t, w) \div Len(t) <= availableWidth(t, v) \div Len(t)
         /\ ~ tooNarrow(t, v)
<1> DEFINE n == Len(t)  a == availableWidth(t, w)  b == availableWidth(t, v)
<1>1. n \in Nat \ {0} /\ a \in Nat /\ b \in Nat /\ a \div n \in Nat /\ b \div n \in Nat
  BY TableType, AvailableType
<1>2. a <= b
  BY <1>1 DEF availableWidth, totalCols, Larger
<1>3. a \div n >= 5
  BY WidthsOf
<1> HIDE DEF n, a, b
<1>4. a \div n <= b \div n
  BY <1>1, <1>2
<1>5. ~ (b \div n < 5)
  BY <1>1, <1>3, <1>4
<1>. QED
  BY <1>2, <1>4, <1>5 DEF tooNarrow, totalCols, n, a, b

LEMMA WiderKeepsMore ==
  ASSUME NEW t, IsTable(t), t # << >>, NEW w \in Nat, NEW v \in Nat, w <= v,
         ~ tooNarrow(t, w), NEW c \in DOMAIN t, NEW r \in 1 .. printRows(t) + 1
  PROVE  Layout(t, w).kept[c][r] <= Layout(t, v).kept[c][r]
<1> DEFINE l == Texts(t, c)[r]  x == colWidths(t, w)[c]  y == colWidths(t, v)[c]
<1>1. ~ tooNarrow(t, v)
  BY WiderIsWide
<1>2. l \in Nat /\ x \in Nat /\ y \in Nat /\ (l <= x \/ x >= 5) /\ (l <= y \/ y >= 5)
  BY <1>1, TextOf, TextFits
<1>3. Layout(t, w).kept[c][r] = Cut(l, x) /\ Layout(t, v).kept[c][r] = Cut(l, y)
  BY <1>1, LayoutOf
<1>4. CASE colWidths(t, v) = naturalWidths(t)
  <2>1. Layout(t, v).kept[c][r] = l
    BY <1>1, <1>4, NaturalIsUncut
  <2>2. Cut(l, x) <= l
    BY <1>2, CutOf
  <2>. QED
    BY <1>3, <2>1, <2>2
<1>5. CASE colWidths(t, v) # naturalWidths(t)
  <2>1. ~ (maxDataWidth(t) <= availableWidth(t, v))
    BY <1>1, <1>5, WidthsOf
  <2>2. maxDataWidth(t) \in Int
    BY NaturalType
  <2>3. ~ (maxDataWidth(t) <= availableWidth(t, w))
    BY <2>1, <2>2, WiderIsWide, AvailableType
  <2> DEFINE p == availableWidth(t, w) \div Len(t)  q == availableWidth(t, v) \div Len(t)
             m == maxLen(t, c)
  <2>4. x = Larger(5, Smaller(m, p)) /\ y = Larger(5, Smaller(m, q))
    BY <1>1, <2>1, <2>3, WidthsOf
  <2>5. m \in Nat /\ p \in Nat /\ q \in Nat /\ p <= q
    BY LongestText, AvailableType, WiderIsWide
  <2> HIDE DEF m, p, q, l, x, y
  <2>6. x <= y
    BY <2>4, <2>5 DEF Larger, Smaller
  <2>7. Cut(l, x) <= Cut(l, y)
    BY <1>2, <2>6 DEF Cut
  <2>. QED
    BY <1>3, <2>7
<1>. QED
  BY <1>4, <1>5

\* A column is as wide as the longest text that it shows, unless that is shorter
\* than five letters.
LEMMA WidthIsDisplayed ==
  ASSUME NEW t, IsTable(t), t # << >>, NEW w \in Nat, ~ tooNarrow(t, w), NEW c \in DOMAIN t
  PROVE  LET longest == LongestDisplayed(t, Layout(t, w).kept, c)
         IN  longest \in Nat /\ colWidths(t, w)[c] <= longest
<1> DEFINE kept  == Layout(t, w).kept
           width == colWidths(t, w)[c]  m == maxLen(t, c)  p == printRows(t)
           avg   == availableWidth(t, w) \div Len(t)
           D     == {Displayed(t, kept, c, r) : r \in 1 .. p + 1}
<1>1. m \in Nat /\ p \in Nat /\ avg \in Nat /\ avg >= 5 /\ width \in Nat
  <2>1. 1 \in 1 .. p + 1 /\ p \in Nat
    BY TableType
  <2>. QED
    BY <2>1, LongestText, AvailableType, WidthsOf, TextFits
<1>2. ASSUME NEW r \in 1 .. p + 1
      PROVE  /\ Texts(t, c)[r] \in Nat /\ Texts(t, c)[r] <= m
             /\ Displayed(t, kept, c, r) = IF Texts(t, c)[r] > width THEN width
                                                               ELSE Texts(t, c)[r]
  <2>1. /\ Texts(t, c)[r] \in Nat /\ Texts(t, c)[r] <= m
        /\ Texts(t, c)[r] <= width \/ width >= 5
    BY TextOf, LongestText, TextFits
  <2>2. kept[c][r] = Cut(Texts(t, c)[r], width)
    BY LayoutOf
  <2> DEFINE length == Texts(t, c)[r]
  <2>3. Displayed(t, kept, c, r) = IF kept[c][r] = length THEN kept[c][r] ELSE kept[c][r] + 3
    BY DEF Displayed
  <2> HIDE DEF kept, width, length
  <2>4. Displayed(t, kept, c, r) = IF length > width THEN width ELSE length
    BY <1>1, <2>1, <2>2, <2>3 DEF Cut, length
  <2>. QED
    BY <2>1, <2>4 DEF length
<1>3. \E r \in 1 .. p + 1 : Texts(t, c)[r] = m
  BY LongestText
<1>4. width = m \/ width = Larger(5, Smaller(m, avg))
  <2>1. \/ colWidths(t, w) = naturalWidths(t)
        \/ colWidths(t, w)[c] = Larger(5, Smaller(maxLen(t, c), availableWidth(t, w) \div Len(t)))
    BY WidthsOf
  <2>. QED
    BY <2>1 DEF naturalWidths
<1>5. LongestDisplayed(t, kept, c) = Max({5} \cup D)
  BY DEF LongestDisplayed
<1> HIDE DEF kept, width, m, p, avg
<1>6. \A x \in {5} \cup D : x \in Nat /\ x <= m + width + 5
  BY <1>1, <1>2
<1>7. \E r \in 1 .. p + 1 : Displayed(t, kept, c, r) = IF m > width THEN width ELSE m
  BY <1>2, <1>3
<1>8. (IF m > width THEN width ELSE m) \in {5} \cup D
  BY <1>7
<1>9. {5} \cup D \subseteq Nat /\ {5} \cup D # {} /\ m + width + 5 \in Nat
  <2>1. \A x \in {5} \cup D : x \in Nat
    BY <1>6
  <2>2. {5} \cup D \subseteq Nat /\ {5} \cup D # {}
    BY <2>1, Zenon
  <2>. QED
    BY <1>1, <2>2
<1> HIDE DEF D
<1>10. \A x \in {5} \cup D : x <= Max({5} \cup D)
  BY <1>6, <1>9, MaxOfBounded
<1>11. Max({5} \cup D) \in Nat
  <2>1. Max({5} \cup D) \in {5} \cup D
    BY <1>6, <1>9, MaxOfBounded
  <2>. QED
    BY <1>6, <2>1
<1> DEFINE M == Max({5} \cup D)
<1>12. 5 <= M /\ (IF m > width THEN width ELSE m) <= M
  BY <1>8, <1>10
<1> HIDE DEF M
<1>13. M \in Nat /\ width <= M
  BY <1>1, <1>4, <1>11, <1>12 DEF M, Larger, Smaller
<1>. QED
  BY <1>5, <1>13 DEF M, kept, width

-----------------------------------------------------------------------------
(* The states.                                                             *)

\* What is on the screen is the layout of a table for the width it had.
Laid ==
  TableShown =>
    /\ printed.table \in Tables
    /\ printed.width \in Nat
    /\ ~ tooNarrow(printed.table, printed.width)
    /\ printed.kept = Layout(printed.table, printed.width).kept
    /\ printed.lines = Layout(printed.table, printed.width).lines
    /\ printed.note <=> MoreRows(printed.table)

LayoutInvariant == TypeOK /\ Laid

LEMMA LayoutStep == LayoutInvariant /\ [Next]_vars => LayoutInvariant'
<1> SUFFICES ASSUME LayoutInvariant, [Next]_vars
             PROVE  LayoutInvariant'
  OBVIOUS
<1> USE DEF LayoutInvariant, TypeOK, Laid, TableShown
<1>1. getTermWidth \in Nat
  <2>1. g_display_width \in Int /\ ws_col \in Sizes
    BY WidthsAssumption
  <2>. QED
    BY <2>1, TermWidthType
<1>2. ASSUME printed' = Nothing, UNCHANGED running, running,
             g_display_width' \in Settings \cup {80}, ws_col' \in Sizes
      PROVE  LayoutInvariant'
  BY <1>2 DEF Nothing
<1>3. CASE SetWidth \/ Resize \/ PrintOther
  BY <1>2, <1>3 DEF SetWidth, Resize, PrintOther
<1>4. ASSUME NEW t \in Tables, PrintWarning(t)
      PROVE  LayoutInvariant'
  BY <1>1, <1>4 DEF PrintWarning, Nothing
<1>5. ASSUME NEW t \in Tables, PrintTable(t)
      PROVE  LayoutInvariant'
  <2>1. ~ tooNarrow(t, getTermWidth) /\ running /\ running' = running
    BY <1>5 DEF PrintTable
  <2>2. /\ printed'.table = t /\ printed'.width = getTermWidth
        /\ printed'.kept = Layout(t, getTermWidth).kept
        /\ printed'.lines = Layout(t, getTermWidth).lines
        /\ printed'.note = MoreRows(t)
        /\ DOMAIN printed' = DOMAIN Nothing
    BY <1>5 DEF PrintTable, Layout, Nothing
  <2>3. UNCHANGED <<g_display_width, ws_col>>
    BY <1>5 DEF PrintTable
  <2>4. TypeOK'
    BY <1>1, <2>1, <2>2, <2>3
  <2>5. Laid'
    BY <1>1, <2>1, <2>2
  <2>. QED
    BY <2>4, <2>5
<1>6. ASSUME NEW t \in Tables, PrintNoColumns(t)
      PROVE  LayoutInvariant'
  <2>1. t = << >>
    <3>1. t \in Seq(Column) /\ Len(t) = 0
      BY <1>6, TablesAssumption DEF PrintNoColumns, totalCols, IsTable
    <3>. QED
      BY <3>1, EmptySeq
  <2>2. PICK w \in BOOLEAN :
          printed' = [Nothing EXCEPT !.table = t, !.width = getTermWidth, !.warning = w]
    BY <1>6 DEF PrintNoColumns
  <2>3. /\ printed'.table = << >> /\ printed'.width = getTermWidth
        /\ DOMAIN printed' = DOMAIN Nothing
    BY <2>1, <2>2 DEF Nothing
  <2>4. running' \in BOOLEAN /\ UNCHANGED <<g_display_width, ws_col>>
    BY <1>6 DEF PrintNoColumns
  <2>. QED
    BY <1>1, <2>3, <2>4
<1>7. CASE UNCHANGED vars
  BY <1>7 DEF vars
<1>. QED
  BY <1>3, <1>4, <1>5, <1>6, <1>7 DEF Next

LEMMA LayoutInit == Init => LayoutInvariant
  BY WidthsAssumption DEF Init, LayoutInvariant, TypeOK, Laid, TableShown, Nothing

LEMMA LayoutCorrect == Spec => []LayoutInvariant
  BY LayoutInit, LayoutStep, PTL DEF Spec

\* What is said of the tables that are shown holds if it holds of the layouts.
LEMMA ShownTable ==
  ASSUME LayoutInvariant, TableShown
  PROVE  /\ IsTable(printed.table) /\ printed.table # << >>
         /\ printed.width \in Nat
         /\ ~ tooNarrow(printed.table, printed.width)
         /\ printed.kept = Layout(printed.table, printed.width).kept
         /\ printed.lines = Layout(printed.table, printed.width).lines
         /\ printed.note <=> MoreRows(printed.table)
  BY TablesAssumption DEF LayoutInvariant, Laid, TableShown

-----------------------------------------------------------------------------
\* The screen and the settings keep their types.
THEOREM TypeCorrect == Spec => []TypeOK
<1>1. LayoutInvariant => TypeOK
  BY DEF LayoutInvariant
<1>. QED
  BY <1>1, LayoutCorrect, PTL

\* However many columns and rows, whatever their texts: no line is longer than
\* the terminal, if the terminal has the least width.
THEOREM LinesNeverTooLong == Spec => []LinesFit
<1>1. LayoutInvariant => LinesFit
  <2> SUFFICES ASSUME LayoutInvariant, TableShown, NEW r \in DOMAIN printed.lines
               PROVE  printed.lines[r] <=
                        Larger(printed.width - 5, 10 + 3 * Len(printed.table))
    BY DEF LinesFit
  <2> DEFINE t == printed.table  w == printed.width
  <2>1. IsTable(t) /\ t # << >> /\ w \in Nat /\ ~ tooNarrow(t, w)
    BY ShownTable
  <2>2. printed.lines[r] = Total(colWidths(t, w)) + 3 * Len(t)
    <3>1. printed.lines = Layout(t, w).lines
      BY ShownTable
    <3> HIDE DEF t, w
    <3>. QED
      BY <2>1, <3>1, LayoutOf
  <2> HIDE DEF t, w
  <2>3. Total(colWidths(t, w)) \in Int /\ Total(colWidths(t, w)) <= availableWidth(t, w)
    BY <2>1, ColumnsFit
  <2>4. Len(t) \in Nat
    BY <2>1, TableType
  <2>5. printed.lines[r] <= Larger(w - 5, 10 + 3 * Len(t))
    BY <2>1, <2>2, <2>3, <2>4 DEF availableWidth, totalCols, Larger
  <2>. QED
    BY <2>5 DEF t, w
<1>. QED
  BY <1>1, LayoutCorrect, PTL

\* The columns are aligned, also where texts were cut.
THEOREM ColumnsAligned == Spec => []LinesAligned
<1>1. LayoutInvariant => LinesAligned
  <2> SUFFICES ASSUME LayoutInvariant, TableShown
               PROVE  \A r, q \in DOMAIN printed.lines : printed.lines[r] = printed.lines[q]
    BY DEF LinesAligned
  <2> DEFINE t == printed.table  w == printed.width
  <2>1. IsTable(t) /\ t # << >> /\ w \in Nat /\ ~ tooNarrow(t, w)
        /\ printed.lines = Layout(t, w).lines
    BY ShownTable
  <2> HIDE DEF t, w
  <2>2. DOMAIN printed.lines = 1 .. printRows(t) + 2
    BY <2>1, LayoutOf
  <2>3. \A r \in 1 .. printRows(t) + 2 :
          printed.lines[r] = Total(colWidths(t, w)) + 3 * Len(t)
    BY <2>1, LayoutOf
  <2>. QED
    BY <2>2, <2>3
<1>. QED
  BY <1>1, LayoutCorrect, PTL

\* No column is wider than the longest text that it shows, or five: neither rows
\* that are left out nor texts that are cut widen it.
THEOREM NotWidened == Spec => []NoWiderThanShown
<1>1. LayoutInvariant => NoWiderThanShown
  <2> SUFFICES ASSUME LayoutInvariant, TableShown, NEW r \in DOMAIN printed.lines
               PROVE  printed.lines[r] <=
                        Total([c \in DOMAIN printed.table |->
                                 LongestDisplayed(printed.table, printed.kept, c) + 3])
    BY DEF NoWiderThanShown
  <2> DEFINE t == printed.table  w == printed.width  kept == Layout(t, w).kept
             widths == colWidths(t, w)
             v == [c \in DOMAIN t |-> LongestDisplayed(t, kept, c) + 3]
             u == [c \in DOMAIN t |-> widths[c] + 3]
  <2>1. IsTable(t) /\ t # << >> /\ w \in Nat /\ ~ tooNarrow(t, w)
        /\ printed.kept = kept /\ printed.lines = Layout(t, w).lines
    BY ShownTable
  <2> HIDE DEF t, w
  <2>2. printed.lines[r] = DashLine(t, widths)
    BY <2>1, LayoutOf, LinesOf
  <2>3. DashLine(t, widths) = Total(u)
    BY DEF DashLine
  <2>4. DOMAIN t = 1 .. Len(t) /\ Len(t) \in Nat
    BY <2>1, TableType
  <2>5. \A c \in DOMAIN t : LongestDisplayed(t, kept, c) \in Nat /\ widths[c] <= LongestDisplayed(t, kept, c)
    BY <2>1, WidthIsDisplayed
  <2>6. \A c \in DOMAIN t : widths[c] \in Nat
    BY <2>1, <2>4, WidthsOf
  <2> HIDE DEF kept, widths
  <2>7. u \in Seq(Int) /\ v \in Seq(Int) /\ Len(v) = Len(u)
        /\ \A c \in 1 .. Len(u) : u[c] <= v[c]
    BY <2>4, <2>5, <2>6
  <2> HIDE DEF u, v
  <2>8. Total(u) <= Total(v)
    BY <2>7, TotalGrows
  <2>9. printed.lines[r] <= Total(v)
    BY <2>2, <2>3, <2>8
  <2>. QED
    BY <2>1, <2>9 DEF v, t
<1>. QED
  BY <1>1, LayoutCorrect, PTL

\* The length given to substr is never negative, and dots never stand for nothing.
THEOREM CutsAreSound == Spec => []CutsKeepText
<1>1. LayoutInvariant => CutsKeepText
  <2> SUFFICES ASSUME LayoutInvariant, TableShown,
                      NEW c \in DOMAIN printed.table,
                      NEW r \in 1 .. printRows(printed.table) + 1
               PROVE  LET length == Texts(printed.table, c)[r]
                          kept   == printed.kept[c][r]
                      IN  kept = length \/ (2 <= kept /\ kept < length)
    BY DEF CutsKeepText
  <2> DEFINE t == printed.table  w == printed.width
  <2>1. IsTable(t) /\ t # << >> /\ w \in Nat /\ ~ tooNarrow(t, w)
        /\ printed.kept = Layout(t, w).kept
    BY ShownTable
  <2>2. c \in DOMAIN t /\ r \in 1 .. printRows(t) + 1
    OBVIOUS
  <2> HIDE DEF t, w
  <2> DEFINE length == Texts(t, c)[r]  width == colWidths(t, w)[c]
  <2>3. length \in Nat /\ width \in Nat /\ (length <= width \/ width >= 5)
    BY <2>1, <2>2, TextOf, TextFits
  <2>4. printed.kept[c][r] = Cut(length, width)
    BY <2>1, <2>2, LayoutOf
  <2> HIDE DEF length, width
  <2>5. \/ printed.kept[c][r] = length
        \/ 2 <= printed.kept[c][r] /\ printed.kept[c][r] < length
    BY <2>3, <2>4, CutOf
  <2>. QED
    BY <2>5 DEF t, length
<1>. QED
  BY <1>1, LayoutCorrect, PTL

\* A table that fits is shown as it is.
THEOREM FittingIsUncut == Spec => []NoNeedlessCut
<1>1. LayoutInvariant => NoNeedlessCut
  <2> SUFFICES ASSUME LayoutInvariant, TableShown,
                      Total(naturalWidths(printed.table))
                        <= availableWidth(printed.table, printed.width),
                      NEW c \in DOMAIN printed.table,
                      NEW r \in 1 .. printRows(printed.table) + 1
               PROVE  printed.kept[c][r] = Texts(printed.table, c)[r]
    BY DEF NoNeedlessCut
  <2> DEFINE t == printed.table  w == printed.width
  <2>1. IsTable(t) /\ t # << >> /\ w \in Nat /\ ~ tooNarrow(t, w)
        /\ printed.kept = Layout(t, w).kept
    BY ShownTable
  <2>2. /\ c \in DOMAIN t /\ r \in 1 .. printRows(t) + 1
        /\ Total(naturalWidths(t)) <= availableWidth(t, w)
    OBVIOUS
  <2> HIDE DEF t, w
  <2>3. printed.kept[c][r] = Texts(t, c)[r]
    BY <2>1, <2>2, Uncut, NaturalIsUncut
  <2>. QED
    BY <2>3 DEF t
<1>. QED
  BY <1>1, LayoutCorrect, PTL

\* Rows are left out of a table exactly if the note after it says so.
THEOREM LeftOutIsSaid == Spec => []RowsAnnounced
<1>1. LayoutInvariant => RowsAnnounced
  <2> SUFFICES ASSUME LayoutInvariant, TableShown
               PROVE  printed.note <=> Len(printed.lines) - 2 < Rows(printed.table)
    BY DEF RowsAnnounced
  <2> DEFINE t == printed.table  w == printed.width
  <2>1. IsTable(t) /\ t # << >> /\ w \in Nat /\ ~ tooNarrow(t, w)
        /\ printed.lines = Layout(t, w).lines /\ (printed.note <=> MoreRows(t))
    BY ShownTable
  <2> HIDE DEF t, w
  <2>2. printRows(t) \in Nat /\ Rows(t) \in Nat
    BY <2>1, TableType
  <2>3. Len(printed.lines) = printRows(t) + 2
    BY <2>1, LayoutOf
  <2>4. printed.note <=> Len(printed.lines) - 2 < Rows(t)
    BY <2>1, <2>2, <2>3, WidthsAssumption DEF MoreRows, printRows, Smaller
  <2>. QED
    BY <2>4 DEF t
<1>. QED
  BY <1>1, LayoutCorrect, PTL

\* A wider terminal shows every table that a narrower one shows, and no text of
\* it loses a letter more.
THEOREM WiderIsBetter == Spec => []WiderShowsMore
<1>1. LayoutInvariant => WiderShowsMore
  <2> SUFFICES ASSUME LayoutInvariant, TableShown,
                      NEW v \in Settings, v >= printed.width
               PROVE  /\ ~ tooNarrow(printed.table, v)
                      /\ \A c \in DOMAIN printed.table,
                            r \in 1 .. printRows(printed.table) + 1 :
                           printed.kept[c][r] <= Layout(printed.table, v).kept[c][r]
    BY DEF WiderShowsMore
  <2> DEFINE t == printed.table  w == printed.width
  <2>1. IsTable(t) /\ t # << >> /\ w \in Nat /\ ~ tooNarrow(t, w)
        /\ printed.kept = Layout(t, w).kept
    BY ShownTable
  <2>2. v \in Nat /\ w <= v
    <3>1. v \in Int /\ v >= w /\ w \in Nat
      BY <2>1, WidthsAssumption
    <3> HIDE DEF w
    <3>. QED
      BY <3>1
  <2> HIDE DEF t, w
  <2>3. ~ tooNarrow(t, v)
    BY <2>1, <2>2, WiderIsWide
  <2>4. ASSUME NEW c \in DOMAIN t, NEW r \in 1 .. printRows(t) + 1
        PROVE  printed.kept[c][r] <= Layout(t, v).kept[c][r]
    BY <2>1, <2>2, WiderKeepsMore
  <2>. QED
    BY <2>3, <2>4 DEF t
<1>. QED
  BY <1>1, LayoutCorrect, PTL

-----------------------------------------------------------------------------
(***************************************************************************)
(* Completion: the key words and what TAB offers, for every set of names   *)
(* with every order of them, and texts of any letters and any length.      *)
(***************************************************************************)

\* A finite set of names that is not empty has a last one.
LEMMA LastName ==
  ASSUME NEW S \in SUBSET Names, IsFiniteSet(S), S # {}
  PROVE  \E m \in S : \A x \in S \ {m} : Before(x, m)
<1> DEFINE T == {n \in Nat : \A R \in SUBSET Names :
                   IsFiniteSet(R) /\ Cardinality(R) = n + 1 =>
                     \E m \in R : \A x \in R \ {m} : Before(x, m)}
<1>1. 0 \in T
  <2> SUFFICES ASSUME NEW R \in SUBSET Names, IsFiniteSet(R), Cardinality(R) = 0 + 1
               PROVE  \E m \in R : \A x \in R \ {m} : Before(x, m)
    OBVIOUS
  <2>1. PICK m : R = {m}
    BY FS_Singleton
  <2>. QED
    BY <2>1
<1>2. ASSUME NEW n \in Nat, n \in T PROVE n + 1 \in T
  <2> SUFFICES ASSUME NEW R \in SUBSET Names, IsFiniteSet(R), Cardinality(R) = (n + 1) + 1
               PROVE  \E m \in R : \A x \in R \ {m} : Before(x, m)
    OBVIOUS
  <2>1. PICK x \in R : TRUE
    BY FS_EmptySet
  <2>2. IsFiniteSet(R \ {x}) /\ Cardinality(R \ {x}) = n + 1 /\ R \ {x} \in SUBSET Names
    BY FS_RemoveElement
  <2>3. PICK m \in R \ {x} : \A y \in (R \ {x}) \ {m} : Before(y, m)
    BY <1>2, <2>2
  <2> HIDE DEF T
  <2>4. CASE Before(x, m)
    <3>1. \A y \in R \ {m} : Before(y, m)
      BY <2>3, <2>4
    <3>. QED
      BY <2>3, <3>1
  <2>5. CASE ~ Before(x, m)
    <3>1. Before(m, x)
      BY <2>1, <2>3, <2>5, OrderAssumption
    <3>2. \A y \in R \ {x} : Before(y, x)
      BY <2>1, <2>3, <3>1, OrderAssumption
    <3>. QED
      BY <2>1, <3>2
  <2>. QED
    BY <2>4, <2>5
<1>3. Cardinality(S) - 1 \in Nat /\ (Cardinality(S) - 1) + 1 = Cardinality(S)
  BY FS_EmptySet, FS_CardinalityType
<1> HIDE DEF T
<1>4. Cardinality(S) - 1 \in T
  BY <1>1, <1>2, <1>3, Induction
<1>. QED
  BY <1>3, <1>4 DEF T

\* The names can be listed in their order.
LEMMA Listing ==
  ASSUME NEW S \in SUBSET Names, IsFiniteSet(S)
  PROVE  \E s \in [1 .. Cardinality(S) -> S] : InOrder(s)
<1> DEFINE T == {n \in Nat : \A R \in SUBSET Names :
                   IsFiniteSet(R) /\ Cardinality(R) = n => \E s \in [1 .. n -> R] : InOrder(s)}
<1>1. 0 \in T
  <2> SUFFICES ASSUME NEW R \in SUBSET Names
               PROVE  \E s \in [1 .. 0 -> R] : InOrder(s)
    OBVIOUS
  <2> DEFINE s == [k \in 1 .. 0 |-> k]
  <2>1. s \in [1 .. 0 -> R] /\ DOMAIN s = 1 .. 0
    OBVIOUS
  <2> HIDE DEF s
  <2>2. InOrder(s)
    BY <2>1 DEF InOrder
  <2>. QED
    BY <2>1, <2>2
<1>2. ASSUME NEW n \in Nat, n \in T PROVE n + 1 \in T
  <2> SUFFICES ASSUME NEW R \in SUBSET Names, IsFiniteSet(R), Cardinality(R) = n + 1
               PROVE  \E s \in [1 .. n + 1 -> R] : InOrder(s)
    OBVIOUS
  <2>1. R # {}
    BY FS_EmptySet
  <2>2. PICK m \in R : \A x \in R \ {m} : Before(x, m)
    BY <2>1, LastName
  <2>3. IsFiniteSet(R \ {m}) /\ Cardinality(R \ {m}) = n /\ R \ {m} \in SUBSET Names
    <3>1. IsFiniteSet(R \ {m}) /\ Cardinality(R \ {m}) = Cardinality(R) - 1
      BY FS_RemoveElement
    <3>. QED
      BY <3>1
  <2>4. PICK s \in [1 .. n -> R \ {m}] : InOrder(s)
    BY <1>2, <2>3
  <2> HIDE DEF T
  <2> DEFINE l == [k \in 1 .. n + 1 |-> IF k = n + 1 THEN m ELSE s[k]]
  <2>5. \A k \in 1 .. n + 1 : k \in 1 .. n \/ k = n + 1
    OBVIOUS
  <2>6. /\ DOMAIN l = 1 .. n + 1
        /\ \A k \in 1 .. n : l[k] = s[k]
        /\ l[n + 1] = m
    OBVIOUS
  <2>7. l \in [1 .. n + 1 -> R]
    BY <2>2, <2>4, <2>5
  <2> HIDE DEF l
  <2>8. ASSUME NEW j \in 1 .. n + 1, NEW k \in 1 .. n + 1, j < k
        PROVE  Before(l[j], l[k])
    <3>1. j \in 1 .. n
      BY <2>8
    <3>2. s[j] \in R \ {m}
      BY <2>4, <3>1
    <3>3. CASE k = n + 1
      BY <2>2, <2>6, <3>1, <3>2, <3>3
    <3>4. CASE k \in 1 .. n
      BY <2>4, <2>6, <2>8, <3>1, <3>4 DEF InOrder
    <3>. QED
      BY <2>5, <3>3, <3>4
  <2>9. InOrder(l)
    BY <2>6, <2>8 DEF InOrder
  <2>. QED
    BY <2>7, <2>9
<1> HIDE DEF T
<1>3. Cardinality(S) \in T
  BY <1>1, <1>2, FS_CardinalityType, Induction
<1>. QED
  BY <1>3 DEF T

LEMMA KeyWordsInOrder ==
  ASSUME NEW defs \in SUBSET Names
  PROVE  getKeyWords(defs) \in Seq(Names) /\ InOrder(getKeyWords(defs))
<1> DEFINE names == {n \in defs : IsKeyWord(n)}
           words == getKeyWords(defs)
<1>1. IsFiniteSet(names) /\ names \in SUBSET Names
  <2>1. IsFiniteSet(Names)
    BY LettersAssumption
  <2>. QED
    BY <2>1, FS_Subset
<1>2. words = CHOOSE s \in [1 .. Cardinality(names) -> names] : InOrder(s)
  BY DEF getKeyWords
<1> HIDE DEF names, words
<1>3. words \in [1 .. Cardinality(names) -> names] /\ InOrder(words)
  BY <1>1, <1>2, Listing
<1>4. words \in Seq(Names)
  BY <1>1, <1>3, FS_CardinalityType
<1>. QED
  BY <1>3, <1>4 DEF words

-----------------------------------------------------------------------------
(* The loop of completionHook.  It is the value of a recursive function on *)
(* how many key words it has passed; such a function exists.               *)

Offering(f, text, n) ==
  f = [k \in 0 .. n |->
         IF k = 0 THEN << >>
         ELSE IF Offered(text, keyWords[k]) THEN Append(f[k - 1], keyWords[k])
         ELSE f[k - 1]]

LEMMA OfferingExists ==
  ASSUME NEW text, NEW len \in Nat
  PROVE  \E f : Offering(f, text, len)
<1> DEFINE After(f, k) == IF k = 0 THEN << >>
                          ELSE IF Offered(text, keyWords[k]) THEN Append(f[k - 1], keyWords[k])
                          ELSE f[k - 1]
           T == {n \in Nat : \E f : f = [k \in 0 .. n |-> After(f, k)]}
<1>1. 0 \in T
  <2> DEFINE f == [k \in 0 .. 0 |-> << >>]
  <2>1. f = [k \in 0 .. 0 |-> After(f, k)]
    OBVIOUS
  <2>. QED
    BY <2>1, Zenon
<1>2. ASSUME NEW n \in Nat, n \in T PROVE n + 1 \in T
  <2>1. PICK f : f = [k \in 0 .. n |-> After(f, k)]
    BY <1>2
  <2> DEFINE g == [k \in 0 .. n + 1 |-> After(f, k)]
  <2>2. \A k \in 0 .. n : g[k] = f[k]
    <3>1. \A k \in 0 .. n : k \in 0 .. n + 1
      OBVIOUS
    <3>2. \A k \in 0 .. n : f[k] = After(f, k)
      BY <2>1
    <3>3. \A k \in 0 .. n + 1 : g[k] = After(f, k)
      OBVIOUS
    <3> HIDE DEF g, After
    <3>. QED
      BY <3>1, <3>2, <3>3
  <2>3. ASSUME NEW k \in 0 .. n + 1
        PROVE  g[k] = After(g, k)
    <3>1. CASE k = 0
      BY <3>1
    <3>2. CASE k # 0
      <4>1. k - 1 \in 0 .. n
        BY <3>2
      <4>2. g[k - 1] = f[k - 1]
        BY <2>2, <4>1
      <4>3. g[k] = After(f, k)
        OBVIOUS
      <4> HIDE DEF g
      <4>. QED
        BY <4>2, <4>3
    <3>. QED
      BY <3>1, <3>2
  <2>4. g = [k \in 0 .. n + 1 |-> g[k]]
    OBVIOUS
  <2> HIDE DEF g, After
  <2>5. g = [k \in 0 .. n + 1 |-> After(g, k)]
    BY <2>3, <2>4, Zenon
  <2>6. n + 1 \in Nat
    OBVIOUS
  <2>. QED
    BY <2>5, <2>6, Zenon
<1> HIDE DEF T
<1>3. len \in T
  BY <1>1, <1>2, Induction
<1>4. \E f : f = [k \in 0 .. len |-> After(f, k)]
  BY <1>3 DEF T
<1>. QED
  BY <1>4 DEF Offering

LEMMA OfferingSteps ==
  ASSUME NEW text, Len(keyWords) \in Nat
  PROVE  \E f : /\ completionHook(text) = f[Len(keyWords)]
                /\ f[0] = << >>
                /\ \A k \in 1 .. Len(keyWords) :
                     f[k] = IF Offered(text, keyWords[k]) THEN Append(f[k - 1], keyWords[k])
                                                              ELSE f[k - 1]
<1> DEFINE f == CHOOSE f : Offering(f, text, Len(keyWords))
<1>1. completionHook(text) = f[Len(keyWords)]
  BY Zenon DEF completionHook, Offering
<1>2. \E g : Offering(g, text, Len(keyWords))
  BY OfferingExists
<1>3. Offering(f, text, Len(keyWords))
  BY <1>2, Zenon
<1> HIDE DEF f
<1>4. f[0] = << >>
  BY <1>3 DEF Offering
<1>5. \A k \in 1 .. Len(keyWords) :
        f[k] = IF Offered(text, keyWords[k]) THEN Append(f[k - 1], keyWords[k]) ELSE f[k - 1]
  <2> TAKE k \in 1 .. Len(keyWords)
  <2>1. k \in 0 .. Len(keyWords) /\ k # 0
    OBVIOUS
  <2>. QED
    BY <1>3, <2>1 DEF Offering
<1>. QED
  BY <1>1, <1>4, <1>5

\* The loop offers the key words that fit, each in its place.
LEMMA LoopOffers ==
  ASSUME keyWords \in Seq(Names), InOrder(keyWords), NEW text
  PROVE  /\ completionHook(text) \in Seq(Names)
         /\ \A w : (\E k \in 1 .. Len(completionHook(text)) : completionHook(text)[k] = w)
                     <=> \E j \in 1 .. Len(keyWords) : keyWords[j] = w /\ Offered(text, w)
         /\ InOrder(completionHook(text))
<1>1. /\ Len(keyWords) \in Nat /\ DOMAIN keyWords = 1 .. Len(keyWords)
      /\ \A k \in 1 .. Len(keyWords) : keyWords[k] \in Names
  BY LenProperties, ElementOfSeq
<1>2. PICK f : /\ completionHook(text) = f[Len(keyWords)]
               /\ f[0] = << >>
               /\ \A k \in 1 .. Len(keyWords) :
                    f[k] = IF Offered(text, keyWords[k]) THEN Append(f[k - 1], keyWords[k])
                                                             ELSE f[k - 1]
  BY <1>1, OfferingSteps
<1> DEFINE Good(k) ==
      /\ f[k] \in Seq(Names)
      /\ \A a \in 1 .. Len(f[k]) : \E j \in 1 .. k : keyWords[j] = f[k][a] /\ Offered(text, keyWords[j])
      /\ \A j \in 1 .. k : Offered(text, keyWords[j]) => \E a \in 1 .. Len(f[k]) : f[k][a] = keyWords[j]
      /\ \A a, b \in 1 .. Len(f[k]) : a < b => Before(f[k][a], f[k][b])
           T == {k \in Nat : k <= Len(keyWords) => Good(k)}
<1>3. 0 \in T
  <2>1. << >> \in Seq(Names) /\ Len(<< >>) = 0
    OBVIOUS
  <2>2. Good(0)
    BY <1>2, <2>1
  <2> HIDE DEF Good
  <2>. QED
    BY <2>2
<1>4. ASSUME NEW n \in Nat, n \in T, n + 1 <= Len(keyWords) PROVE Good(n + 1)
  <2>1. Good(n)
    <3> HIDE DEF Good
    <3>. QED
      BY <1>1, <1>4
  <2> HIDE DEF T
  <2> DEFINE s == f[n]
             l == f[n + 1]
             w == keyWords[n + 1]
  <2>2. n + 1 \in 1 .. Len(keyWords) /\ (n + 1) - 1 = n /\ w \in Names
    BY <1>1, <1>4
  <2>3. l = IF Offered(text, w) THEN Append(s, w) ELSE s
    BY <1>2, <2>2
  <2>4. /\ s \in Seq(Names) /\ Len(s) \in Nat
        /\ \A a \in 1 .. Len(s) : \E j \in 1 .. n : keyWords[j] = s[a] /\ Offered(text, keyWords[j])
        /\ \A j \in 1 .. n : Offered(text, keyWords[j]) => \E a \in 1 .. Len(s) : s[a] = keyWords[j]
        /\ \A a, b \in 1 .. Len(s) : a < b => Before(s[a], s[b])
    BY <2>1, LenProperties
  <2>5. \A j \in 1 .. n + 1 : j \in 1 .. n \/ j = n + 1
    OBVIOUS
  <2>6. \A j \in 1 .. n : j \in 1 .. n + 1 /\ j \in 1 .. Len(keyWords) /\ j < n + 1
    BY <1>1, <1>4
  <2>7. n + 1 \in 1 .. n + 1
    OBVIOUS
  <2> HIDE DEF s, w
  <2>8. CASE Offered(text, w)
    <3>1. /\ l \in Seq(Names) /\ Len(l) = Len(s) + 1
          /\ \A a \in 1 .. Len(s) : l[a] = s[a]
          /\ l[Len(s) + 1] = w
      BY <2>2, <2>3, <2>4, <2>8, AppendProperties
    <3>2. /\ \A a \in 1 .. Len(l) : a \in 1 .. Len(s) \/ a = Len(s) + 1
          /\ \A a \in 1 .. Len(s) : a \in 1 .. Len(l)
          /\ Len(s) + 1 \in 1 .. Len(l)
      BY <2>4, <3>1
    <3> HIDE DEF l
    <3>3. ASSUME NEW a \in 1 .. Len(l)
          PROVE  \E j \in 1 .. n + 1 : keyWords[j] = l[a] /\ Offered(text, keyWords[j])
      <4>1. CASE a \in 1 .. Len(s)
        BY <2>4, <2>6, <3>1, <4>1
      <4>2. CASE a = Len(s) + 1
        BY <2>7, <2>8, <3>1, <4>2 DEF w
      <4>. QED
        BY <3>2, <4>1, <4>2
    <3>4. ASSUME NEW j \in 1 .. n + 1, Offered(text, keyWords[j])
          PROVE  \E a \in 1 .. Len(l) : l[a] = keyWords[j]
      <4>1. CASE j \in 1 .. n
        BY <2>4, <3>1, <3>2, <3>4, <4>1
      <4>2. CASE j = n + 1
        BY <3>1, <3>2, <4>2 DEF w
      <4>. QED
        BY <2>5, <4>1, <4>2
    <3>5. ASSUME NEW a \in 1 .. Len(l), NEW b \in 1 .. Len(l), a < b
          PROVE  Before(l[a], l[b])
      <4>1. a \in 1 .. Len(s)
        BY <2>4, <3>1, <3>5
      <4>2. CASE b \in 1 .. Len(s)
        BY <2>4, <3>1, <3>5, <4>1, <4>2
      <4>3. CASE b = Len(s) + 1
        <5>1. PICK j \in 1 .. n : keyWords[j] = s[a]
          BY <2>4, <4>1
        <5>2. Before(keyWords[j], keyWords[n + 1])
          BY <1>1, <2>2, <2>6 DEF InOrder
        <5>. QED
          BY <3>1, <4>1, <4>3, <5>1, <5>2 DEF w
      <4>. QED
        BY <3>2, <4>2, <4>3
    <3>. QED
      BY <3>1, <3>3, <3>4, <3>5 DEF l
  <2>9. CASE ~ Offered(text, w)
    <3>1. l = s
      BY <2>3, <2>9
    <3>2. ASSUME NEW j \in 1 .. n + 1, Offered(text, keyWords[j])
          PROVE  j \in 1 .. n
      BY <2>5, <2>9, <3>2 DEF w
    <3> HIDE DEF l
    <3>. QED
      BY <2>4, <2>6, <3>1, <3>2 DEF l
  <2>. QED
    BY <2>8, <2>9
<1> HIDE DEF Good
<1>5. \A n \in Nat : n \in T => n + 1 \in T
  <2>1. \A n \in Nat : n + 1 \in Nat
    OBVIOUS
  <2>. QED
    BY <1>4, <2>1, Zenon
<1> HIDE DEF T
<1>6. Len(keyWords) \in T
  BY <1>1, <1>3, <1>5, Induction
<1>7. Good(Len(keyWords))
  BY <1>1, <1>6 DEF T
<1> DEFINE o == completionHook(text)
<1>8. Good(Len(keyWords)) /\ o = f[Len(keyWords)]
  BY <1>2, <1>7
<1> HIDE DEF o
<1>9. /\ o \in Seq(Names)
      /\ \A a \in 1 .. Len(o) : \E j \in 1 .. Len(keyWords) : keyWords[j] = o[a] /\ Offered(text, keyWords[j])
      /\ \A j \in 1 .. Len(keyWords) : Offered(text, keyWords[j]) => \E a \in 1 .. Len(o) : o[a] = keyWords[j]
      /\ \A a, b \in 1 .. Len(o) : a < b => Before(o[a], o[b])
  BY <1>8 DEF Good
<1> HIDE DEF Good
<1>10. DOMAIN o = 1 .. Len(o)
  BY <1>9, LenProperties
<1>11. \A w : (\E k \in 1 .. Len(o) : o[k] = w)
               <=> \E j \in 1 .. Len(keyWords) : keyWords[j] = w /\ Offered(text, w)
  <2> TAKE w
  <2>1. ASSUME NEW k \in 1 .. Len(o), o[k] = w
        PROVE  \E j \in 1 .. Len(keyWords) : keyWords[j] = w /\ Offered(text, w)
    <3>1. PICK j \in 1 .. Len(keyWords) : keyWords[j] = o[k] /\ Offered(text, keyWords[j])
      BY <1>9, Zenon
    <3>2. keyWords[j] = w
      BY <2>1, <3>1, Zenon
    <3>. QED
      BY <3>1, <3>2
  <2>2. ASSUME NEW j \in 1 .. Len(keyWords), keyWords[j] = w, Offered(text, w)
        PROVE  \E k \in 1 .. Len(o) : o[k] = w
    <3>1. Offered(text, keyWords[j])
      BY <2>2
    <3>2. PICK k \in 1 .. Len(o) : o[k] = keyWords[j]
      BY <1>9, <3>1, Zenon
    <3>. QED
      BY <2>2, <3>2
  <2>. QED
    BY <2>1, <2>2, Zenon
<1>12. InOrder(o)
  BY <1>9, <1>10 DEF InOrder
<1>. QED
  BY <1>9, <1>11, <1>12 DEF o

-----------------------------------------------------------------------------
(* What is looked for: the text after its last dot.                        *)

LEMMA DotsAt ==
  ASSUME NEW text \in Seq(Letters)
  PROVE  Occurrences(text, <<Dot>>) = {k \in 1 .. Len(text) : text[k] = Dot}
<1>1. Len(text) \in Nat /\ Dot \in Letters /\ Len(<<Dot>>) = 1
  BY LenProperties, LettersAssumption
<1>2. ASSUME NEW k \in 1 .. Len(text)
      PROVE  SubSeq(text, k, k + 1 - 1) = <<Dot>> <=> text[k] = Dot
  <2> DEFINE s == SubSeq(text, k, k)
  <2>1. k + 1 - 1 = k /\ k \in Int
    BY <1>1
  <2>2. s \in Seq(Letters) /\ Len(s) = 1 /\ s[1] = text[k]
    BY <1>1, <2>1
  <2> DEFINE d == <<Dot>>
  <2>3. d \in Seq(Letters) /\ Len(d) = 1 /\ d[1] = Dot
    BY <1>1
  <2> HIDE DEF s, d
  <2>4. s = d <=> text[k] = Dot
    <3>1. \A l \in 1 .. Len(s) : l = 1
      BY <2>2
    <3>. QED
      BY <2>2, <2>3, <3>1, SeqEqual
  <2>. QED
    BY <2>1, <2>4 DEF s, d
<1>3. 1 .. Len(text) - 1 + 1 = 1 .. Len(text)
  BY <1>1
<1>. QED
  BY <1>1, <1>2, <1>3 DEF Occurrences

\* What stands behind position k has no dot, and k is a dot or the beginning.
Begins(text, k) ==
  /\ k \in 0 .. Len(text)
  /\ k > 0 => text[k] = Dot
  /\ \A l \in k + 1 .. Len(text) : text[l] # Dot

LEMMA OneBeginning ==
  ASSUME NEW text, Len(text) \in Nat, NEW j, NEW k, Begins(text, j), Begins(text, k)
  PROVE  j = k
<1>1. j \in Nat /\ k \in Nat /\ j <= Len(text) /\ k <= Len(text)
  BY DEF Begins
<1>2. ~ (j < k)
  <2>1. j < k => k \in j + 1 .. Len(text) /\ k > 0
    BY <1>1
  <2>. QED
    BY <2>1 DEF Begins
<1>3. ~ (k < j)
  <2>1. k < j => j \in k + 1 .. Len(text) /\ j > 0
    BY <1>1
  <2>. QED
    BY <2>1 DEF Begins
<1>. QED
  BY <1>1, <1>2, <1>3

LEMMA CurrentInput ==
  ASSUME NEW text \in Seq(Letters)
  PROVE  \E k : Begins(text, k) /\ currentInput(text) = SubSeq(text, k + 1, Len(text))
<1> DEFINE at == {k \in 1 .. Len(text) : text[k] = Dot}
<1>1. Len(text) \in Nat
  BY LenProperties
<1>2. currentInput(text) =
        IF at # {} THEN SubSeq(text, Max(at) + 1, Len(text)) ELSE text
  BY DotsAt DEF currentInput, contains
<1>3. CASE at # {}
  <2>1. Max(at) = Max(at)
    BY DEF Max, Max
  <2>2. at \subseteq Nat /\ \A x \in at : x <= Len(text)
    BY <1>1
  <2>3. Max(at) \in at /\ \A x \in at : x <= Max(at)
    <3> HIDE DEF at
    <3>. QED
      BY <1>1, <1>3, <2>2, MaxOfBounded
  <2> DEFINE k == Max(at)
  <2>4. k \in 1 .. Len(text) /\ text[k] = Dot
    BY <2>3
  <2>5. ASSUME NEW l \in k + 1 .. Len(text) PROVE text[l] # Dot
    <3>1. l \in 1 .. Len(text) /\ ~ (l <= k)
      BY <1>1, <2>4
    <3>2. l \notin at
      BY <2>3, <3>1
    <3>. QED
      BY <3>1, <3>2
  <2> HIDE DEF at, k
  <2>6. Begins(text, k)
    BY <1>1, <2>4, <2>5 DEF Begins
  <2>. QED
    BY <1>2, <1>3, <2>1, <2>6 DEF k
<1>4. CASE at = {}
  <2>1. \A l \in 1 .. Len(text) : text[l] # Dot
    BY <1>4
  <2>2. Begins(text, 0)
    BY <1>1, <2>1 DEF Begins
  <2>3. SubSeq(text, 0 + 1, Len(text)) = text
    BY SubSeqFull
  <2>. QED
    BY <1>2, <1>4, <2>2, <2>3
<1>. QED
  BY <1>3, <1>4

\* std::string's find() gives the position 0 for the texts that begin so.
LEMMA FoundFirst ==
  ASSUME NEW func \in Seq(STRING), NEW start \in Seq(Letters),
         NEW at, at = Occurrences(func, start)
  PROVE  (at # {} /\ Min(at) = 1) <=> IsPrefix(start, func)
<1>1. Len(func) \in Nat /\ Len(start) \in Nat
  BY LenProperties
<1>2. \A x \in at : x \in Nat /\ 1 <= x
  BY <1>1 DEF Occurrences
<1>3. (at # {} /\ Min(at) = 1) <=> 1 \in at
  <2>1. ASSUME 1 \in at PROVE Min(at) = 1
    BY <1>2, <2>1 DEF Min
  <2>2. ASSUME at # {}, Min(at) = 1 PROVE 1 \in at
    <3>1. at \subseteq Nat
      BY <1>2
    <3>2. \E x \in at : \A y \in at : x <= y
      BY <2>2, <3>1, LeastNumber
    <3>3. Min(at) \in at
      BY <3>2 DEF Min
    <3>. QED
      BY <2>2, <3>3
  <2>. QED
    BY <2>1, <2>2
<1>4. 1 \in at <=> 1 <= Len(func) - Len(start) + 1 /\ SubSeq(func, 1, Len(start)) = start
  <2>1. 1 + Len(start) - 1 = Len(start)
    BY <1>1
  <2>2. 1 \in 1 .. Len(func) - Len(start) + 1 <=> 1 <= Len(func) - Len(start) + 1
    BY <1>1
  <2>. QED
    BY <2>1, <2>2 DEF Occurrences
<1>5. SubSeq(start, 1, Len(start)) = start
  BY SubSeqFull
<1>6. 1 <= Len(func) - Len(start) + 1 <=> Len(start) <= Len(func)
  BY <1>1
<1>. QED
  BY <1>3, <1>4, <1>5, <1>6 DEF IsPrefix

LEMMA OfferedBegun ==
  ASSUME NEW text \in Seq(Letters), NEW w \in Names
  PROVE  Offered(text, w) <=>
           \E k \in 0 .. Len(text) :
             /\ k > 0 => text[k] = Dot
             /\ \A l \in k + 1 .. Len(text) : text[l] # Dot
             /\ IsPrefix(SubSeq(text, k + 1, Len(text)), w)
<1>1. Len(text) \in Nat /\ w \in Seq(STRING)
  BY LenProperties, LettersAssumption
<1>2. PICK k : Begins(text, k) /\ currentInput(text) = SubSeq(text, k + 1, Len(text))
  BY CurrentInput
<1> DEFINE start == SubSeq(text, k + 1, Len(text))
<1>3. start \in Seq(Letters)
  <2>1. k + 1 \in Int /\ \A l \in k + 1 .. Len(text) : l \in 1 .. Len(text)
    BY <1>1, <1>2 DEF Begins
  <2>2. \A l \in k + 1 .. Len(text) : text[l] \in Letters
    BY <2>1, ElementOfSeq
  <2>. QED
    BY <1>1, <2>1, <2>2, SubSeqProperties
<1>4. Offered(text, w) <=> IsPrefix(start, w)
  <2> HIDE DEF start
  <2>1. currentInput(text) = start
    BY <1>2 DEF start
  <2> DEFINE at == Occurrences(w, start)
  <2>2. Offered(text, w) <=> at # {} /\ Min(at) = 1
    BY <2>1 DEF Offered
  <2> HIDE DEF at
  <2>3. at = Occurrences(w, start)
    BY DEF at
  <2>4. (at # {} /\ Min(at) = 1) <=> IsPrefix(start, w)
    BY <1>1, <1>3, <2>3, FoundFirst
  <2>. QED
    BY <2>2, <2>4
<1>5. \A j : Begins(text, j) <=> j = k
  BY <1>1, <1>2, OneBeginning
<1>6. \A j \in 0 .. Len(text) :
        Begins(text, j) <=> /\ j > 0 => text[j] = Dot
                            /\ \A l \in j + 1 .. Len(text) : text[l] # Dot
  BY DEF Begins
<1>7. k \in 0 .. Len(text)
  BY <1>2 DEF Begins
<1> HIDE DEF start
<1>8. start = SubSeq(text, k + 1, Len(text))
  BY DEF start
<1>. QED
  BY <1>4, <1>5, <1>6, <1>7, <1>8, Zenon

-----------------------------------------------------------------------------
TabInvariant ==
  /\ CompletionTypeOK
  /\ InOrder(keyWords)
  /\ OffersWhatHasBegun

LEMMA TabInit == ASSUME CompletionInit PROVE TabInvariant
<1>1. /\ << >> \in Seq(Names) /\ << >> \in Seq(Letters)
      /\ DOMAIN << >> = {}
  OBVIOUS
<1>2. InOrder(<< >>)
  BY <1>1 DEF InOrder
<1>. QED
  BY <1>1, <1>2 DEF CompletionInit, TabInvariant, CompletionTypeOK, OffersWhatHasBegun

LEMMA TabStep ==
  ASSUME TabInvariant, [CompletionNext]_completionVars
  PROVE  TabInvariant'
<1>1. /\ keyWords \in Seq(Names) /\ InOrder(keyWords) /\ input \in Seq(Letters)
      /\ offers \in Seq(Names) /\ key \in {"none", "tab", "other"}
      /\ << >> \in Seq(Names)
  BY DEF TabInvariant, CompletionTypeOK
<1>2. ASSUME NEW text \in Seq(Letters), Edit(text) PROVE TabInvariant'
  BY <1>1, <1>2 DEF Edit, TabInvariant, CompletionTypeOK, OffersWhatHasBegun
<1>3. ASSUME NEW defs \in SUBSET Names, AskKeyWords(defs) PROVE TabInvariant'
  <2>1. keyWords' \in Seq(Names) /\ InOrder(keyWords)'
    BY <1>3, KeyWordsInOrder DEF AskKeyWords
  <2>. QED
    BY <1>1, <1>3, <2>1 DEF AskKeyWords, TabInvariant, CompletionTypeOK, OffersWhatHasBegun
<1>4. ASSUME NEW c \in Letters, Type(c) PROVE TabInvariant'
  <2>1. Append(input, c) \in Seq(Letters) /\ Edit(Append(input, c))
    BY <1>1, <1>4, AppendProperties DEF Type
  <2>. QED
    BY <1>2, <2>1
<1>5. ASSUME Erase PROVE TabInvariant'
  <2>1. Len(input) - 1 \in Int /\ \A k \in 1 .. Len(input) - 1 : k \in 1 .. Len(input)
    BY <1>1, LenProperties
  <2>2. \A k \in 1 .. Len(input) - 1 : input[k] \in Letters
    BY <1>1, <2>1, ElementOfSeq
  <2>3. Front(input) \in Seq(Letters)
    BY <2>1, <2>2, SubSeqProperties DEF Front
  <2>. QED
    BY <1>2, <1>5, <2>3 DEF Erase
<1>6. ASSUME PressTab PROVE TabInvariant'
  <2> DEFINE o == completionHook(input)
  <2>1. /\ o \in Seq(Names)
        /\ \A w : (\E k \in 1 .. Len(o) : o[k] = w)
                    <=> \E j \in 1 .. Len(keyWords) : keyWords[j] = w /\ Offered(input, w)
        /\ InOrder(o)
    BY <1>1, LoopOffers
  <2>2. /\ offers' = o /\ key' = "tab" /\ keyWords' = keyWords /\ input' = input
    BY <1>6 DEF PressTab
  <2> HIDE DEF o
  <2>3. \A w \in Names :
          Contains(o, w) <=>
            /\ Contains(keyWords, w)
            /\ \E k \in 0 .. Len(input) :
                 /\ k > 0 => input[k] = Dot
                 /\ \A l \in k + 1 .. Len(input) : input[l] # Dot
                 /\ IsPrefix(SubSeq(input, k + 1, Len(input)), w)
    <3> TAKE w \in Names
    <3>1. Contains(o, w) <=> Contains(keyWords, w) /\ Offered(input, w)
      BY <2>1 DEF Contains
    <3>. QED
      BY <1>1, <3>1, OfferedBegun
  <2>4. OffersWhatHasBegun'
    BY <2>1, <2>2, <2>3 DEF OffersWhatHasBegun
  <2>. QED
    BY <1>1, <2>1, <2>2, <2>4 DEF TabInvariant, CompletionTypeOK
<1>7. ASSUME UNCHANGED completionVars PROVE TabInvariant'
  BY <1>7 DEF completionVars, TabInvariant, CompletionTypeOK, OffersWhatHasBegun
<1>. QED
  BY <1>3, <1>4, <1>5, <1>6, <1>7 DEF CompletionNext

\* Whatever names there are, in whatever order, and whatever is typed: the key
\* words and the offers are names.
THEOREM OffersAreNames == CompletionSpec => []CompletionTypeOK
<1>1. TabInvariant => CompletionTypeOK
  BY DEF TabInvariant
<1>. QED
  BY <1>1, TabInit, TabStep, PTL DEF CompletionSpec

\* TAB offers the key words that have begun after the last dot, all of them, no
\* other, in their order.
THEOREM OffersAreBegun == CompletionSpec => []OffersWhatHasBegun
<1>1. TabInvariant => OffersWhatHasBegun
  BY DEF TabInvariant
<1>. QED
  BY <1>1, TabInit, TabStep, PTL DEF CompletionSpec

=============================================================================
