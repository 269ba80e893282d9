---------------------------- MODULE VersionsProofs ----------------------------
(***************************************************************************)
(* What holds of the two versions of a program, for any versions.  About   *)
(* Mapping: the similarity of paths is what it should be, and the map      *)
(* holds for each new path the most similar old one.  About Workspace: the *)
(* files that are made from the sources are those of the current versions, *)
(* if they lie in the working directory.                                   *)
(***************************************************************************)
EXTENDS Mapping, Workspace, FiniteSetTheorems, TLAPS

-----------------------------------------------------------------------------
(* Induction over the naturals, from the well-foundedness of finite sets.  *)

\* A set of naturals that is not empty has a least element.
LEMMA LeastElement ==
    ASSUME NEW T \in SUBSET Nat, T # {}
    PROVE  \E m \in T : \A k \in T : m <= k
<1> DEFINE F == {0 .. t - 1 : t \in T}
<1>1. \A t \in T : 0 .. t - 1 \in FiniteSubsetsOf(Nat)
  BY FS_Interval, 0 \in Int, \A t \in T : t - 1 \in Int DEF FiniteSubsetsOf
<1>2. F \subseteq FiniteSubsetsOf(Nat) /\ F # {}
  BY <1>1
<1>3. PICK x \in F : \A y \in F : <<y, x>> \notin StrictSubsetOrdering(Nat)
  <2> HIDE DEF F
  <2> QED  BY <1>2, FS_StrictSubsetOrderingWellFounded, WFMin
<1>4. PICK m \in T : x = 0 .. m - 1
  BY DEF F
<1>5. ASSUME NEW k \in T  PROVE m <= k
  <2> SUFFICES ASSUME k < m  PROVE FALSE
    OBVIOUS
  <2>1. 0 .. k - 1 \subseteq 0 .. m - 1 /\ 0 .. k - 1 # 0 .. m - 1
    <3>1. k \in 0 .. m - 1 /\ k \notin 0 .. k - 1
      OBVIOUS
    <3> QED  BY <3>1
  <2>2. <<0 .. k - 1, 0 .. m - 1>> \in StrictSubsetOrdering(Nat)
    BY <2>1 DEF StrictSubsetOrdering
  <2> QED  BY <1>3, <1>4, <2>2 DEF F
<1> QED  BY <1>5

\* What holds at 0, and at k + 1 if at k, holds everywhere.
LEMMA SetInduction ==
    ASSUME NEW S, 0 \in S, \A k \in Nat : k \in S => k + 1 \in S
    PROVE  \A k \in Nat : k \in S
<1> DEFINE T == {k \in Nat : k \notin S}
<1> SUFFICES ASSUME T # {}  PROVE FALSE
  OBVIOUS
<1>1. PICK m \in T : \A k \in T : m <= k
  <2>1. T \in SUBSET Nat
    OBVIOUS
  <2> HIDE DEF T
  <2> QED  BY <2>1, LeastElement
<1>2. m # 0 /\ m \in Nat
  OBVIOUS
<1>3. m - 1 \in Nat /\ ~ (m <= m - 1) /\ (m - 1) + 1 = m
  BY <1>2
<1>4. m - 1 \in S
  BY <1>1, <1>3
<1> QED  BY <1>1, <1>2, <1>3, <1>4

-----------------------------------------------------------------------------
(* The tables of opsDistance and pathDistance: leaving an element alone    *)
(* costs u, pairing the i-th with the j-th costs c[<<i, j>>].              *)

Cells(a, b) == (0 .. a) \X (0 .. b)
Costs(a, b, u) == [(1 .. a) \X (1 .. b) -> 0 .. u]

Cell(f, u, c, x) ==
    IF x[1] = 0 THEN x[2] * u
    ELSE IF x[2] = 0 THEN x[1] * u
    ELSE IF c[x] = 0 THEN f[<<x[1] - 1, x[2] - 1>>]
    ELSE cheapest(f[<<x[1] - 1, x[2]>>] + u, f[<<x[1], x[2] - 1>>] + u,
                  f[<<x[1] - 1, x[2] - 1>>] + c[x])

IsTable(f, a, b, u, c) == f = [x \in Cells(a, b) |-> Cell(f, u, c, x)]

\* cheapest is the least of the three costs it is given (std::min of the code).
LEMMA Cheapest ==
    ASSUME NEW x \in Int, NEW y \in Int, NEW z \in Int
    PROVE  /\ cheapest(x, y, z) \in {x, y, z}
           /\ cheapest(x, y, z) <= x /\ cheapest(x, y, z) <= y /\ cheapest(x, y, z) <= z
<1> DEFINE Least(e) == e \in {x, y, z} /\ \A v \in {x, y, z} : e <= v
<1>1. \E e : Least(e)
  OBVIOUS
<1>2. cheapest(x, y, z) = CHOOSE e : Least(e)
  BY DEF cheapest, Min
<1> HIDE DEF Least
<1>3. Least(cheapest(x, y, z))
  BY <1>1, <1>2
<1> QED  BY <1>3 DEF Least

\* A cell rests on cells before it only.
LEMMA CellLocal ==
    ASSUME NEW a \in Nat, NEW b \in Nat, NEW u, NEW c, NEW f, NEW g, NEW x \in Cells(a, b),
           \A y \in Cells(a, b) : y[1] + y[2] < x[1] + x[2] => f[y] = g[y]
    PROVE  Cell(f, u, c, x) = Cell(g, u, c, x)
<1>1. CASE x[1] = 0 \/ x[2] = 0
  BY <1>1 DEF Cell
<1>2. CASE x[1] # 0 /\ x[2] # 0
  <2> DEFINE up == <<x[1] - 1, x[2]>>
             left == <<x[1], x[2] - 1>>
             diag == <<x[1] - 1, x[2] - 1>>
  <2>1. /\ x[1] \in 1 .. a /\ x[2] \in 1 .. b
    BY <1>2 DEF Cells
  <2>2. up \in Cells(a, b) /\ left \in Cells(a, b) /\ diag \in Cells(a, b)
    BY <2>1 DEF Cells
  <2>3. f[up] = g[up] /\ f[left] = g[left] /\ f[diag] = g[diag]
    BY <2>1, <2>2
  <2> QED  BY <2>3 DEF Cell
<1> QED  BY <1>1, <1>2

\* The recursion of the tables has a solution, whatever the costs.
LEMMA TableExists ==
    ASSUME NEW a \in Nat, NEW b \in Nat, NEW u, NEW c
    PROVE  \E f : IsTable(f, a, b, u, c)
<1> DEFINE Upto(f, k) == f = [x \in Cells(a, b) |-> IF x[1] + x[2] < k THEN Cell(f, u, c, x) ELSE 0]
           S == {k \in Nat : \E f : Upto(f, k)}
<1>1. 0 \in S
  <2>1. Upto([x \in Cells(a, b) |-> 0], 0)
    BY DEF Cells
  <2> QED  BY <2>1
<1>2. ASSUME NEW k \in Nat, k \in S PROVE k + 1 \in S
  <2>1. PICK f : Upto(f, k)
    BY <1>2
  <2> DEFINE g == [x \in Cells(a, b) |-> IF x[1] + x[2] < k + 1 THEN Cell(f, u, c, x) ELSE 0]
  <2>2. \A x \in Cells(a, b) : x[1] + x[2] < k => g[x] = f[x]
    BY <2>1 DEF Cells
  <2>3. ASSUME NEW x \in Cells(a, b), x[1] + x[2] < k + 1 PROVE Cell(g, u, c, x) = Cell(f, u, c, x)
    <3>1. \A y \in Cells(a, b) : y[1] + y[2] < x[1] + x[2] => g[y] = f[y]
      BY <2>2, <2>3 DEF Cells
    <3> HIDE DEF g
    <3> QED  BY <3>1, CellLocal
  <2>4. g = [x \in Cells(a, b) |-> IF x[1] + x[2] < k + 1 THEN Cell(g, u, c, x) ELSE 0]
    <3> DEFINE h == [x \in Cells(a, b) |-> IF x[1] + x[2] < k + 1 THEN Cell(g, u, c, x) ELSE 0]
    <3>1. \A x \in Cells(a, b) : g[x] = h[x]
      BY <2>3
    <3> QED  BY <3>1
  <2> HIDE DEF g
  <2>5. Upto(g, k + 1)
    BY <2>4
  <2> QED  BY <2>5
<1>3. \A k \in Nat : k \in S
  <2> HIDE DEF S
  <2> QED  BY <1>1, <1>2, SetInduction
<1>4. PICK f : Upto(f, a + b + 1)
  BY <1>3
<1>5. \A x \in Cells(a, b) : x[1] + x[2] < a + b + 1
  BY DEF Cells
<1> QED  BY <1>4, <1>5 DEF IsTable

\* The cells of a table, seen from its rows and columns.
LEMMA CellAt ==
    ASSUME NEW a \in Nat, NEW b \in Nat, NEW u \in Nat, NEW c, NEW f, IsTable(f, a, b, u, c)
    PROVE  /\ \A i \in 0 .. a : f[<<i, 0>>] = i * u
           /\ \A j \in 0 .. b : f[<<0, j>>] = j * u
           /\ \A i \in 1 .. a, j \in 1 .. b :
                 f[<<i, j>>] = IF c[<<i, j>>] = 0 THEN f[<<i - 1, j - 1>>]
                               ELSE cheapest(f[<<i - 1, j>>] + u, f[<<i, j - 1>>] + u,
                                             f[<<i - 1, j - 1>>] + c[<<i, j>>])
<1>1. \A i \in 0 .. a, j \in 0 .. b : <<i, j>> \in Cells(a, b)
  BY DEF Cells
<1>2. \A x \in Cells(a, b) : f[x] = Cell(f, u, c, x)
  BY DEF IsTable
<1>3. \A i \in 0 .. a, j \in 0 .. b : f[<<i, j>>] = Cell(f, u, c, <<i, j>>)
  BY <1>1, <1>2
<1>4. \A i, j : <<i, j>>[1] = i /\ <<i, j>>[2] = j
  OBVIOUS
<1>5. ASSUME NEW i \in 0 .. a PROVE f[<<i, 0>>] = i * u
  <2>1. f[<<i, 0>>] = Cell(f, u, c, <<i, 0>>)
    BY <1>3
  <2>2. Cell(f, u, c, <<i, 0>>) = IF i = 0 THEN 0 * u ELSE i * u
    BY <1>4 DEF Cell
  <2> QED  BY <2>1, <2>2
<1>6. ASSUME NEW j \in 0 .. b PROVE f[<<0, j>>] = j * u
  <2>1. f[<<0, j>>] = Cell(f, u, c, <<0, j>>)
    BY <1>3
  <2>2. Cell(f, u, c, <<0, j>>) = j * u
    BY <1>4 DEF Cell
  <2> QED  BY <2>1, <2>2
<1>7. ASSUME NEW i \in 1 .. a, NEW j \in 1 .. b
      PROVE  f[<<i, j>>] = IF c[<<i, j>>] = 0 THEN f[<<i - 1, j - 1>>]
                           ELSE cheapest(f[<<i - 1, j>>] + u, f[<<i, j - 1>>] + u,
                                         f[<<i - 1, j - 1>>] + c[<<i, j>>])
  <2>1. i \in 0 .. a /\ j \in 0 .. b /\ i # 0 /\ j # 0
    OBVIOUS
  <2> QED  BY <1>3, <1>4, <2>1 DEF Cell
<1> QED  BY <1>5, <1>6, <1>7

\* A cell is proved from those before it: below and left of it.
LEMMA CellInduction ==
    ASSUME NEW a \in Nat, NEW b \in Nat, NEW S,
           \A i \in 0 .. a, j \in 0 .. b :
              (\A k \in 0 .. a, l \in 0 .. b : k + l < i + j => <<k, l>> \in S) => <<i, j>> \in S
    PROVE  \A i \in 0 .. a, j \in 0 .. b : <<i, j>> \in S
<1> DEFINE R == {k \in Nat : \A i \in 0 .. a, j \in 0 .. b : i + j < k => <<i, j>> \in S}
<1>1. 0 \in R
  OBVIOUS
<1>2. ASSUME NEW k \in Nat, k \in R PROVE k + 1 \in R
  <2> SUFFICES ASSUME NEW i \in 0 .. a, NEW j \in 0 .. b, i + j < k + 1 PROVE <<i, j>> \in S
    OBVIOUS
  <2>1. ASSUME NEW p \in 0 .. a, NEW q \in 0 .. b, p + q < i + j PROVE <<p, q>> \in S
    <3>1. p + q < k
      BY <2>1
    <3> QED  BY <1>2, <3>1
  <2> QED  BY <2>1
<1>3. \A k \in Nat : k \in R
  <2> HIDE DEF R
  <2> QED  BY <1>1, <1>2, SetInduction
<1>4. a + b + 1 \in R
  <2>1. a + b + 1 \in Nat
    OBVIOUS
  <2> HIDE DEF R
  <2> QED  BY <1>3, <2>1
<1>5. ASSUME NEW i \in 0 .. a, NEW j \in 0 .. b PROVE <<i, j>> \in S
  <2>1. i + j < a + b + 1
    OBVIOUS
  <2> QED  BY <1>4, <2>1
<1> QED  BY <1>5

\* The cells are naturals, and no pairing of all is dearer than the longer side.
LEMMA TableBounds ==
    ASSUME NEW a \in Nat, NEW b \in Nat, NEW u \in Nat, NEW c \in Costs(a, b, u),
           NEW f, IsTable(f, a, b, u, c)
    PROVE  \A i \in 0 .. a, j \in 0 .. b :
               /\ f[<<i, j>>] \in Nat
               /\ i <= j => f[<<i, j>>] <= j * u
               /\ j <= i => f[<<i, j>>] <= i * u
<1> DEFINE Good(i, j) == /\ f[<<i, j>>] \in Nat
                         /\ i <= j => f[<<i, j>>] <= j * u
                         /\ j <= i => f[<<i, j>>] <= i * u
           S == {x \in Cells(a, b) : Good(x[1], x[2])}
<1>1. \A i \in 0 .. a, j \in 0 .. b : <<i, j>> \in S <=> Good(i, j)
  BY DEF Cells
<1>2. ASSUME NEW i \in 0 .. a, NEW j \in 0 .. b,
             \A k \in 0 .. a, l \in 0 .. b : k + l < i + j => Good(k, l)
      PROVE  Good(i, j)
  <2>1. CASE i = 0 \/ j = 0
    <3>1. i = 0 => f[<<i, j>>] = j * u
      BY CellAt
    <3>2. j = 0 => f[<<i, j>>] = i * u
      BY CellAt
    <3>3. i * u \in Nat /\ j * u \in Nat /\ (i = 0 => i * u <= j * u) /\ (j = 0 => j * u <= i * u)
      OBVIOUS
    <3> QED  BY <2>1, <3>1, <3>2, <3>3
  <2>2. CASE i # 0 /\ j # 0
    <3>1. i \in 1 .. a /\ j \in 1 .. b /\ i - 1 \in 0 .. a /\ j - 1 \in 0 .. b
      BY <2>2
    <3>2. Good(i - 1, j) /\ Good(i, j - 1) /\ Good(i - 1, j - 1)
      BY <1>2, <3>1
    <3>3. c[<<i, j>>] \in 0 .. u
      BY <3>1 DEF Costs
    <3> DEFINE up == f[<<i - 1, j>>]
               left == f[<<i, j - 1>>]
               diag == f[<<i - 1, j - 1>>]
               v == c[<<i, j>>]
    <3>4. f[<<i, j>>] = IF v = 0 THEN diag ELSE cheapest(up + u, left + u, diag + v)
      BY <3>1, CellAt
    <3>5. up \in Nat /\ left \in Nat /\ diag \in Nat
      BY <3>2
    <3>6. (i <= j => diag <= (j - 1) * u) /\ (j <= i => diag <= (i - 1) * u)
      BY <3>1, <3>2
    <3>7. (j - 1) * u + u = j * u /\ (i - 1) * u + u = i * u
      BY <3>1
    <3>8. (j - 1) * u \in Nat /\ (i - 1) * u \in Nat /\ j * u \in Nat /\ i * u \in Nat
      BY <3>1
    <3> HIDE DEF up, left, diag, v
    <3>9. f[<<i, j>>] \in Nat /\ f[<<i, j>>] <= diag + u
      <4>1. v \in 0 .. u
        BY <3>3 DEF v
      <4>2. up + u \in Nat /\ left + u \in Nat /\ diag + v \in Nat /\ diag + v <= diag + u
        BY <3>5, <4>1
      <4>3. /\ cheapest(up + u, left + u, diag + v) \in {up + u, left + u, diag + v}
            /\ cheapest(up + u, left + u, diag + v) <= diag + v
        BY <4>2, Cheapest
      <4> QED  BY <3>4, <3>5, <4>1, <4>2, <4>3
    <3>10. (i <= j => f[<<i, j>>] <= j * u) /\ (j <= i => f[<<i, j>>] <= i * u)
      BY <3>5, <3>6, <3>7, <3>8, <3>9
    <3> QED  BY <3>9, <3>10
  <2> QED  BY <2>1, <2>2
<1>3. \A i \in 0 .. a, j \in 0 .. b : <<i, j>> \in S
  <2> HIDE DEF Good, S
  <2> QED  BY <1>1, <1>2, CellInduction
<1> QED  BY <1>1, <1>3

\* Nothing to pay: every element is paired with the one at its place, for free.
LEMMA TableZero ==
    ASSUME NEW a \in Nat, NEW b \in Nat, NEW u \in Nat, u # 0, NEW c \in Costs(a, b, u),
           NEW f, IsTable(f, a, b, u, c)
    PROVE  \A i \in 0 .. a, j \in 0 .. b :
               f[<<i, j>>] = 0 <=> i = j /\ \A k \in 1 .. i : c[<<k, k>>] = 0
<1>0. ASSUME NEW k \in 1 .. a, NEW l \in 1 .. b
      PROVE  f[<<k, l>>] = IF c[<<k, l>>] = 0 THEN f[<<k - 1, l - 1>>]
                           ELSE cheapest(f[<<k - 1, l>>] + u, f[<<k, l - 1>>] + u,
                                         f[<<k - 1, l - 1>>] + c[<<k, l>>])
  BY CellAt
<1> DEFINE Free(i, j) == i = j /\ \A k \in 1 .. i : c[<<k, k>>] = 0
           Good(i, j) == f[<<i, j>>] = 0 <=> Free(i, j)
           S == {x \in Cells(a, b) : Good(x[1], x[2])}
<1>1. \A i \in 0 .. a, j \in 0 .. b : <<i, j>> \in S <=> Good(i, j)
  BY DEF Cells
<1>2. ASSUME NEW i \in 0 .. a, NEW j \in 0 .. b,
             \A k \in 0 .. a, l \in 0 .. b : k + l < i + j => Good(k, l)
      PROVE  Good(i, j)
  <2>1. CASE i = 0 \/ j = 0
    <3>1. (i = 0 => f[<<i, j>>] = j * u) /\ (j = 0 => f[<<i, j>>] = i * u)
      BY CellAt
    <3>2. (i = 0 => (j * u = 0 <=> j = 0)) /\ (j = 0 => (i * u = 0 <=> i = 0))
      BY u >= 1
    <3> QED  BY <2>1, <3>1, <3>2
  <2>2. CASE i # 0 /\ j # 0
    <3>1. i \in 1 .. a /\ j \in 1 .. b /\ i - 1 \in 0 .. a /\ j - 1 \in 0 .. b
          /\ i - 1 + (j - 1) < i + j
      BY <2>2
    <3> DEFINE up == f[<<i - 1, j>>]
               left == f[<<i, j - 1>>]
               diag == f[<<i - 1, j - 1>>]
               v == c[<<i, j>>]
    <3>2. v \in 0 .. u /\ up \in Nat /\ left \in Nat /\ diag \in Nat
      BY <3>1, TableBounds DEF Costs
    <3>3. f[<<i, j>>] = IF v = 0 THEN diag ELSE cheapest(up + u, left + u, diag + v)
      BY <1>0, <3>1
    <3>4. diag = 0 <=> Free(i - 1, j - 1)
      BY <1>2, <3>1
    <3>5. v = 0 => (Free(i - 1, j - 1) <=> Free(i, j))
      <4>1. 1 .. i = (1 .. i - 1) \cup {i}
        BY <3>1
      <4> QED  BY <3>1, <4>1
    <3>6. Free(i, j) => v = 0
      BY <3>1
    <3>7. v # 0 => f[<<i, j>>] # 0
      <4> HIDE DEF up, left, diag, v
      <4>1. up + u \in Nat \ {0} /\ left + u \in Nat \ {0} /\ (v # 0 => diag + v \in Nat \ {0})
        BY <3>2
      <4>2. v # 0 => cheapest(up + u, left + u, diag + v) \in {up + u, left + u, diag + v}
        BY <4>1, Cheapest
      <4> QED  BY <3>3, <4>1, <4>2
    <3> HIDE DEF Free, up, left, diag, v
    <3> QED  BY <3>3, <3>4, <3>5, <3>6, <3>7
  <2> QED  BY <2>1, <2>2
<1>3. \A i \in 0 .. a, j \in 0 .. b : <<i, j>> \in S
  <2> HIDE DEF Good, S
  <2> QED  BY <1>1, <1>2, CellInduction
<1>4. \A i \in 0 .. a, j \in 0 .. b : Good(i, j)
  <2> HIDE DEF Good, S
  <2> QED  BY <1>1, <1>3
<1> QED  BY <1>4

\* Cells side by side differ by u at most.
LEMMA TableSmooth ==
    ASSUME NEW a \in Nat, NEW b \in Nat, NEW u \in Nat, NEW c \in Costs(a, b, u),
           NEW f, IsTable(f, a, b, u, c)
    PROVE  \A i \in 0 .. a, j \in 0 .. b :
               /\ i # 0 => f[<<i, j>>] <= f[<<i - 1, j>>] + u /\ f[<<i - 1, j>>] <= f[<<i, j>>] + u
               /\ j # 0 => f[<<i, j>>] <= f[<<i, j - 1>>] + u /\ f[<<i, j - 1>>] <= f[<<i, j>>] + u
<1> DEFINE Near(x, y) == x <= y + u /\ y <= x + u
           Good(i, j) == /\ i # 0 => Near(f[<<i, j>>], f[<<i - 1, j>>])
                         /\ j # 0 => Near(f[<<i, j>>], f[<<i, j - 1>>])
           S == {x \in Cells(a, b) : Good(x[1], x[2])}
<1>1. \A i \in 0 .. a, j \in 0 .. b : <<i, j>> \in S <=> Good(i, j)
  BY DEF Cells
<1>2. ASSUME NEW i \in 0 .. a, NEW j \in 0 .. b,
             \A k \in 0 .. a, l \in 0 .. b : k + l < i + j => Good(k, l)
      PROVE  Good(i, j)
  <2>1. CASE i = 0
    <3> SUFFICES ASSUME j # 0 PROVE Near(f[<<0, j>>], f[<<0, j - 1>>])
      BY <2>1
    <3>1. f[<<0, j>>] = j * u /\ f[<<0, j - 1>>] = (j - 1) * u
      BY CellAt, j - 1 \in 0 .. b
    <3>2. (j - 1) * u + u = j * u /\ (j - 1) * u \in Nat
      OBVIOUS
    <3> QED  BY <3>1, <3>2
  <2>2. CASE j = 0
    <3> SUFFICES ASSUME i # 0 PROVE Near(f[<<i, 0>>], f[<<i - 1, 0>>])
      BY <2>2
    <3>1. f[<<i, 0>>] = i * u /\ f[<<i - 1, 0>>] = (i - 1) * u
      BY CellAt, i - 1 \in 0 .. a
    <3>2. (i - 1) * u + u = i * u /\ (i - 1) * u \in Nat
      OBVIOUS
    <3> QED  BY <3>1, <3>2
  <2>3. CASE i # 0 /\ j # 0
    <3>1. i \in 1 .. a /\ j \in 1 .. b /\ i - 1 \in 0 .. a /\ j - 1 \in 0 .. b
          /\ i - 1 + j < i + j /\ i + (j - 1) < i + j
      BY <2>3
    <3> DEFINE up == f[<<i - 1, j>>]
               left == f[<<i, j - 1>>]
               diag == f[<<i - 1, j - 1>>]
               v == c[<<i, j>>]
               here == f[<<i, j>>]
    <3>2. v \in 0 .. u /\ up \in Nat /\ left \in Nat /\ diag \in Nat
      BY <3>1, TableBounds DEF Costs
    <3>3. here = IF v = 0 THEN diag ELSE cheapest(up + u, left + u, diag + v)
      BY <3>1, CellAt
    <3>4. Near(up, diag) /\ Near(left, diag)
      <4>1. Good(i - 1, j) /\ Good(i, j - 1)
        BY <1>2, <3>1
      <4> QED  BY <2>3, <4>1
    <3> SUFFICES Near(here, up) /\ Near(here, left)
      OBVIOUS
    <3> HIDE DEF up, left, diag, v, here
    <3>5. up + u \in Nat /\ left + u \in Nat /\ diag + v \in Nat
      BY <3>2
    <3>6. /\ cheapest(up + u, left + u, diag + v) \in {up + u, left + u, diag + v}
          /\ cheapest(up + u, left + u, diag + v) <= up + u
          /\ cheapest(up + u, left + u, diag + v) <= left + u
      BY <3>5, Cheapest
    <3> QED  BY <3>2, <3>3, <3>4, <3>6
  <2> QED  BY <2>1, <2>2, <2>3
<1>3. \A i \in 0 .. a, j \in 0 .. b : <<i, j>> \in S
  <2> HIDE DEF Good, S
  <2> QED  BY <1>1, <1>2, CellInduction
<1> QED  BY <1>1, <1>3

-----------------------------------------------------------------------------
(* The distance of two lists of operations.                                *)

\* The longer length, which a distance is divided by, bounds both.
LEMMA LongerType ==
    ASSUME NEW s, NEW t, Len(s) \in Nat, Len(t) \in Nat
    PROVE  /\ Longer(s, t) \in {Len(s), Len(t)}
           /\ Len(s) <= Longer(s, t) /\ Len(t) <= Longer(s, t)
<1> DEFINE Greatest(e) == e \in {Len(s), Len(t)} /\ \A v \in {Len(s), Len(t)} : e >= v
<1>1. \E e : Greatest(e)
  OBVIOUS
<1>2. Longer(s, t) = CHOOSE e : Greatest(e)
  BY DEF Longer, Max
<1> HIDE DEF Greatest
<1>3. Greatest(Longer(s, t))
  BY <1>1, <1>2
<1> QED  BY <1>3 DEF Greatest

OpsCost(s, t) == [x \in (1 .. Len(s)) \X (1 .. Len(t)) |-> IF s[x[1]] = t[x[2]] THEN 0 ELSE 1]

\* The recursion of opsDistance.
OpsCell(f, s, t, x) ==
    LET i == x[1]
        j == x[2]
    IN  IF i = 0 THEN j
        ELSE IF j = 0 THEN i
        ELSE IF s[i] = t[j] THEN f[<<i - 1, j - 1>>]
        ELSE cheapest(f[<<i - 1, j>>], f[<<i, j - 1>>], f[<<i - 1, j - 1>>]) + 1
IsOpsTable(f, s, t) == f = [x \in Cells(Len(s), Len(t)) |-> OpsCell(f, s, t, x)]

\* One more on each cost is one more on the cheapest.
LEMMA CheapestPlus ==
    ASSUME NEW x \in Int, NEW y \in Int, NEW z \in Int
    PROVE  cheapest(x, y, z) + 1 = cheapest(x + 1, y + 1, z + 1)
<1>1. x + 1 \in Int /\ y + 1 \in Int /\ z + 1 \in Int
  OBVIOUS
<1>2. /\ cheapest(x, y, z) \in {x, y, z}
      /\ cheapest(x, y, z) <= x /\ cheapest(x, y, z) <= y /\ cheapest(x, y, z) <= z
  BY Cheapest
<1>3. /\ cheapest(x + 1, y + 1, z + 1) \in {x + 1, y + 1, z + 1}
      /\ cheapest(x + 1, y + 1, z + 1) <= x + 1 /\ cheapest(x + 1, y + 1, z + 1) <= y + 1
      /\ cheapest(x + 1, y + 1, z + 1) <= z + 1
  BY <1>1, Cheapest
<1> QED  BY <1>2, <1>3

\* With naturals in the cells, it is the recursion of a table.
LEMMA OpsCellIsCell ==
    ASSUME NEW s, NEW t, Len(s) \in Nat, Len(t) \in Nat, NEW f, NEW x \in Cells(Len(s), Len(t)),
           \A y \in Cells(Len(s), Len(t)) : y[1] + y[2] < x[1] + x[2] => f[y] \in Nat
    PROVE  OpsCell(f, s, t, x) = Cell(f, 1, OpsCost(s, t), x)
<1> DEFINE a == Len(s)
           b == Len(t)
           i == x[1]
           j == x[2]
<1>1. a \in Nat /\ b \in Nat /\ i \in 0 .. a /\ j \in 0 .. b /\ x = <<i, j>> /\ i * 1 = i
      /\ j * 1 = j
  BY DEF Cells
<1>2. CASE i = 0 \/ j = 0
  BY <1>1, <1>2 DEF OpsCell, Cell
<1>3. CASE i # 0 /\ j # 0
  <2> DEFINE up == f[<<i - 1, j>>]
             left == f[<<i, j - 1>>]
             diag == f[<<i - 1, j - 1>>]
  <2>1. i - 1 \in 0 .. a /\ j - 1 \in 0 .. b /\ i \in 1 .. a /\ j \in 1 .. b
    <3> HIDE DEF a, b, i, j
    <3> QED  BY <1>1, <1>3
  <2>2. up \in Nat /\ left \in Nat /\ diag \in Nat
    <3>1. /\ <<i - 1, j>> \in Cells(a, b) /\ <<i, j - 1>> \in Cells(a, b)
          /\ <<i - 1, j - 1>> \in Cells(a, b)
      BY <1>1, <2>1 DEF Cells
    <3>2. i - 1 + j < i + j /\ i + (j - 1) < i + j /\ i - 1 + (j - 1) < i + j
      <4> HIDE DEF a, b, i, j
      <4> QED  BY <2>1
    <3> QED  BY <3>1, <3>2
  <2>3. x \in (1 .. a) \X (1 .. b)
    BY <1>1, <2>1
  <2>4. OpsCost(s, t)[x] = IF s[i] = t[j] THEN 0 ELSE 1
    BY <2>3 DEF OpsCost
  <2>5. cheapest(up, left, diag) + 1 = cheapest(up + 1, left + 1, diag + 1)
    <3> HIDE DEF up, left, diag
    <3> QED  BY <2>2, CheapestPlus
  <2>6. OpsCell(f, s, t, x) = IF s[i] = t[j] THEN diag ELSE cheapest(up, left, diag) + 1
    BY <1>3 DEF OpsCell
  <2>7. Cell(f, 1, OpsCost(s, t), x) =
            IF OpsCost(s, t)[x] = 0 THEN diag
            ELSE cheapest(up + 1, left + 1, diag + OpsCost(s, t)[x])
    BY <1>3 DEF Cell
  <2> HIDE DEF up, left, diag
  <2> QED  BY <2>4, <2>5, <2>6, <2>7
<1> QED  BY <1>2, <1>3

(* opsDistance is at most the length of the longer list, and 0 for equal   *)
(* lists only (SimilarityStrategy::calculateOpsDistance).                  *)
LEMMA OpsDistance ==
    ASSUME NEW A, NEW s \in Seq(A), NEW t \in Seq(A)
    PROVE  /\ opsDistance(s, t) \in 0 .. Longer(s, t)
           /\ opsDistance(s, t) = 0 <=> s = t
<1> DEFINE a == Len(s)
           b == Len(t)
           c == OpsCost(s, t)
           P(f) == IsOpsTable(f, s, t)
<1>1. a \in Nat /\ b \in Nat /\ c \in Costs(a, b, 1)
  <2>1. \A x \in (1 .. a) \X (1 .. b) : (IF s[x[1]] = t[x[2]] THEN 0 ELSE 1) \in 0 .. 1
    OBVIOUS
  <2> QED  BY <2>1 DEF Costs, OpsCost
<1>2. \E f : P(f)
  <2>1. PICK f : IsTable(f, a, b, 1, c)
    BY <1>1, TableExists
  <2>2. \A x \in Cells(a, b) : f[x] \in Nat
    <3>1. \A i \in 0 .. a, j \in 0 .. b : f[<<i, j>>] \in Nat
      BY <1>1, <2>1, TableBounds
    <3> QED  BY <3>1 DEF Cells
  <2>3. \A x \in Cells(a, b) : OpsCell(f, s, t, x) = Cell(f, 1, c, x)
    BY <1>1, <2>2, OpsCellIsCell
  <2> QED  BY <2>1, <2>3 DEF IsTable, IsOpsTable
<1> DEFINE g == CHOOSE f : P(f)
<1>3. opsDistance(s, t) = g[<<a, b>>]
  BY DEF opsDistance, IsOpsTable, OpsCell, Cells
<1>4. IsOpsTable(g, s, t)
  <2>1. P(g)
    <3> HIDE DEF P
    <3> QED  BY <1>2
  <2> HIDE DEF g
  <2> QED  BY <2>1
<1> HIDE DEF P, g
<1>5. PICK f : IsTable(f, a, b, 1, c)
  BY <1>1, TableExists
<1>6. \A i \in 0 .. a, j \in 0 .. b : f[<<i, j>>] \in Nat
  BY <1>1, <1>5, TableBounds
<1>7. \A i \in 0 .. a, j \in 0 .. b : <<i, j>> \in {x \in Cells(a, b) : g[x] = f[x]}
  <2> DEFINE S == {x \in Cells(a, b) : g[x] = f[x]}
  <2>1. ASSUME NEW i \in 0 .. a, NEW j \in 0 .. b,
               \A k \in 0 .. a, l \in 0 .. b : k + l < i + j => <<k, l>> \in S
        PROVE  <<i, j>> \in S
    <3> DEFINE x == <<i, j>>
    <3>1. x \in Cells(a, b) /\ x[1] = i /\ x[2] = j
      BY DEF Cells
    <3>2. \A y \in Cells(a, b) : y[1] + y[2] < x[1] + x[2] => g[y] = f[y] /\ f[y] \in Nat
      BY <1>6, <2>1, <3>1 DEF Cells
    <3> HIDE DEF x
    <3>3. OpsCell(g, s, t, x) = Cell(g, 1, c, x)
      BY <1>1, <3>1, <3>2, OpsCellIsCell
    <3>4. Cell(g, 1, c, x) = Cell(f, 1, c, x)
      BY <1>1, <3>1, <3>2, CellLocal
    <3>5. g[x] = OpsCell(g, s, t, x) /\ f[x] = Cell(f, 1, c, x)
      BY <1>4, <1>5, <3>1 DEF IsOpsTable, IsTable
    <3> QED  BY <3>1, <3>3, <3>4, <3>5 DEF x
  <2> HIDE DEF S
  <2>2. \A i \in 0 .. a, j \in 0 .. b : <<i, j>> \in S
    BY <1>1, <2>1, CellInduction
  <2> QED  BY <2>2 DEF S
<1>8. a \in 0 .. a /\ b \in 0 .. b
  BY <1>1
<1>9. opsDistance(s, t) = f[<<a, b>>]
  BY <1>3, <1>7, <1>8
<1>10. opsDistance(s, t) \in 0 .. Longer(s, t)
  <2>1. Longer(s, t) \in {a, b} /\ a <= Longer(s, t) /\ b <= Longer(s, t)
    BY <1>1, LongerType
  <2>2. /\ f[<<a, b>>] \in Nat
        /\ a <= b => f[<<a, b>>] <= b * 1
        /\ b <= a => f[<<a, b>>] <= a * 1
    BY <1>1, <1>5, <1>8, TableBounds
  <2> QED  BY <1>1, <1>9, <2>1, <2>2
<1>11. opsDistance(s, t) = 0 <=> s = t
  <2>1. opsDistance(s, t) = 0 <=> a = b /\ \A k \in 1 .. a : c[<<k, k>>] = 0
    <3> HIDE DEF a, b, c
    <3>1. 1 \in Nat \ {0}
      OBVIOUS
    <3> QED  BY <1>1, <1>5, <1>8, <1>9, <3>1, TableZero
  <2>2. a = b => \A k \in 1 .. a : c[<<k, k>>] = 0 <=> s[k] = t[k]
    BY DEF OpsCost
  <2>3. s = t <=> a = b /\ \A k \in 1 .. a : s[k] = t[k]
    OBVIOUS
  <2> HIDE DEF a, b, c
  <2> QED  BY <2>1, <2>2, <2>3
<1> QED  BY <1>10, <1>11

-----------------------------------------------------------------------------
(* The similarity of two nodes, and the distance of two paths.             *)

IsNode(x) == /\ x = [type |-> x.type, selectNum |-> x.selectNum, ops |-> x.ops]
             /\ x.ops \in Seq(STRING) /\ Len(x.ops) \in 1 .. Unit

IsNodes(p) == /\ Len(p) \in Nat /\ p = [k \in 1 .. Len(p) |-> p[k]]
              /\ \A k \in 1 .. Len(p) : IsNode(p[k])

\* A part of a whole that is fine enough vanishes only if it is none.
LEMMA Share ==
    ASSUME NEW d \in Nat, NEW u \in Nat, NEW l \in 1 .. u, d <= l * u
    PROVE  d \div l \in 0 .. u /\ (d = 0 => d \div l = 0) /\ (l <= d => d \div l # 0)
<1> DEFINE q == d \div l
           r == d % l
<1>1. q \in Int /\ r \in 0 .. l - 1 /\ d = l * q + r
  OBVIOUS
<1> HIDE DEF q, r
<1>2. q >= 0
  <2> SUFFICES ASSUME q <= -1 PROVE FALSE
    BY <1>1
  <2>1. l * q <= l * (-1)
    BY <1>1
  <2> QED  BY <1>1, <2>1
<1>3. q <= u
  <2> SUFFICES ASSUME q >= u + 1 PROVE FALSE
    BY <1>1
  <2>1. l * q >= l * (u + 1) /\ l * (u + 1) = l * u + l
    BY <1>1
  <2> QED  BY <1>1, <2>1
<1>4. l <= d => q # 0
  BY <1>1
<1>5. d = 0 => q = 0
  <2> SUFFICES ASSUME d = 0, q >= 1 PROVE FALSE
    BY <1>1, <1>2
  <2>1. l * q >= l * 1
    BY <1>1
  <2> QED  BY <1>1, <2>1
<1> QED  BY <1>1, <1>2, <1>3, <1>4, <1>5 DEF q

(* The similarity of two nodes is a part of 1, and 1 for equal nodes only  *)
(* (SimilarityStrategy::getNodeSimilarity).                                *)
LEMMA NodeSimilarity ==
    ASSUME Unit \in Nat, NEW x, NEW y, IsNode(x), IsNode(y)
    PROVE  /\ getNodeSimilarity(x, y) \in 0 .. Unit
           /\ getNodeSimilarity(x, y) = Unit <=> x = y
<1> DEFINE d == opsDistance(x.ops, y.ops)
           l == Longer(x.ops, y.ops)
<1>1. Len(x.ops) \in 1 .. Unit /\ Len(y.ops) \in 1 .. Unit
  BY DEF IsNode
<1>2. l \in 1 .. Unit
  BY <1>1, LongerType
<1>3. d \in 0 .. l /\ (d = 0 <=> x.ops = y.ops)
  BY OpsDistance DEF IsNode
<1>4. x = y <=> sameShape(x, y) /\ x.ops = y.ops
  BY DEF IsNode, sameShape
<1>5. getNodeSimilarity(x, y) = IF ~sameShape(x, y) THEN 0 ELSE Unit - (d * Unit) \div l
  BY DEF getNodeSimilarity
<1> HIDE DEF d, l
<1>6. /\ (d * Unit) \div l \in 0 .. Unit
      /\ (d * Unit) \div l = 0 <=> d = 0
  <2>1. d * Unit \in Nat /\ d * Unit <= l * Unit /\ (d # 0 => Unit <= d * Unit)
        /\ (d = 0 => d * Unit = 0)
    BY <1>2, <1>3
  <2>2. d # 0 => l <= d * Unit
    BY <1>2, <2>1
  <2> HIDE DEF d, l
  <2> QED  BY <1>2, <1>3, <2>1, <2>2, Share
<1> QED  BY <1>2, <1>3, <1>4, <1>5, <1>6

PathCost(p, q) == [x \in (1 .. Len(p)) \X (1 .. Len(q))
                       |-> Unit - getNodeSimilarity(p[x[1]], q[x[2]])]

\* To replace a node costs 1 at most, and nothing for equal nodes only.
LEMMA PathCostType ==
    ASSUME Unit \in Nat, NEW p, NEW q, IsNodes(p), IsNodes(q)
    PROVE  /\ PathCost(p, q) \in Costs(Len(p), Len(q), Unit)
           /\ \A i \in 1 .. Len(p), j \in 1 .. Len(q) :
                 PathCost(p, q)[<<i, j>>] = 0 <=> p[i] = q[j]
<1>1. \A x \in (1 .. Len(p)) \X (1 .. Len(q)) :
          /\ getNodeSimilarity(p[x[1]], q[x[2]]) \in 0 .. Unit
          /\ getNodeSimilarity(p[x[1]], q[x[2]]) = Unit <=> p[x[1]] = q[x[2]]
  BY NodeSimilarity DEF IsNodes
<1>2. \A x \in (1 .. Len(p)) \X (1 .. Len(q)) :
          Unit - getNodeSimilarity(p[x[1]], q[x[2]]) \in 0 .. Unit
  BY <1>1
<1>3. PathCost(p, q) \in Costs(Len(p), Len(q), Unit)
  BY <1>2 DEF PathCost, Costs
<1>4. ASSUME NEW i \in 1 .. Len(p), NEW j \in 1 .. Len(q)
      PROVE  PathCost(p, q)[<<i, j>>] = 0 <=> p[i] = q[j]
  <2>1. PathCost(p, q)[<<i, j>>] = Unit - getNodeSimilarity(p[i], q[j])
    BY DEF PathCost
  <2>2. /\ getNodeSimilarity(p[i], q[j]) \in 0 .. Unit
        /\ getNodeSimilarity(p[i], q[j]) = Unit <=> p[i] = q[j]
    BY NodeSimilarity DEF IsNodes
  <2> QED  BY <2>1, <2>2
<1> QED  BY <1>3, <1>4

\* The recursion of pathDistance.
PathCell(f, p, q, x) ==
    LET i == x[1]
        j == x[2]
        similarity == getNodeSimilarity(p[i], q[j])
    IN  IF i = 0 THEN j * Unit
        ELSE IF j = 0 THEN i * Unit
        ELSE IF similarity = Unit THEN f[<<i - 1, j - 1>>]
        ELSE cheapest(f[<<i - 1, j>>] + Unit, f[<<i, j - 1>>] + Unit,
                      f[<<i - 1, j - 1>>] + Unit - similarity)
IsPathTable(f, p, q) == f = [x \in Cells(Len(p), Len(q)) |-> PathCell(f, p, q, x)]

\* The recursion of pathDistance is that of a table of costs.
LEMMA PathCellIsCell ==
    ASSUME Unit \in Nat, NEW p, NEW q, IsNodes(p), IsNodes(q),
           NEW f, NEW x \in Cells(Len(p), Len(q)),
           \A y \in Cells(Len(p), Len(q)) : y[1] + y[2] < x[1] + x[2] => f[y] \in Nat
    PROVE  PathCell(f, p, q, x) = Cell(f, Unit, PathCost(p, q), x)
<1> DEFINE a == Len(p)
           b == Len(q)
           i == x[1]
           j == x[2]
<1>1. a \in Nat /\ b \in Nat /\ i \in 0 .. a /\ j \in 0 .. b /\ x = <<i, j>>
  BY DEF Cells, IsNodes
<1>2. CASE i = 0 \/ j = 0
  BY <1>1, <1>2 DEF PathCell, Cell
<1>3. CASE i # 0 /\ j # 0
  <2> DEFINE diag == f[<<i - 1, j - 1>>]
             v == PathCost(p, q)[x]
             sim == getNodeSimilarity(p[i], q[j])
  <2>1. i - 1 \in 0 .. a /\ j - 1 \in 0 .. b /\ i \in 1 .. a /\ j \in 1 .. b
        /\ i - 1 + (j - 1) < i + j
    <3> HIDE DEF a, b, i, j
    <3> QED  BY <1>1, <1>3
  <2>2. diag \in Nat
    <3>1. <<i - 1, j - 1>> \in Cells(a, b)
      BY <2>1 DEF Cells
    <3> QED  BY <2>1, <3>1
  <2>3. v = Unit - sim
    BY <1>1, <2>1 DEF PathCost
  <2>4. sim \in 0 .. Unit
    BY <2>1, NodeSimilarity DEF IsNodes
  <2>5. PathCell(f, p, q, x) =
            IF sim = Unit THEN diag
            ELSE cheapest(f[<<i - 1, j>>] + Unit, f[<<i, j - 1>>] + Unit, diag + Unit - sim)
    BY <1>3 DEF PathCell
  <2>6. Cell(f, Unit, PathCost(p, q), x) =
            IF v = 0 THEN diag
            ELSE cheapest(f[<<i - 1, j>>] + Unit, f[<<i, j - 1>>] + Unit, diag + v)
    BY <1>3 DEF Cell
  <2> HIDE DEF diag, v, sim
  <2>7. (v = 0 <=> sim = Unit) /\ diag + Unit - sim = diag + v
    BY <2>2, <2>3, <2>4
  <2> QED  BY <2>5, <2>6, <2>7
<1> QED  BY <1>2, <1>3

(* pathDistance is the last cell of a table                                *)
(* (SimilarityStrategy::calculatePathDistance).                            *)
LEMMA PathDistanceCell ==
    ASSUME Unit \in Nat, NEW p, NEW q, IsNodes(p), IsNodes(q)
    PROVE  \E f : /\ IsTable(f, Len(p), Len(q), Unit, PathCost(p, q))
                  /\ pathDistance(p, q) = f[<<Len(p), Len(q)>>]
<1> DEFINE a == Len(p)
           b == Len(q)
           c == PathCost(p, q)
           P(f) == IsPathTable(f, p, q)
<1>1. a \in Nat /\ b \in Nat /\ c \in Costs(a, b, Unit)
  BY PathCostType DEF IsNodes
<1>2. PICK f : IsTable(f, a, b, Unit, c)
  BY <1>1, TableExists
<1>3. \A x \in Cells(a, b) : f[x] \in Nat
  <2>1. \A i \in 0 .. a, j \in 0 .. b : f[<<i, j>>] \in Nat
    BY <1>1, <1>2, TableBounds
  <2> QED  BY <2>1 DEF Cells
<1>4. P(f)
  <2>1. \A x \in Cells(a, b) : PathCell(f, p, q, x) = Cell(f, Unit, c, x)
    BY <1>1, <1>3, PathCellIsCell
  <2> QED  BY <1>2, <2>1 DEF IsTable, IsPathTable
<1> DEFINE g == CHOOSE h : P(h)
<1>5. pathDistance(p, q) = g[<<a, b>>]
  BY DEF pathDistance, IsPathTable, PathCell, Cells
<1>6. IsPathTable(g, p, q)
  <2>1. P(g)
    <3> HIDE DEF P
    <3> QED  BY <1>4
  <2> HIDE DEF g
  <2> QED  BY <2>1
<1> HIDE DEF P, g
<1>7. \A i \in 0 .. a, j \in 0 .. b : <<i, j>> \in {x \in Cells(a, b) : g[x] = f[x]}
  <2> DEFINE S == {x \in Cells(a, b) : g[x] = f[x]}
  <2>1. ASSUME NEW i \in 0 .. a, NEW j \in 0 .. b,
               \A k \in 0 .. a, l \in 0 .. b : k + l < i + j => <<k, l>> \in S
        PROVE  <<i, j>> \in S
    <3> DEFINE x == <<i, j>>
    <3>1. x \in Cells(a, b) /\ x[1] = i /\ x[2] = j
      BY DEF Cells
    <3>2. \A y \in Cells(a, b) : y[1] + y[2] < x[1] + x[2] => g[y] = f[y] /\ f[y] \in Nat
      BY <1>3, <2>1, <3>1 DEF Cells
    <3> HIDE DEF x
    <3>3. PathCell(g, p, q, x) = Cell(g, Unit, c, x)
      BY <1>1, <3>1, <3>2, PathCellIsCell
    <3>4. Cell(g, Unit, c, x) = Cell(f, Unit, c, x)
      BY <1>1, <3>1, <3>2, CellLocal
    <3>5. g[x] = PathCell(g, p, q, x) /\ f[x] = Cell(f, Unit, c, x)
      BY <1>2, <1>6, <3>1 DEF IsPathTable, IsTable
    <3> QED  BY <3>1, <3>3, <3>4, <3>5 DEF x
  <2> HIDE DEF S
  <2>2. \A i \in 0 .. a, j \in 0 .. b : <<i, j>> \in S
    BY <1>1, <2>1, CellInduction
  <2> QED  BY <2>2 DEF S
<1>8. a \in 0 .. a /\ b \in 0 .. b
  BY <1>1
<1> QED  BY <1>2, <1>5, <1>7, <1>8

(* The similarity of two paths is a part of 1, and 1 for equal paths only  *)
(* (SimilarityStrategy::calculate).                                        *)
LEMMA Calculate ==
    ASSUME Unit \in Nat \ {0}, Scale \in Nat, NEW p, NEW q, IsNodes(p), IsNodes(q),
           Len(p) \in 1 .. Scale, Len(q) \in 1 .. Scale
    PROVE  /\ calculate(p, q) \in 0 .. Full
           /\ calculate(p, q) = Full <=> p = q
<1> DEFINE a == Len(p)
           b == Len(q)
           c == PathCost(p, q)
           d == pathDistance(p, q)
           l == Longer(p, q)
<1>1. PICK f : IsTable(f, a, b, Unit, c) /\ d = f[<<a, b>>]
  BY PathDistanceCell
<1>2. c \in Costs(a, b, Unit)
      /\ \A i \in 1 .. a, j \in 1 .. b : c[<<i, j>>] = 0 <=> p[i] = q[j]
  BY PathCostType
<1>3. l \in {a, b} /\ a <= l /\ b <= l /\ l \in 1 .. Scale
  BY LongerType
<1>4. d \in Nat /\ d <= l * Unit
  <2>1. /\ d \in Nat
        /\ a <= b => d <= b * Unit
        /\ b <= a => d <= a * Unit
    <3> HIDE DEF c, d
    <3>1. Unit \in Nat /\ a \in Nat /\ b \in Nat /\ c \in Costs(a, b, Unit)
          /\ IsTable(f, a, b, Unit, c)
      BY <1>1, <1>2 DEF IsNodes
    <3> HIDE DEF a, b
    <3>2. \A i \in 0 .. a, j \in 0 .. b :
              /\ f[<<i, j>>] \in Nat
              /\ i <= j => f[<<i, j>>] <= j * Unit
              /\ j <= i => f[<<i, j>>] <= i * Unit
      BY <3>1, TableBounds
    <3>3. a \in 0 .. a /\ b \in 0 .. b
      BY <3>1
    <3> QED  BY <1>1, <3>2, <3>3
  <2> HIDE DEF d, l
  <2> QED  BY <1>3, <2>1
<1>5. d = 0 <=> p = q
  <2>1. d = 0 <=> a = b /\ \A k \in 1 .. a : c[<<k, k>>] = 0
    <3> HIDE DEF c, d
    <3>1. Unit \in Nat \ {0} /\ a \in Nat /\ b \in Nat /\ c \in Costs(a, b, Unit)
          /\ IsTable(f, a, b, Unit, c)
      BY <1>1, <1>2 DEF IsNodes
    <3> HIDE DEF a, b
    <3>2. a \in 0 .. a /\ b \in 0 .. b
      BY <3>1
    <3>3. f[<<a, b>>] = 0 <=> a = b /\ \A k \in 1 .. a : c[<<k, k>>] = 0
      BY <3>1, <3>2, TableZero
    <3> QED  BY <1>1, <3>3
  <2>2. p = q <=> a = b /\ \A k \in 1 .. a : p[k] = q[k]
    BY DEF IsNodes
  <2> HIDE DEF a, b, c, d
  <2> QED  BY <1>2, <2>1, <2>2
<1>6. calculate(p, q) = Full - (d * Scale) \div l
  BY DEF calculate
<1>7. Unit * Scale \in Nat /\ Full = Unit * Scale
  BY DEF Full
<1>8. (d * Scale) \div l \in 0 .. Unit * Scale /\ ((d * Scale) \div l = 0 <=> d = 0)
  <2> HIDE DEF a, b, d, l
  <2>1. d * Scale \in Nat /\ (d = 0 => d * Scale = 0) /\ (d # 0 => Scale <= d * Scale)
    BY <1>4
  <2>2. d * Scale <= (l * Unit) * Scale /\ (l * Unit) * Scale = l * (Unit * Scale)
    BY <1>3, <1>4
  <2>3. Scale <= Unit * Scale
    OBVIOUS
  <2> DEFINE e == d * Scale
             u == Unit * Scale
  <2> HIDE DEF e, u
  <2>4. e \in Nat /\ u \in Nat /\ l \in 1 .. u /\ e <= l * u
    BY <1>3, <1>7, <2>1, <2>2, <2>3 DEF e, u
  <2>5. e \div l \in 0 .. u /\ (e = 0 => e \div l = 0) /\ (l <= e => e \div l # 0)
    BY <2>4, Share
  <2> QED  BY <1>3, <1>4, <2>1, <2>5 DEF e, u
<1> HIDE DEF d, l
<1> QED  BY <1>5, <1>6, <1>7, <1>8

-----------------------------------------------------------------------------
(* Sums over a finite set, as MapThenSumSet takes them.                    *)

SumCell(t, g, s) == IF s = {} THEN 0 ELSE LET x == CHOOSE x \in s : TRUE IN g[x] + t[s \ {x}]
IsSum(t, g, T) == t = [s \in SUBSET T |-> SumCell(t, g, s)]

\* What holds of a set, if it does without any one element, holds of all subsets.
LEMMA SubsetInduction ==
    ASSUME NEW T, IsFiniteSet(T), NEW R,
           \A s \in SUBSET T : (\A x \in s : s \ {x} \in R) => s \in R
    PROVE  \A s \in SUBSET T : s \in R
<1> DEFINE K == {k \in Nat : \A s \in SUBSET T : Cardinality(s) < k => s \in R}
<1>1. \A s \in SUBSET T : IsFiniteSet(s) /\ Cardinality(s) \in Nat
      /\ Cardinality(s) <= Cardinality(T)
                          /\ \A x \in s : Cardinality(s \ {x}) = Cardinality(s) - 1
  BY FS_Subset, FS_CardinalityType, FS_RemoveElement
<1>2. 0 \in K
  BY <1>1
<1>3. ASSUME NEW k \in Nat, k \in K PROVE k + 1 \in K
  <2> SUFFICES ASSUME NEW s \in SUBSET T, Cardinality(s) < k + 1 PROVE s \in R
    OBVIOUS
  <2>1. \A x \in s : s \ {x} \in SUBSET T /\ Cardinality(s \ {x}) < k
    BY <1>1
  <2> QED  BY <1>3, <2>1
<1>4. \A k \in Nat : k \in K
  <2> HIDE DEF K
  <2> QED  BY <1>2, <1>3, SetInduction
<1>5. Cardinality(T) + 1 \in K
  <2>1. Cardinality(T) + 1 \in Nat
    BY FS_CardinalityType
  <2> HIDE DEF K
  <2> QED  BY <1>4, <2>1
<1>6. \A s \in SUBSET T : Cardinality(s) < Cardinality(T) + 1
  BY <1>1
<1> QED  BY <1>5, <1>6

\* What PairsCost chooses exists: the partial sums over a finite set.
LEMMA SumExists ==
    ASSUME NEW T, IsFiniteSet(T), NEW g
    PROVE  \E t : IsSum(t, g, T)
<1> DEFINE Upto(t, k) == t = [s \in SUBSET T |-> IF Cardinality(s) < k THEN SumCell(t, g, s) ELSE 0]
           K == {k \in Nat : \E t : Upto(t, k)}
<1>1. \A s \in SUBSET T : IsFiniteSet(s) /\ Cardinality(s) \in Nat
      /\ Cardinality(s) <= Cardinality(T)
                          /\ \A x \in s : Cardinality(s \ {x}) = Cardinality(s) - 1
  BY FS_Subset, FS_CardinalityType, FS_RemoveElement
<1>2. 0 \in K
  <2>1. Upto([s \in SUBSET T |-> 0], 0)
    BY <1>1
  <2> QED  BY <2>1
<1>3. ASSUME NEW k \in Nat, k \in K PROVE k + 1 \in K
  <2>1. PICK t : Upto(t, k)
    BY <1>3
  <2> DEFINE h == [s \in SUBSET T |-> IF Cardinality(s) < k + 1 THEN SumCell(t, g, s) ELSE 0]
  <2>2. \A s \in SUBSET T : Cardinality(s) < k => h[s] = t[s]
    BY <1>1, <2>1
  <2>3. ASSUME NEW s \in SUBSET T, Cardinality(s) < k + 1 PROVE SumCell(h, g, s) = SumCell(t, g, s)
    <3>1. CASE s = {}
      BY <3>1 DEF SumCell
    <3>2. CASE s # {}
      <4> DEFINE x == CHOOSE x \in s : TRUE
      <4>1. x \in s
        BY <3>2
      <4>2. s \ {x} \in SUBSET T /\ Cardinality(s \ {x}) < k
        <5> HIDE DEF h, x
        <5> QED  BY <1>1, <2>3, <4>1
      <4>3. h[s \ {x}] = t[s \ {x}]
        <5> HIDE DEF h, x
        <5> QED  BY <2>2, <4>2
      <4> HIDE DEF h
      <4> QED  BY <3>2, <4>3 DEF SumCell
    <3> QED  BY <3>1, <3>2
  <2>4. h = [s \in SUBSET T |-> IF Cardinality(s) < k + 1 THEN SumCell(h, g, s) ELSE 0]
    <3> DEFINE w == [s \in SUBSET T |-> IF Cardinality(s) < k + 1 THEN SumCell(h, g, s) ELSE 0]
    <3>1. \A s \in SUBSET T : h[s] = w[s]
      BY <2>3
    <3> QED  BY <3>1
  <2> HIDE DEF h
  <2>5. Upto(h, k + 1)
    BY <2>4
  <2> QED  BY <2>5
<1>4. \A k \in Nat : k \in K
  <2> HIDE DEF K
  <2> QED  BY <1>2, <1>3, SetInduction
<1>5. Cardinality(T) + 1 \in K
  <2>1. Cardinality(T) + 1 \in Nat
    BY FS_CardinalityType
  <2> HIDE DEF K
  <2> QED  BY <1>4, <2>1
<1>6. PICK t : Upto(t, Cardinality(T) + 1)
  BY <1>5
<1>7. \A s \in SUBSET T : Cardinality(s) < Cardinality(T) + 1
  BY <1>1
<1> QED  BY <1>6, <1>7 DEF IsSum

\* A sum does not depend on which element is taken out first.
LEMMA SumAny ==
    ASSUME NEW T, IsFiniteSet(T), NEW g \in [T -> Nat], NEW t, IsSum(t, g, T)
    PROVE  /\ t[{}] = 0
           /\ \A s \in SUBSET T : t[s] \in Nat /\ \A x \in s : t[s] = g[x] + t[s \ {x}]
<1>1. \A s \in SUBSET T : t[s] = SumCell(t, g, s)
  BY DEF IsSum
<1>2. t[{}] = 0
  BY <1>1 DEF SumCell
<1>3. \A s \in SUBSET T : t[s] \in Nat
  <2> DEFINE R == {s \in SUBSET T : t[s] \in Nat}
  <2>1. ASSUME NEW s \in SUBSET T, \A x \in s : s \ {x} \in R PROVE s \in R
    <3>1. CASE s = {}
      BY <1>2, <3>1
    <3>2. CASE s # {}
      <4> DEFINE y == CHOOSE x \in s : TRUE
      <4>1. y \in s
        BY <3>2
      <4>2. t[s] = g[y] + t[s \ {y}]
        BY <1>1, <3>2 DEF SumCell
      <4> HIDE DEF y
      <4> QED  BY <2>1, <4>1, <4>2
    <3> QED  BY <3>1, <3>2
  <2> HIDE DEF R
  <2>2. \A s \in SUBSET T : s \in R
    BY <2>1, SubsetInduction
  <2> QED  BY <2>2 DEF R
<1>4. \A s \in SUBSET T : \A x \in s : t[s] = g[x] + t[s \ {x}]
  <2> DEFINE R == {s \in SUBSET T : \A x \in s : t[s] = g[x] + t[s \ {x}]}
  <2>1. ASSUME NEW s \in SUBSET T, \A x \in s : s \ {x} \in R PROVE s \in R
    <3> SUFFICES ASSUME s # {} PROVE s \in R
      OBVIOUS
    <3> DEFINE y == CHOOSE x \in s : TRUE
    <3>1. y \in s
      OBVIOUS
    <3>2. t[s] = g[y] + t[s \ {y}]
      BY <1>1 DEF SumCell
    <3> HIDE DEF y
    <3>3. ASSUME NEW x \in s, x # y PROVE t[s] = g[x] + t[s \ {x}]
      <4>1. t[s \ {y}] = g[x] + t[(s \ {y}) \ {x}]
        BY <2>1, <3>1, <3>3
      <4>2. t[s \ {x}] = g[y] + t[(s \ {x}) \ {y}]
        BY <2>1, <3>1, <3>3
      <4>3. (s \ {y}) \ {x} = (s \ {x}) \ {y} /\ (s \ {x}) \ {y} \in SUBSET T
        OBVIOUS
      <4>4. t[(s \ {x}) \ {y}] \in Nat /\ g[x] \in Nat /\ g[y] \in Nat
        BY <1>3, <3>1, <4>3
      <4>5. t[s \ {y}] = g[x] + t[(s \ {x}) \ {y}]
        BY <4>1, <4>3
      <4> QED  BY <3>2, <4>2, <4>4, <4>5
    <3> QED  BY <3>2, <3>3
  <2> HIDE DEF R
  <2>2. \A s \in SUBSET T : s \in R
    BY <2>1, SubsetInduction
  <2> QED  BY <2>2 DEF R
<1> QED  BY <1>2, <1>3, <1>4

\* The sum over a whole set is one element's part and the rest.
LEMMA SumWhole ==
    ASSUME NEW T, IsFiniteSet(T), NEW g \in [T -> Nat], NEW t, IsSum(t, g, T), NEW x \in T
    PROVE  t[T] = g[x] + t[T \ {x}]
<1>1. T \in SUBSET T
  OBVIOUS
<1> QED  BY <1>1, SumAny

\* A sum depends on what is added up only.
LEMMA SumSame ==
    ASSUME NEW T, IsFiniteSet(T), NEW g, NEW t, IsSum(t, g, T),
           NEW U, NEW h, NEW r, IsSum(r, h, U),
           T \subseteq U, \A x \in T : g[x] = h[x]
    PROVE  t[T] = r[T]
<1>1. \A s \in SUBSET T : t[s] = SumCell(t, g, s) /\ r[s] = SumCell(r, h, s)
  BY DEF IsSum
<1> DEFINE R == {s \in SUBSET T : t[s] = r[s]}
<1>2. ASSUME NEW s \in SUBSET T, \A x \in s : s \ {x} \in R PROVE s \in R
  <2>1. CASE s = {}
    BY <1>1, <2>1 DEF SumCell
  <2>2. CASE s # {}
    <3> DEFINE y == CHOOSE x \in s : TRUE
    <3>1. y \in s
      BY <2>2
    <3>2. t[s] = g[y] + t[s \ {y}] /\ r[s] = h[y] + r[s \ {y}]
      BY <1>1, <2>2 DEF SumCell
    <3> HIDE DEF y
    <3> QED  BY <1>2, <3>1, <3>2
  <2> QED  BY <2>1, <2>2
<1>3. \A s \in SUBSET T : s \in R
  <2> HIDE DEF R
  <2> QED  BY <1>2, SubsetInduction
<1> QED  BY <1>3

-----------------------------------------------------------------------------
(* Alignments: the partner of an element has its place.                    *)

Place(e, S) == Cardinality({x \in S : x < e})

\* The two sides of a pairing are finite, as large as each other, and in place.
LEMMA PairingType ==
    ASSUME NEW i \in Nat, NEW j \in Nat, NEW S \in Pairings(i, j)
    PROVE  /\ S = <<S[1], S[2]>> /\ S[1] \subseteq 1 .. i /\ S[2] \subseteq 1 .. j
           /\ IsFiniteSet(S[1]) /\ IsFiniteSet(S[2])
           /\ Cardinality(S[1]) \in Nat /\ Cardinality(S[2]) = Cardinality(S[1])
<1>1. /\ S = <<S[1], S[2]>> /\ S[1] \subseteq 1 .. i /\ S[2] \subseteq 1 .. j
      /\ Cardinality(S[2]) = Cardinality(S[1])
  BY DEF Pairings
<1>2. IsFiniteSet(1 .. i) /\ IsFiniteSet(1 .. j)
  BY FS_Interval
<1> QED  BY <1>1, <1>2, FS_Subset, FS_CardinalityType

\* Later elements have later places.
LEMMA PlaceGrows ==
    ASSUME NEW T, IsFiniteSet(T), T \subseteq Nat, NEW e \in T, NEW f \in T, e < f
    PROVE  Place(e, T) < Place(f, T)
<1> DEFINE E == {x \in T : x < e}
           F == {x \in T : x < f}
<1>1. E \subseteq F /\ e \in F /\ e \notin E
  <2>1. \A x \in T : x \in Nat
    OBVIOUS
  <2>2. (\A x \in T : x < e => x < f) /\ ~ (e < e)
    BY <2>1
  <2> QED  BY <2>2
<1>2. IsFiniteSet(F) /\ F \subseteq T
  BY FS_Subset
<1>3. IsFiniteSet(E) /\ Cardinality(E) <= Cardinality(F)
      /\ (Cardinality(F) = Cardinality(E) => F = E)
  BY <1>1, <1>2, FS_Subset
<1>4. Cardinality(E) \in Nat /\ Cardinality(F) \in Nat
  BY <1>2, <1>3, FS_CardinalityType
<1>5. F # E
  BY <1>1
<1> HIDE DEF E, F
<1>6. Cardinality(E) < Cardinality(F)
  BY <1>3, <1>4, <1>5
<1> QED  BY <1>6 DEF Place, E, F

\* Who has the same place is the partner.
LEMMA PartnerIs ==
    ASSUME NEW T, IsFiniteSet(T), T \subseteq Nat, NEW e, NEW S, NEW f \in T,
           Place(f, T) = Place(e, S)
    PROVE  Partner(e, S, T) = f
<1> DEFINE P(h) == h \in T /\ Place(h, T) = Place(e, S)
           g == CHOOSE h : P(h)
<1>1. Partner(e, S, T) = g
  BY DEF Partner, Place
<1>2. P(f)
  OBVIOUS
<1>3. P(g)
  <2> HIDE DEF P
  <2> QED  BY <1>2
<1>4. ASSUME g # f PROVE FALSE
  <2> HIDE DEF g
  <2>1. g < f \/ f < g
    BY <1>3, <1>4
  <2>2. Place(g, T) < Place(f, T) \/ Place(f, T) < Place(g, T)
    BY <1>3, <2>1, PlaceGrows
  <2>3. Place(f, T) \in Nat
    <3>1. IsFiniteSet({x \in T : x < f})
      BY FS_Subset
    <3> QED  BY <3>1, FS_CardinalityType DEF Place
  <2> QED  BY <1>3, <2>2, <2>3
<1> QED  BY <1>1, <1>4

\* The places of a set without its last element are those it had.
LEMMA PlaceWithoutLast ==
    ASSUME NEW T, IsFiniteSet(T), T \subseteq Nat, NEW f \in T, \A x \in T : x <= f
    PROVE  /\ Place(f, T) = Cardinality(T) - 1
           /\ \A x \in T \ {f} : Place(x, T \ {f}) = Place(x, T)
<1>1. {x \in T : x < f} = T \ {f}
  <2>1. \A x \in T : x \in Nat
    OBVIOUS
  <2>2. \A x \in T : x < f <=> x # f
    BY <2>1
  <2> QED  BY <2>2
<1>2. Place(f, T) = Cardinality(T) - 1
  BY <1>1, FS_RemoveElement DEF Place
<1>3. ASSUME NEW x \in T \ {f} PROVE Place(x, T \ {f}) = Place(x, T)
  <2>1. {y \in T \ {f} : y < x} = {y \in T : y < x}
    OBVIOUS
  <2> QED  BY <2>1 DEF Place
<1> QED  BY <1>2, <1>3

\* An alignment of all but the last elements.
Without(S, i, j) == <<S[1] \ {i}, S[2] \ {j}>>

\* Without its last pair, a pairing is one of shorter sequences.
LEMMA WithoutType ==
    ASSUME NEW i \in Nat, NEW j \in Nat, NEW S \in Pairings(i, j), i \in S[1], j \in S[2]
    PROVE  /\ i >= 1 /\ j >= 1
           /\ Without(S, i, j) \in Pairings(i - 1, j - 1)
           /\ Cardinality(Without(S, i, j)[1]) = Cardinality(S[1]) - 1
           /\ Place(i, S[1]) = Cardinality(S[1]) - 1 /\ Place(j, S[2]) = Cardinality(S[1]) - 1
<1>1. /\ S[1] \subseteq 1 .. i /\ S[2] \subseteq 1 .. j /\ IsFiniteSet(S[1]) /\ IsFiniteSet(S[2])
      /\ Cardinality(S[1]) \in Nat /\ Cardinality(S[2]) = Cardinality(S[1])
  BY PairingType
<1>2. i >= 1 /\ j >= 1
  BY <1>1
<1>3. S[1] \ {i} \subseteq 1 .. i - 1 /\ S[2] \ {j} \subseteq 1 .. j - 1
  BY <1>1
<1>4. Cardinality(S[1] \ {i}) = Cardinality(S[1]) - 1
      /\ Cardinality(S[2] \ {j}) = Cardinality(S[2]) - 1
  BY <1>1, FS_RemoveElement
<1>5. Place(i, S[1]) = Cardinality(S[1]) - 1 /\ Place(j, S[2]) = Cardinality(S[2]) - 1
  <2>1. S[1] \subseteq Nat /\ S[2] \subseteq Nat /\ (\A x \in S[1] : x <= i)
        /\ \A x \in S[2] : x <= j
    BY <1>1
  <2> QED  BY <1>1, <2>1, PlaceWithoutLast
<1> QED  BY <1>1, <1>2, <1>3, <1>4, <1>5 DEF Without, Pairings

\* Every element that is not left alone has a partner.
LEMMA PartnersExist ==
    ASSUME NEW a \in Nat, NEW b \in Nat
    PROVE  \A i \in 0 .. a, j \in 0 .. b : \A S \in Pairings(i, j) :
               \A e \in S[1] : \E f \in S[2] : Place(f, S[2]) = Place(e, S[1])
<1> DEFINE Paired(S) == \A e \in S[1] : \E f \in S[2] : Place(f, S[2]) = Place(e, S[1])
           Good(i, j) == \A S \in Pairings(i, j) : Paired(S)
           C == {x \in Cells(a, b) : Good(x[1], x[2])}
<1>1. \A i \in 0 .. a, j \in 0 .. b : <<i, j>> \in C <=> Good(i, j)
  BY DEF Cells
<1>2. ASSUME NEW i \in 0 .. a, NEW j \in 0 .. b,
             \A k \in 0 .. a, l \in 0 .. b : k + l < i + j => Good(k, l)
      PROVE  Good(i, j)
  <2> SUFFICES ASSUME NEW S \in Pairings(i, j) PROVE Paired(S)
    OBVIOUS
  <2>0. /\ S[1] \subseteq 1 .. i /\ S[2] \subseteq 1 .. j /\ IsFiniteSet(S[1]) /\ IsFiniteSet(S[2])
        /\ Cardinality(S[1]) \in Nat /\ Cardinality(S[2]) = Cardinality(S[1])
    BY PairingType
  <2>1. CASE i \in S[1] /\ j \in S[2]
    <3> DEFINE W == Without(S, i, j)
    <3>1. /\ i >= 1 /\ j >= 1 /\ W \in Pairings(i - 1, j - 1) /\ Place(i, S[1]) = Place(j, S[2])
          /\ W[1] = S[1] \ {i} /\ W[2] = S[2] \ {j}
      <4>1. W[1] = S[1] \ {i} /\ W[2] = S[2] \ {j}
        BY DEF Without
      <4>2. i \in Nat /\ j \in Nat
        OBVIOUS
      <4> QED  BY <2>1, <4>1, <4>2, WithoutType
    <3>2. Paired(W)
      <4>1. i - 1 \in 0 .. a /\ j - 1 \in 0 .. b /\ i - 1 + (j - 1) < i + j
        BY <3>1
      <4> QED  BY <1>2, <3>1, <4>1
    <3>3. S[1] \subseteq Nat /\ S[2] \subseteq Nat /\ (\A x \in S[1] : x <= i)
          /\ \A x \in S[2] : x <= j
      BY <2>0
    <3>4. ASSUME NEW e \in S[1] \ {i} PROVE \E f \in S[2] : Place(f, S[2]) = Place(e, S[1])
      <4>1. PICK f \in S[2] \ {j} : Place(f, S[2] \ {j}) = Place(e, S[1] \ {i})
        BY <3>1, <3>2
      <4>2. Place(f, S[2] \ {j}) = Place(f, S[2]) /\ Place(e, S[1] \ {i}) = Place(e, S[1])
        BY <2>0, <2>1, <3>3, PlaceWithoutLast
      <4> QED  BY <4>1, <4>2
    <3> QED  BY <2>1, <3>1, <3>4
  <2>2. CASE i \notin S[1] /\ i # 0
    <3>1. S \in Pairings(i - 1, j) /\ i - 1 \in 0 .. a /\ i - 1 + j < i + j
      BY <2>0, <2>2 DEF Pairings
    <3> QED  BY <1>2, <3>1
  <2>3. CASE j \notin S[2] /\ j # 0
    <3>1. S \in Pairings(i, j - 1) /\ j - 1 \in 0 .. b /\ i + (j - 1) < i + j
      BY <2>0, <2>3 DEF Pairings
    <3> QED  BY <1>2, <3>1
  <2>4. CASE i = 0 \/ j = 0
    <3>1. S[1] = {} \/ S[2] = {}
      BY <2>0, <2>4
    <3>2. S[1] = {}
      BY <2>0, <3>1, FS_EmptySet
    <3> QED  BY <3>2
  <2> QED  BY <2>1, <2>2, <2>3, <2>4
<1>3. \A i \in 0 .. a, j \in 0 .. b : Good(i, j)
  <2> HIDE DEF Good, C
  <2>1. \A i \in 0 .. a, j \in 0 .. b : <<i, j>> \in C
    BY <1>1, <1>2, CellInduction
  <2> QED  BY <1>1, <2>1
<1> QED  BY <1>3

-----------------------------------------------------------------------------
(* What an alignment costs.                                                *)

PairCost(c, S) == [e \in S[1] |-> c[<<e, Partner(e, S[1], S[2])>>]]
PairsCost(c, S) == (CHOOSE t : IsSum(t, PairCost(c, S), S[1]))[S[1]]
Weight(c, u, S, i, j) == PairsCost(c, S) + (i + j - 2 * Cardinality(S[1])) * u

\* The partner is of the other side, at the same place.
LEMMA PartnerAt ==
    ASSUME NEW i \in Nat, NEW j \in Nat, NEW S \in Pairings(i, j), NEW e \in S[1]
    PROVE  Partner(e, S[1], S[2]) \in S[2] /\ Place(Partner(e, S[1], S[2]), S[2]) = Place(e, S[1])
<1>1. IsFiniteSet(S[2]) /\ S[2] \subseteq Nat
  BY PairingType
<1>2. PICK f \in S[2] : Place(f, S[2]) = Place(e, S[1])
  BY PartnersExist, i \in 0 .. i, j \in 0 .. j
<1>3. Partner(e, S[1], S[2]) = f
  BY <1>1, <1>2, PartnerIs
<1> QED  BY <1>2, <1>3

\* A pair costs a natural number.
LEMMA PairCostType ==
    ASSUME NEW a \in Nat, NEW b \in Nat, NEW u \in Nat, NEW c \in Costs(a, b, u),
           NEW i \in 0 .. a, NEW j \in 0 .. b, NEW S \in Pairings(i, j)
    PROVE  PairCost(c, S) \in [S[1] -> Nat]
<1>1. ASSUME NEW e \in S[1] PROVE c[<<e, Partner(e, S[1], S[2])>>] \in Nat
  <2>1. Partner(e, S[1], S[2]) \in S[2]
    BY PartnerAt
  <2>2. e \in 1 .. a /\ Partner(e, S[1], S[2]) \in 1 .. b
    BY <2>1, PairingType
  <2> QED  BY <2>2 DEF Costs
<1> QED  BY <1>1 DEF PairCost

\* What the pairs cost together is a sum.
LEMMA PairsCostSum ==
    ASSUME NEW c, NEW S, IsFiniteSet(S[1])
    PROVE  \E t : IsSum(t, PairCost(c, S), S[1]) /\ PairsCost(c, S) = t[S[1]]
<1> DEFINE P(t) == IsSum(t, PairCost(c, S), S[1])
<1>1. \E t : P(t)
  BY SumExists
<1>2. PairsCost(c, S) = (CHOOSE t : P(t))[S[1]]
  BY DEF PairsCost
<1>3. P(CHOOSE t : P(t))
  <2> HIDE DEF P
  <2> QED  BY <1>1
<1> QED  BY <1>2, <1>3

\* Pairs cost a natural number together, and no pairs cost nothing.
LEMMA PairsCostNat ==
    ASSUME NEW a \in Nat, NEW b \in Nat, NEW u \in Nat, NEW c \in Costs(a, b, u),
           NEW i \in 0 .. a, NEW j \in 0 .. b, NEW S \in Pairings(i, j)
    PROVE  PairsCost(c, S) \in Nat /\ (S[1] = {} => PairsCost(c, S) = 0)
<1>1. IsFiniteSet(S[1])
  BY PairingType
<1>2. PICK t : IsSum(t, PairCost(c, S), S[1]) /\ PairsCost(c, S) = t[S[1]]
  BY <1>1, PairsCostSum
<1>3. PairCost(c, S) \in [S[1] -> Nat]
  BY PairCostType
<1>4. t[{}] = 0 /\ t[S[1]] \in Nat
  BY <1>1, <1>2, <1>3, SumAny
<1> QED  BY <1>2, <1>4

\* The last pair costs what it differs, the others cost what they did.
LEMMA PairsCostLast ==
    ASSUME NEW a \in Nat, NEW b \in Nat, NEW u \in Nat, NEW c \in Costs(a, b, u),
           NEW i \in 0 .. a, NEW j \in 0 .. b, NEW S \in Pairings(i, j), i \in S[1], j \in S[2]
    PROVE  PairsCost(c, S) = c[<<i, j>>] + PairsCost(c, Without(S, i, j))
<1> DEFINE W == Without(S, i, j)
<1>1. /\ i - 1 \in 0 .. a /\ j - 1 \in 0 .. b /\ W \in Pairings(i - 1, j - 1)
      /\ Place(i, S[1]) = Place(j, S[2])
  <2>1. i \in Nat /\ j \in Nat
    OBVIOUS
  <2>2. /\ i >= 1 /\ j >= 1 /\ W \in Pairings(i - 1, j - 1)
        /\ Place(i, S[1]) = Place(j, S[2])
    BY <2>1, WithoutType
  <2> QED  BY <2>1, <2>2
<1>2. W[1] = S[1] \ {i} /\ W[2] = S[2] \ {j}
  BY DEF Without
<1>3. /\ S[1] \subseteq Nat /\ S[2] \subseteq Nat /\ IsFiniteSet(S[1]) /\ IsFiniteSet(S[2])
      /\ (\A x \in S[1] : x <= i) /\ \A x \in S[2] : x <= j
  <2>1. S[1] \subseteq 1 .. i /\ S[2] \subseteq 1 .. j /\ IsFiniteSet(S[1]) /\ IsFiniteSet(S[2])
    BY PairingType
  <2> QED  BY <2>1
<1>4. Partner(i, S[1], S[2]) = j
  BY <1>1, <1>3, PartnerIs
<1>5. ASSUME NEW e \in W[1] PROVE Partner(e, S[1], S[2]) = Partner(e, W[1], W[2])
  <2> DEFINE f == Partner(e, W[1], W[2])
  <2>1. f \in W[2] /\ Place(f, W[2]) = Place(e, W[1])
    BY <1>1, PartnerAt
  <2>2. Place(f, W[2]) = Place(f, S[2]) /\ Place(e, W[1]) = Place(e, S[1]) /\ f \in S[2]
    <3> HIDE DEF W, f
    <3> QED  BY <1>2, <1>3, <2>1, PlaceWithoutLast
  <2> HIDE DEF f
  <2>3. Place(f, S[2]) = Place(e, S[1])
    BY <2>1, <2>2
  <2>4. Partner(e, S[1], S[2]) = f
    BY <1>3, <2>2, <2>3, PartnerIs
  <2> QED  BY <2>4 DEF f
<1>6. PICK t : IsSum(t, PairCost(c, S), S[1]) /\ PairsCost(c, S) = t[S[1]]
  BY <1>3, PairsCostSum
<1>7. PICK r : IsSum(r, PairCost(c, W), W[1]) /\ PairsCost(c, W) = r[W[1]]
  <2>1. IsFiniteSet(W[1])
    BY <1>2, <1>3, FS_RemoveElement
  <2> QED  BY <2>1, PairsCostSum
<1> HIDE DEF W
<1>8. \A e \in W[1] : PairCost(c, W)[e] = PairCost(c, S)[e]
  BY <1>2, <1>5 DEF PairCost
<1>9. r[W[1]] = t[W[1]]
  <2>1. IsFiniteSet(W[1]) /\ W[1] \subseteq S[1]
    BY <1>2, <1>3, FS_Subset
  <2> QED  BY <1>6, <1>7, <1>8, <2>1, SumSame
<1>10. t[S[1]] = PairCost(c, S)[i] + t[S[1] \ {i}]
  <2>1. /\ PairCost(c, S) \in [S[1] -> Nat] /\ IsFiniteSet(S[1]) /\ i \in S[1]
        /\ IsSum(t, PairCost(c, S), S[1])
    BY <1>3, <1>6, PairCostType
  <2> QED  BY ONLY <2>1, SumWhole
<1>11. PairCost(c, S)[i] = c[<<i, j>>]
  BY <1>4 DEF PairCost
<1> QED  BY <1>2, <1>6, <1>7, <1>9, <1>10, <1>11 DEF W

\* An alignment costs u more where there is one more element to leave alone.
LEMMA WeightAlone ==
    ASSUME NEW a \in Nat, NEW b \in Nat, NEW u \in Nat, NEW c \in Costs(a, b, u),
           NEW i \in 0 .. a, NEW j \in 0 .. b, NEW S \in Pairings(i, j)
    PROVE  /\ Weight(c, u, S, i, j) \in Int
           /\ i + 1 <= a => /\ S \in Pairings(i + 1, j)
                            /\ Weight(c, u, S, i + 1, j) = Weight(c, u, S, i, j) + u
           /\ j + 1 <= b => /\ S \in Pairings(i, j + 1)
                            /\ Weight(c, u, S, i, j + 1) = Weight(c, u, S, i, j) + u
<1> DEFINE k == Cardinality(S[1])
           s == PairsCost(c, S)
<1>1. k \in Nat /\ s \in Nat
  BY PairingType, PairsCostNat
<1>2. 1 .. i \subseteq 1 .. i + 1 /\ 1 .. j \subseteq 1 .. j + 1
  OBVIOUS
<1>3. S \in Pairings(i + 1, j) /\ S \in Pairings(i, j + 1)
  BY <1>2 DEF Pairings
<1> HIDE DEF k, s
<1> DEFINE e == i + j - 2 * k
<1>4. e \in Int /\ i + 1 + j - 2 * k = e + 1 /\ i + (j + 1) - 2 * k = e + 1
  BY <1>1
<1> HIDE DEF e
<1>5. e * u \in Int /\ (e + 1) * u = e * u + u
  BY <1>4
<1>6. /\ Weight(c, u, S, i, j) = s + e * u
      /\ Weight(c, u, S, i + 1, j) = s + (i + 1 + j - 2 * k) * u
      /\ Weight(c, u, S, i, j + 1) = s + (i + (j + 1) - 2 * k) * u
  BY DEF Weight, k, s, e
<1> QED  BY <1>1, <1>3, <1>4, <1>5, <1>6

\* Pairing the last elements costs what they differ.
LEMMA WeightPaired ==
    ASSUME NEW a \in Nat, NEW b \in Nat, NEW u \in Nat, NEW c \in Costs(a, b, u),
           NEW i \in 0 .. a, NEW j \in 0 .. b, NEW S \in Pairings(i, j), i \in S[1], j \in S[2]
    PROVE  /\ i >= 1 /\ j >= 1 /\ Without(S, i, j) \in Pairings(i - 1, j - 1)
           /\ Weight(c, u, S, i, j) = Weight(c, u, Without(S, i, j), i - 1, j - 1) + c[<<i, j>>]
<1> DEFINE W == Without(S, i, j)
           k == Cardinality(S[1])
           l == Cardinality(W[1])
           s == PairsCost(c, S)
           w == PairsCost(c, W)
           v == c[<<i, j>>]
<1>1. i >= 1 /\ j >= 1 /\ W \in Pairings(i - 1, j - 1) /\ l = k - 1
  BY WithoutType
<1>2. s = v + w
  <2> HIDE DEF k, l, s, w, v, W
  <2>1. PairsCost(c, S) = c[<<i, j>>] + PairsCost(c, Without(S, i, j))
    BY PairsCostLast
  <2> QED  BY <2>1 DEF s, w, v, W
<1>3. k \in Nat /\ w \in Nat /\ v \in Nat
  <2>1. i - 1 \in 0 .. a /\ j - 1 \in 0 .. b /\ <<i, j>> \in (1 .. a) \X (1 .. b)
    BY <1>1
  <2>2. w \in Nat
    <3> HIDE DEF W
    <3> QED  BY <1>1, <2>1, PairsCostNat
  <2> QED  BY <2>1, <2>2, PairingType DEF Costs
<1> HIDE DEF k, l, s, w, v
<1> DEFINE e == i + j - 2 * k
<1>4. e \in Int /\ (i - 1) + (j - 1) - 2 * l = e
  BY <1>1, <1>3
<1> HIDE DEF e
<1>5. e * u \in Int
  BY <1>4
<1>6. /\ Weight(c, u, S, i, j) = s + e * u
      /\ Weight(c, u, W, i - 1, j - 1) = w + ((i - 1) + (j - 1) - 2 * l) * u
  BY DEF Weight, k, l, s, w, e
<1>7. Weight(c, u, S, i, j) = Weight(c, u, W, i - 1, j - 1) + v
  BY <1>2, <1>3, <1>4, <1>5, <1>6
<1> QED  BY <1>1, <1>7 DEF v

\* Every alignment can be extended by a pair of the next elements.
LEMMA Extended ==
    ASSUME NEW i \in Nat \ {0}, NEW j \in Nat \ {0}, NEW W \in Pairings(i - 1, j - 1)
    PROVE  \E S \in Pairings(i, j) : i \in S[1] /\ j \in S[2] /\ Without(S, i, j) = W
<1> DEFINE S == <<W[1] \cup {i}, W[2] \cup {j}>>
<1>1. /\ W = <<W[1], W[2]>> /\ W[1] \subseteq 1 .. i - 1 /\ W[2] \subseteq 1 .. j - 1
      /\ IsFiniteSet(W[1]) /\ IsFiniteSet(W[2]) /\ Cardinality(W[2]) = Cardinality(W[1])
  BY PairingType, i - 1 \in Nat, j - 1 \in Nat
<1>2. i \notin W[1] /\ j \notin W[2]
  BY <1>1
<1>3. Cardinality(W[1] \cup {i}) = Cardinality(W[1]) + 1
      /\ Cardinality(W[2] \cup {j}) = Cardinality(W[2]) + 1
  BY <1>1, <1>2, FS_AddElement
<1>4. W[1] \cup {i} \subseteq 1 .. i /\ W[2] \cup {j} \subseteq 1 .. j
  BY <1>1
<1>5. S \in Pairings(i, j)
  BY <1>1, <1>3, <1>4 DEF Pairings
<1>6. (W[1] \cup {i}) \ {i} = W[1] /\ (W[2] \cup {j}) \ {j} = W[2]
  BY <1>2
<1>7. Without(S, i, j) = W
  BY <1>1, <1>6 DEF Without
<1> QED  BY <1>5, <1>7

(* Each cell holds the least cost of the alignments of what is before it.  *)
LEMMA CellMinimal ==
    ASSUME NEW a \in Nat, NEW b \in Nat, NEW u \in Nat, NEW c \in Costs(a, b, u),
           NEW f, IsTable(f, a, b, u, c)
    PROVE  \A i \in 0 .. a, j \in 0 .. b :
               /\ \A S \in Pairings(i, j) : f[<<i, j>>] <= Weight(c, u, S, i, j)
               /\ \E S \in Pairings(i, j) : f[<<i, j>>] = Weight(c, u, S, i, j)
<1> DEFINE Lower(i, j) == \A S \in Pairings(i, j) : f[<<i, j>>] <= Weight(c, u, S, i, j)
           Reached(i, j) == \E S \in Pairings(i, j) : f[<<i, j>>] = Weight(c, u, S, i, j)
           Good(i, j) == Lower(i, j) /\ Reached(i, j)
           C == {x \in Cells(a, b) : Good(x[1], x[2])}
<1>0. /\ \A i \in 0 .. a : f[<<i, 0>>] = i * u
      /\ \A j \in 0 .. b : f[<<0, j>>] = j * u
      /\ f[<<0, 0>>] = 0
      /\ \A i \in 1 .. a, j \in 1 .. b :
            f[<<i, j>>] = IF c[<<i, j>>] = 0 THEN f[<<i - 1, j - 1>>]
                          ELSE cheapest(f[<<i - 1, j>>] + u, f[<<i, j - 1>>] + u,
                                        f[<<i - 1, j - 1>>] + c[<<i, j>>])
  <2>1. /\ \A i \in 0 .. a : f[<<i, 0>>] = i * u
        /\ \A j \in 0 .. b : f[<<0, j>>] = j * u
        /\ \A i \in 1 .. a, j \in 1 .. b :
              f[<<i, j>>] = IF c[<<i, j>>] = 0 THEN f[<<i - 1, j - 1>>]
                            ELSE cheapest(f[<<i - 1, j>>] + u, f[<<i, j - 1>>] + u,
                                          f[<<i - 1, j - 1>>] + c[<<i, j>>])
    BY CellAt
  <2>2. f[<<0, 0>>] = 0 * u
    BY <2>1
  <2> QED  BY <2>1, <2>2
<1>1. \A i \in 0 .. a, j \in 0 .. b : <<i, j>> \in C <=> Good(i, j)
  BY DEF Cells
<1>2. ASSUME NEW i \in 0 .. a, NEW j \in 0 .. b,
             \A k \in 0 .. a, l \in 0 .. b : k + l < i + j => Good(k, l)
      PROVE  Good(i, j)
  <2> DEFINE here == f[<<i, j>>]
             up == f[<<i - 1, j>>]
             left == f[<<i, j - 1>>]
             diag == f[<<i - 1, j - 1>>]
             v == c[<<i, j>>]
  <2>1. /\ i # 0 => i - 1 \in 0 .. a /\ Good(i - 1, j) /\ i = (i - 1) + 1 /\ (i - 1) + 1 <= a
        /\ j # 0 => j - 1 \in 0 .. b /\ Good(i, j - 1) /\ j = (j - 1) + 1 /\ (j - 1) + 1 <= b
        /\ i # 0 /\ j # 0 => Good(i - 1, j - 1)
    <3>1. /\ i # 0 => i - 1 \in 0 .. a /\ i - 1 + j < i + j /\ i = (i - 1) + 1 /\ (i - 1) + 1 <= a
          /\ j # 0 => j - 1 \in 0 .. b /\ i + (j - 1) < i + j /\ j = (j - 1) + 1 /\ (j - 1) + 1 <= b
          /\ i # 0 /\ j # 0 => i - 1 + (j - 1) < i + j
      OBVIOUS
    <3> HIDE DEF Good
    <3> QED  BY <1>2, <3>1
  <2>2. /\ here \in Nat
        /\ i # 0 => up \in Nat /\ here <= up + u
        /\ j # 0 => left \in Nat /\ here <= left + u
        /\ i # 0 /\ j # 0 => diag \in Nat /\ v \in 0 .. u
    <3>1. i # 0 /\ j # 0 => v \in 0 .. u
      BY DEF Costs
    <3> QED  BY <2>1, <3>1, TableBounds, TableSmooth
  <2>3. i # 0 /\ j # 0 => here = IF v = 0 THEN diag ELSE cheapest(up + u, left + u, diag + v)
    <3>1. i # 0 /\ j # 0 => i \in 1 .. a /\ j \in 1 .. b
      OBVIOUS
    <3> QED  BY <1>0, <3>1
  <2>4. i # 0 /\ j # 0 => here <= diag + v
    <3> SUFFICES ASSUME i # 0, j # 0 PROVE here <= diag + v
      OBVIOUS
    <3> HIDE DEF here, up, left, diag, v
    <3>1. up + u \in Nat /\ left + u \in Nat /\ diag + v \in Nat
      BY <2>2
    <3>2. cheapest(up + u, left + u, diag + v) <= diag + v
      BY <3>1, Cheapest
    <3> QED  BY <2>2, <2>3, <3>2
  <2>5. Lower(i, j)
    <3> SUFFICES ASSUME NEW S \in Pairings(i, j) PROVE here <= Weight(c, u, S, i, j)
      OBVIOUS
    <3>0. /\ S[1] \subseteq 1 .. i /\ S[2] \subseteq 1 .. j /\ IsFiniteSet(S[1])
          /\ IsFiniteSet(S[2])
          /\ Cardinality(S[2]) = Cardinality(S[1])
      BY PairingType
    <3>1. CASE i \in S[1] /\ j \in S[2]
      <4> DEFINE W == Without(S, i, j)
                 x == Weight(c, u, W, i - 1, j - 1)
      <4>1. /\ i # 0 /\ j # 0 /\ W \in Pairings(i - 1, j - 1)
            /\ Weight(c, u, S, i, j) = x + v
        BY <3>1, WeightPaired
      <4>2. diag <= x
        BY <2>1, <4>1
      <4>3. x \in Int
        BY <2>1, <4>1, WeightAlone
      <4> HIDE DEF here, diag, v, x
      <4> QED  BY <2>2, <2>4, <4>1, <4>2, <4>3
    <3>2. CASE i \notin S[1] /\ i # 0
      <4> DEFINE x == Weight(c, u, S, i - 1, j)
      <4>1. S \in Pairings(i - 1, j)
        BY <3>0, <3>2 DEF Pairings
      <4>2. x \in Int /\ Weight(c, u, S, i, j) = x + u
        <5> DEFINE k == i - 1
        <5>1. k \in 0 .. a /\ k + 1 <= a /\ k + 1 = i /\ S \in Pairings(k, j)
          BY <2>1, <3>2, <4>1
        <5> HIDE DEF k
        <5>2. Weight(c, u, S, k, j) \in Int /\ Weight(c, u, S, k + 1, j) = Weight(c, u, S, k, j) + u
          BY <5>1, WeightAlone
        <5> QED  BY <5>1, <5>2 DEF k
      <4>3. up <= x
        BY <2>1, <3>2, <4>1
      <4> HIDE DEF here, up, x
      <4> QED  BY <2>2, <3>2, <4>2, <4>3
    <3>3. CASE j \notin S[2] /\ j # 0
      <4> DEFINE x == Weight(c, u, S, i, j - 1)
      <4>1. S \in Pairings(i, j - 1)
        BY <3>0, <3>3 DEF Pairings
      <4>2. x \in Int /\ Weight(c, u, S, i, j) = x + u
        <5> DEFINE k == j - 1
        <5>1. k \in 0 .. b /\ k + 1 <= b /\ k + 1 = j /\ S \in Pairings(i, k)
          BY <2>1, <3>3, <4>1
        <5> HIDE DEF k
        <5>2. Weight(c, u, S, i, k) \in Int /\ Weight(c, u, S, i, k + 1) = Weight(c, u, S, i, k) + u
          BY <5>1, WeightAlone
        <5> QED  BY <5>1, <5>2 DEF k
      <4>3. left <= x
        BY <2>1, <3>3, <4>1
      <4> HIDE DEF here, left, x
      <4> QED  BY <2>2, <3>3, <4>2, <4>3
    <3>4. CASE i = 0 /\ j = 0
      <4>1. S[1] = {}
        BY <3>0, <3>4
      <4>2. Weight(c, u, S, i, j) = 0
        BY <3>4, <4>1, FS_EmptySet, PairsCostNat DEF Weight
      <4>3. here = 0
        BY <1>0, <3>4
      <4> QED  BY <4>2, <4>3
    <3>5. (i = 0 \/ j = 0) => i \notin S[1] /\ j \notin S[2]
      <4>1. (S[1] = {} <=> Cardinality(S[1]) = 0) /\ (S[2] = {} <=> Cardinality(S[2]) = 0)
        BY <3>0, FS_EmptySet
      <4>2. (i = 0 => S[1] = {}) /\ (j = 0 => S[2] = {})
        BY <3>0
      <4> QED  BY <3>0, <4>1, <4>2
    <3> QED  BY <3>1, <3>2, <3>3, <3>4, <3>5
  <2>6. Reached(i, j)
    <3>1. CASE i # 0 /\ here = up + u
      <4>1. PICK S \in Pairings(i - 1, j) : up = Weight(c, u, S, i - 1, j)
        BY <2>1, <3>1
      <4>2. S \in Pairings(i, j) /\ Weight(c, u, S, i, j) = here
        <5> HIDE DEF here, up
        <5> QED  BY <2>1, <3>1, <4>1, WeightAlone
      <4> QED  BY <4>2
    <3>2. CASE j # 0 /\ here = left + u
      <4>1. PICK S \in Pairings(i, j - 1) : left = Weight(c, u, S, i, j - 1)
        BY <2>1, <3>2
      <4>2. S \in Pairings(i, j) /\ Weight(c, u, S, i, j) = here
        <5> HIDE DEF here, left
        <5> QED  BY <2>1, <3>2, <4>1, WeightAlone
      <4> QED  BY <4>2
    <3>3. CASE i # 0 /\ j # 0 /\ here = diag + v
      <4>1. PICK W \in Pairings(i - 1, j - 1) : diag = Weight(c, u, W, i - 1, j - 1)
        BY <2>1, <3>3
      <4>2. PICK S \in Pairings(i, j) : i \in S[1] /\ j \in S[2] /\ Without(S, i, j) = W
        <5>1. i \in Nat \ {0} /\ j \in Nat \ {0}
          BY <3>3
        <5> QED  BY <4>1, <5>1, Extended
      <4>3. Weight(c, u, S, i, j) = diag + v
        BY <4>1, <4>2, WeightPaired
      <4> QED  BY <3>3, <4>3
    <3>4. CASE i = 0 /\ j = 0
      <4> DEFINE S == <<{}, {}>>
      <4>1. S \in Pairings(i, j) /\ S[1] = {}
        BY DEF Pairings
      <4>2. here = 0
        BY <1>0, <3>4
      <4>3. Weight(c, u, S, i, j) = 0
        <5> HIDE DEF S
        <5> QED  BY <3>4, <4>1, FS_EmptySet, PairsCostNat DEF Weight
      <4> QED  BY <4>1, <4>2, <4>3
    <3>5. i # 0 /\ j # 0 => here \in {up + u, left + u, diag + v}
      <4> SUFFICES ASSUME i # 0, j # 0 PROVE here \in {up + u, left + u, diag + v}
        OBVIOUS
      <4> HIDE DEF here, up, left, diag, v
      <4>1. up + u \in Nat /\ left + u \in Nat /\ diag + v \in Nat
        BY <2>2
      <4>2. cheapest(up + u, left + u, diag + v) \in {up + u, left + u, diag + v}
        BY <4>1, Cheapest
      <4>3. v = 0 => diag = diag + v
        BY <2>2
      <4> QED  BY <2>3, <4>2, <4>3
    <3>6. i # 0 /\ j = 0 => here = up + u
      <4> SUFFICES ASSUME i # 0, j = 0 PROVE here = up + u
        OBVIOUS
      <4>1. here = i * u /\ up = (i - 1) * u
        BY <1>0, <2>1
      <4>2. i * u = (i - 1) * u + u
        OBVIOUS
      <4> QED  BY <4>1, <4>2
    <3>7. i = 0 /\ j # 0 => here = left + u
      <4> SUFFICES ASSUME i = 0, j # 0 PROVE here = left + u
        OBVIOUS
      <4>1. here = j * u /\ left = (j - 1) * u
        BY <1>0, <2>1
      <4>2. j * u = (j - 1) * u + u
        OBVIOUS
      <4> QED  BY <4>1, <4>2
    <3> HIDE DEF here, up, left, diag, v, Reached
    <3> QED  BY <3>1, <3>2, <3>3, <3>4, <3>5, <3>6, <3>7
  <2> QED  BY <2>5, <2>6
<1>3. \A i \in 0 .. a, j \in 0 .. b : Good(i, j)
  <2> HIDE DEF Good, C
  <2>1. \A i \in 0 .. a, j \in 0 .. b : <<i, j>> \in C
    BY <1>1, <1>2, CellInduction
  <2> QED  BY <1>1, <2>1
<1> QED  BY <1>3

\* The cost that DistanceMinimal speaks of is that of the table.
LEMMA AlignmentWeight ==
    ASSUME NEW p, NEW q, IsNodes(p), IsNodes(q), NEW S \in Pairings(Len(p), Len(q))
    PROVE  AlignmentCost(p, q, S) = Weight(PathCost(p, q), Unit, S, Len(p), Len(q))
<1> DEFINE a == Len(p)
           b == Len(q)
           c == PathCost(p, q)
           g == PairCost(c, S)
           T == S[1]
           cost(e) == Unit - getNodeSimilarity(p[e], q[Partner(e, S[1], S[2])])
           P(t) == t = [s \in SUBSET T |->
                           IF s = {} THEN 0
                           ELSE LET x == CHOOSE x \in s : TRUE IN cost(x) + t[s \ {x}]]
<1>1. \A e \in T : g[e] = cost(e)
  <2> SUFFICES ASSUME NEW e \in T PROVE g[e] = cost(e)
    OBVIOUS
  <2>1. a \in Nat /\ b \in Nat
    BY DEF IsNodes
  <2>2. Partner(e, S[1], S[2]) \in S[2]
    BY <2>1, PartnerAt
  <2>3. e \in 1 .. a /\ Partner(e, S[1], S[2]) \in 1 .. b
    BY <2>1, <2>2, PairingType
  <2> QED  BY <2>3 DEF PairCost, PathCost
<1>2. \A t : P(t) <=> IsSum(t, g, T)
  <2> SUFFICES ASSUME NEW t PROVE P(t) <=> IsSum(t, g, T)
    OBVIOUS
  <2>1. ASSUME NEW s \in SUBSET T
        PROVE  SumCell(t, g, s) = IF s = {} THEN 0
                                  ELSE LET x == CHOOSE x \in s : TRUE IN cost(x) + t[s \ {x}]
    <3>1. CASE s = {}
      BY <3>1 DEF SumCell
    <3>2. CASE s # {}
      <4> DEFINE x == CHOOSE x \in s : TRUE
      <4>1. x \in s
        BY <3>2
      <4>2. g[x] = cost(x)
        <5> HIDE DEF x, g, cost
        <5> QED  BY <1>1, <4>1
      <4> HIDE DEF g, cost
      <4> QED  BY <3>2, <4>2 DEF SumCell
    <3> QED  BY <3>1, <3>2
  <2> HIDE DEF g, cost
  <2> QED  BY <2>1 DEF IsSum
<1>3. MapThenSumSet(LAMBDA e : Unit - getNodeSimilarity(p[e], q[Partner(e, S[1], S[2])]), S[1])
        = (CHOOSE t : P(t))[T]
  BY DEF MapThenSumSet, MapThenFoldSet
<1>4. (CHOOSE t : P(t)) = CHOOSE t : IsSum(t, g, T)
  <2> HIDE DEF P, g
  <2> QED  BY <1>2
<1>5. PairsCost(c, S) = (CHOOSE t : P(t))[T]
  BY <1>4 DEF PairsCost
<1> QED  BY <1>3, <1>5 DEF AlignmentCost, Weight

\* An element that none is below is the minimum.
LEMMA MinIs ==
    ASSUME NEW T \in SUBSET Int, NEW m \in T, \A x \in T : m <= x
    PROVE  Min(T) = m
<1> DEFINE Least(e) == e \in T /\ \A x \in T : e <= x
<1>1. Min(T) = CHOOSE e : Least(e)
  BY DEF Min
<1>2. Least(m)
  OBVIOUS
<1>3. Least(CHOOSE e : Least(e))
  <2> HIDE DEF Least
  <2> QED  BY <1>2
<1>4. Least(Min(T))
  BY <1>1, <1>3
<1>5. Min(T) <= m /\ m <= Min(T) /\ Min(T) \in Int /\ m \in Int
  BY <1>4
<1> QED  BY <1>5

(* pathDistance is the least cost of any alignment of the two paths.       *)
LEMMA LeastAlignment ==
    ASSUME Unit \in Nat, NEW p, NEW q, IsNodes(p), IsNodes(q)
    PROVE  pathDistance(p, q) = Min({AlignmentCost(p, q, S) : S \in Pairings(Len(p), Len(q))})
<1> DEFINE a == Len(p)
           b == Len(q)
           c == PathCost(p, q)
           w(S) == Weight(c, Unit, S, a, b)
           d == pathDistance(p, q)
           T == {AlignmentCost(p, q, S) : S \in Pairings(a, b)}
<1>1. a \in 0 .. a /\ b \in 0 .. b /\ a \in Nat /\ b \in Nat /\ c \in Costs(a, b, Unit)
  BY PathCostType DEF IsNodes
<1>2. PICK f : IsTable(f, a, b, Unit, c) /\ d = f[<<a, b>>]
  BY PathDistanceCell
<1>3. /\ \A S \in Pairings(a, b) : d <= w(S)
      /\ \E S \in Pairings(a, b) : d = w(S)
  <2> HIDE DEF a, b, c, d
  <2> QED  BY <1>1, <1>2, CellMinimal
<1>4. \A S \in Pairings(a, b) : AlignmentCost(p, q, S) = w(S)
  BY AlignmentWeight
<1>5. \A S \in Pairings(a, b) : w(S) \in Int
  <2> HIDE DEF a, b, c
  <2> QED  BY <1>1, WeightAlone
<1> HIDE DEF w, d
<1>6. T \subseteq Int /\ d \in T /\ \A x \in T : d <= x
  BY <1>3, <1>4, <1>5
<1> HIDE DEF T
<1>7. d = Min(T)
  BY <1>6, MinIs
<1> QED  BY <1>7 DEF d, T

-----------------------------------------------------------------------------
(* The graphs of the two versions (BuildGraph).                            *)

(* The inductive invariant: what the visited blocks have left behind.      *)

Todo(v) == IF building = v THEN todo ELSE {}
Built(v) == v = "old" \/ building # "old"
Leads(f, b, m) == Numbers(f.succs[b]) /\ \E i \in DOMAIN f.succs[b] : f.succs[b][i] = m

\* A visited block has its type, any other the one it was made with.
TypesOf(v) == types[v] =
    [b \in BlocksOf(function[v]) |->
        IF b \in Todo(v) THEN FirstType(function[v], b)
        ELSE Type(function[v].succs[b], FirstType(function[v], b))]

\* A number was written by a visited block that leads there, or not at all.
NumberOf(v, m) ==
    \/ /\ selectNum[v][m] = 0
       /\ \A b \in BlocksOf(function[v]) \ Todo(v) : ~Leads(function[v], b, m)
    \/ \E b \in BlocksOf(function[v]) \ Todo(v) :
           Leads(function[v], b, m) /\ selectNum[v][m] = Last(function[v].succs[b], m)
NumbersOf(v) == /\ selectNum[v] = [m \in BlocksOf(function[v]) |-> selectNum[v][m]]
                /\ \A m \in BlocksOf(function[v]) : NumberOf(v, m)

Shape == /\ building \in {"old", "new", "none"}
         /\ types = [v \in BothVersions |-> types[v]]
         /\ selectNum = [v \in BothVersions |-> selectNum[v]]
         /\ todo \subseteq IF building = "none" THEN {} ELSE BlocksOf(function[building])

GraphInv == /\ Shape
        /\ \A v \in BothVersions : Built(v) => TypesOf(v) /\ NumbersOf(v)

-----------------------------------------------------------------------------
\* A step of the comparison leaves the graphs alone.
LEMMA GraphStays == GraphInv /\ UNCHANGED graphVars => GraphInv'
BY DEF GraphInv, Shape, Built, TypesOf, NumbersOf, NumberOf, Todo, Leads, BlocksOf,
   graphVars

\* At first the blocks of the old graph have the types they were made with.
LEMMA GraphInitInv == MappingInit => GraphInv
<1> SUFFICES ASSUME MappingInit PROVE GraphInv
  OBVIOUS
<1>1. GraphInit
  BY DEF MappingInit
<1>2. building = "old" /\ todo = BlocksOf(function["old"])
  BY <1>1 DEF GraphInit
<1>3. types["old"] = [b \in BlocksOf(function["old"]) |-> FirstType(function["old"], b)]
      /\ types = [v \in BothVersions |-> types[v]]
  BY <1>1 DEF GraphInit, BothVersions
<1>4. selectNum["old"] = [b \in BlocksOf(function["old"]) |-> 0]
      /\ selectNum = [v \in BothVersions |-> selectNum[v]]
  BY <1>1 DEF GraphInit, BothVersions
<1>5. TypesOf("old") /\ NumbersOf("old")
  BY <1>2, <1>3, <1>4 DEF TypesOf, NumbersOf, NumberOf, Todo
<1> QED  BY <1>2, <1>3, <1>4, <1>5 DEF GraphInv, Shape, Built, BothVersions

(* A visit gives one block its type and writes the numbers of the blocks   *)
(* it leads to, over those that other blocks have written.                 *)
LEMMA VisitKeeps ==
    ASSUME GraphInv, NEW c \in todo, VisitBlock(c), building \in BothVersions
    PROVE  GraphInv'
<1> DEFINE w == building
           f == function[w]
<1>1. /\ todo' = todo \ {c} /\ function' = function /\ building' = building
      /\ types' = [types EXCEPT ![w][c] = Type(f.succs[c], @)]
      /\ selectNum' = [selectNum EXCEPT ![w] =
            [m \in DOMAIN @ |-> IF Leads(f, c, m) THEN Last(f.succs[c], m) ELSE @[m]]]
  BY DEF VisitBlock, Leads
<1>2. Built(w) /\ TypesOf(w) /\ NumbersOf(w)
  BY DEF Built, GraphInv, BothVersions
<1>3. Shape'
  BY <1>1 DEF GraphInv, Shape
<1>4. ASSUME NEW v \in BothVersions, v # w, Built(v)' PROVE TypesOf(v)' /\ NumbersOf(v)'
  <2>1. Built(v) /\ TypesOf(v) /\ NumbersOf(v)
    BY <1>1, <1>4 DEF Built, GraphInv
  <2>2. types'[v] = types[v] /\ selectNum'[v] = selectNum[v]
    BY <1>1, <1>4 DEF GraphInv, Shape
  <2> QED  BY <1>1, <1>4, <2>1, <2>2 DEF TypesOf, NumbersOf, NumberOf, Todo
<1>5. TypesOf(w)'
  <2>1. types'[w] = [types[w] EXCEPT ![c] = Type(f.succs[c], @)]
    BY <1>1 DEF GraphInv, Shape
  <2> QED  BY <1>1, <1>2, <2>1 DEF TypesOf, Todo
<1>6. NumbersOf(w)'
  <2>1. DOMAIN selectNum[w] = BlocksOf(f)
    BY <1>2 DEF NumbersOf
  <2>2. selectNum'[w] = [m \in BlocksOf(f) |-> IF Leads(f, c, m) THEN Last(f.succs[c], m)
                                             ELSE selectNum[w][m]]
    BY <1>1, <2>1 DEF GraphInv, Shape
  <2>3. ASSUME NEW m \in BlocksOf(f) PROVE NumberOf(w, m)'
    <3>1. NumberOf(w, m)
      BY <1>2 DEF NumbersOf
    <3>2. c \in BlocksOf(f) \ Todo(w)' /\ Todo(w)' = Todo(w) \ {c} /\ f' = f
          /\ BlocksOf(f)' = BlocksOf(f)
      BY <1>1 DEF Todo, GraphInv, Shape, BlocksOf, BothVersions
    <3>3. selectNum'[w][m] = IF Leads(f, c, m) THEN Last(f.succs[c], m) ELSE selectNum[w][m]
      BY <2>2
    <3>4. CASE Leads(f, c, m)
      <4>1. /\ c \in BlocksOf(f) \ Todo(w)' /\ Leads(f, c, m)
            /\ selectNum'[w][m] = Last(f.succs[c], m)
        BY <3>2, <3>3, <3>4
      <4> QED  BY <1>1, <3>2, <4>1 DEF NumberOf
    <3>5. CASE ~Leads(f, c, m) /\ selectNum[w][m] = 0
                /\ \A b \in BlocksOf(f) \ Todo(w) : ~Leads(f, b, m)
      <4>1. selectNum'[w][m] = 0 /\ \A b \in BlocksOf(f) \ Todo(w)' : ~Leads(f, b, m)
        BY <3>2, <3>3, <3>5
      <4> QED  BY <1>1, <3>2, <4>1 DEF NumberOf
    <3>6. CASE ~Leads(f, c, m) /\ \E b \in BlocksOf(f) \ Todo(w) :
                   Leads(f, b, m) /\ selectNum[w][m] = Last(f.succs[b], m)
      <4>1. \E b \in BlocksOf(f) \ Todo(w)' :
                Leads(f, b, m) /\ selectNum'[w][m] = Last(f.succs[b], m)
        BY <3>2, <3>3, <3>6
      <4> QED  BY <1>1, <3>2, <4>1 DEF NumberOf
    <3> QED  BY <3>1, <3>4, <3>5, <3>6 DEF NumberOf
  <2> QED  BY <1>1, <2>2, <2>3 DEF NumbersOf
<1> QED  BY <1>1, <1>3, <1>4, <1>5, <1>6 DEF GraphInv

\* The new graph is begun when the old one has no block left.
LEMMA NextGraphKeeps == GraphInv /\ NextGraph => GraphInv'
<1> SUFFICES ASSUME GraphInv, NextGraph PROVE GraphInv'
  OBVIOUS
<1>1. building # "none" /\ todo = {} /\ function' = function
  BY DEF NextGraph
<1>2. Todo("old") = {} /\ Todo("new") = {}
  BY <1>1 DEF Todo
<1>3. CASE building = "old"
  <2>1. /\ building' = "new" /\ todo' = BlocksOf(function["new"])
        /\ types' = [types EXCEPT !["new"] = [b \in BlocksOf(function["new"]) |->
                                                 FirstType(function["new"], b)]]
        /\ selectNum' = [selectNum EXCEPT !["new"] = [b \in BlocksOf(function["new"]) |-> 0]]
    BY <1>1, <1>3 DEF NextGraph, initGraphFromFunction
  <2>2. Shape'
    BY <1>1, <2>1 DEF GraphInv, Shape
  <2>3. TypesOf("old")' /\ NumbersOf("old")'
    <3>1. TypesOf("old") /\ NumbersOf("old")
      BY DEF GraphInv, Built, BothVersions
    <3>2. types'["old"] = types["old"] /\ selectNum'["old"] = selectNum["old"]
      BY <2>1 DEF GraphInv, Shape, BothVersions
    <3>3. Todo("old")' = {}
      BY <2>1 DEF Todo
    <3> QED  BY <1>1, <1>2, <3>1, <3>2, <3>3 DEF TypesOf, NumbersOf, NumberOf
  <2>4. types'["new"] = [b \in BlocksOf(function["new"]) |->
                            FirstType(function["new"], b)]
        /\ selectNum'["new"] = [b \in BlocksOf(function["new"]) |-> 0]
        /\ Todo("new")' = BlocksOf(function["new"])
    BY <2>1 DEF GraphInv, Shape, BothVersions, Todo
  <2>5. TypesOf("new")' /\ NumbersOf("new")'
    BY <1>1, <2>4 DEF TypesOf, NumbersOf, NumberOf
  <2> QED  BY <2>2, <2>3, <2>5 DEF GraphInv, BothVersions
<1>4. CASE building # "old"
  <2>1. building' = "none" /\ UNCHANGED <<todo, types, selectNum>>
    BY <1>1, <1>4 DEF NextGraph
  <2>2. Shape'
    BY <1>1, <2>1 DEF GraphInv, Shape
  <2>3. ASSUME NEW v \in BothVersions PROVE TypesOf(v)' /\ NumbersOf(v)'
    <3>1. TypesOf(v) /\ NumbersOf(v)
      BY <1>4 DEF GraphInv, Built
    <3>2. Todo(v) = {} /\ Todo(v)' = {}
      BY <1>2, <2>1 DEF Todo, BothVersions
    <3> QED  BY <1>1, <2>1, <3>1, <3>2 DEF TypesOf, NumbersOf, NumberOf
  <2> QED  BY <2>2, <2>3 DEF GraphInv
<1> QED  BY <1>3, <1>4

(* In every state the graphs hold what the visited blocks say.             *)
THEOREM GraphInvariant == MappingSpec => []GraphInv
<1>1. GraphInv /\ [MappingNext]_mappingVars => GraphInv'
  <2> SUFFICES ASSUME GraphInv, [MappingNext]_mappingVars PROVE GraphInv'
    OBVIOUS
  <2>1. CASE Build
    <3>1. CASE NextGraph
      BY <3>1, NextGraphKeeps
    <3>2. ASSUME NEW c \in todo, VisitBlock(c) PROVE GraphInv'
      <4>1. CASE building \in BothVersions
        BY <3>2, <4>1, VisitKeeps
      <4>2. CASE building \notin BothVersions
        BY <4>2 DEF GraphInv, Shape, BothVersions
      <4> QED  BY <4>1, <4>2
    <3> QED  BY <2>1, <3>1, <3>2 DEF Build, BuildStep
  <2>2. CASE UNCHANGED graphVars
    BY <2>2, GraphStays
  <2> QED  BY <2>1, <2>2 DEF MappingNext, NextPath, ComparePath, PathDone,
              mappingVars
<1> QED  BY GraphInitInv, <1>1, PTL DEF MappingSpec

\* The graphs of versions of one shape are the same when they are done.
LEMMA GraphsAgree == GraphInv => SameGraph
<1> SUFFICES ASSUME GraphInv, building = "none", SameShape, Agreed(function["new"])
             PROVE  types["old"] = types["new"] /\ selectNum["old"] = selectNum["new"]
  BY DEF SameGraph
<1> DEFINE f == function["new"]
           o == function["old"]
<1>1. \A v \in BothVersions : TypesOf(v) /\ NumbersOf(v) /\ Todo(v) = {}
  BY DEF GraphInv, Built, Todo, BothVersions
<1>2. o.succs = f.succs /\ o.headers = f.headers /\ BlocksOf(o) = BlocksOf(f)
  BY DEF SameShape, BlocksOf
<1>3. types["old"] = types["new"]
  BY <1>1, <1>2 DEF TypesOf, FirstType, BothVersions
<1>4. ASSUME NEW m \in BlocksOf(f) PROVE selectNum["old"][m] = selectNum["new"][m]
  <2>1. NumberOf("old", m) /\ NumberOf("new", m)
    BY <1>1, <1>2 DEF NumbersOf, BothVersions
  <2>2. \A b \in BlocksOf(f) : Leads(o, b, m) <=> Leads(f, b, m)
    BY <1>2 DEF Leads
  <2>3. \A a, b \in BlocksOf(f) : Leads(f, a, m) /\ Leads(f, b, m) =>
            Last(f.succs[a], m) = Last(f.succs[b], m)
    BY DEF Agreed, Leads, Numbers
  <2> QED  BY <1>1, <1>2, <2>1, <2>2, <2>3 DEF NumberOf, BothVersions
<1>5. selectNum["old"] = selectNum["new"]
  <2>1. selectNum["old"] = [m \in BlocksOf(f) |-> selectNum["old"][m]]
    BY <1>1, <1>2 DEF NumbersOf, BothVersions
  <2>2. selectNum["new"] = [m \in BlocksOf(f) |-> selectNum["new"][m]]
    BY <1>1 DEF NumbersOf, BothVersions
  <2> QED  BY <1>4, <2>1, <2>2
<1> QED  BY <1>3, <1>5

(* For all functions and all orders of the blocks: versions of one shape   *)
(* whose branches agree get the same types and numbers (CFG::buildGraph).  *)
THEOREM OrderDoesNotShow == MappingSpec => []SameGraph
BY GraphInvariant, GraphsAgree, PTL

-----------------------------------------------------------------------------
(* The inductive invariant of the map: the entries that are done, and the  *)
(* search that is under way, have found the most similar old path.         *)

OldNodes(k) == Nodes("old", oldPaths[k])
NewNodes(k) == Nodes("new", newPaths[k])

\* (id, sim) is the best of the old paths in K, or no path has any similarity.
BestOf(p, id, sim, K) ==
    /\ sim \in 0 .. Full
    /\ \A k \in K : calculate(p, OldNodes(k)) <= sim
    /\ sim # 0 => id + 1 \in K /\ calculate(p, OldNodes(id + 1)) = sim

Searched == path # << >> =>
    /\ building = "none"
    /\ Len(path_map) < Len(newPaths)
    /\ path = NewNodes(Len(path_map) + 1)
    /\ old_paths = [k \in DOMAIN oldPaths |-> OldNodes(k)]
    /\ n \in 1 .. Len(oldPaths) + 1
    /\ BestOf(path, most_similar_path_id, max_sim, 1 .. n - 1)

Mapped == /\ Len(path_map) \in 0 .. Len(newPaths)
          /\ path_map = [k \in 1 .. Len(path_map) |-> path_map[k]]
          /\ path_map # << >> => building = "none"
          /\ \A k \in DOMAIN path_map :
                BestOf(NewNodes(k), path_map[k].id, path_map[k].sim, DOMAIN oldPaths)

MapInv == /\ GraphInv
          /\ function \in [BothVersions -> Functions]
          /\ Searched
          /\ Mapped

\* A function on 1 .. m is a sequence.
LEMMA SeqOf ==
    ASSUME NEW S, NEW m \in Nat, NEW f \in [1 .. m -> S]
    PROVE  f \in Seq(S) /\ Len(f) = m
OBVIOUS

\* What Append returns.
LEMMA AppendIs ==
    ASSUME NEW S, NEW s \in Seq(S), NEW e
    PROVE  /\ Len(Append(s, e)) = Len(s) + 1
           /\ Append(s, e) = [k \in 1 .. Len(s) + 1 |-> Append(s, e)[k]]
           /\ Append(s, e)[Len(s) + 1] = e
           /\ \A k \in 1 .. Len(s) : Append(s, e)[k] = s[k]
<1> DEFINE U == S \cup {e}
<1>1. s \in Seq(U) /\ e \in U
  <2>1. Len(s) \in Nat /\ s \in [1 .. Len(s) -> U]
    OBVIOUS
  <2> HIDE DEF U
  <2>2. s \in Seq(U)
    BY <2>1, SeqOf
  <2> QED  BY <2>2 DEF U
<1> HIDE DEF U
<1>2. Append(s, e) \in Seq(U) /\ Len(Append(s, e)) = Len(s) + 1
  BY <1>1
<1>3. Append(s, e) = [k \in 1 .. Len(Append(s, e)) |-> Append(s, e)[k]]
  <2> DEFINE t == Append(s, e)
  <2>1. t \in Seq(U)
    BY <1>2
  <2> HIDE DEF t
  <2>2. t \in [1 .. Len(t) -> U]
    BY <2>1
  <2>3. t = [k \in 1 .. Len(t) |-> t[k]]
    BY <2>2
  <2> QED  BY <2>3 DEF t
<1>4. \A k \in 1 .. Len(s) : Append(s, e)[k] = s[k]
  BY <1>1
<1>5. Append(s, e)[Len(s) + 1] = e
  BY <1>1
<1> QED  BY <1>2, <1>3, <1>4, <1>5

\* The paths of a version have nodes and the length that MappingAssumption gives.
LEMMA FunctionPaths ==
    ASSUME function \in [BothVersions -> Functions], NEW v \in BothVersions
    PROVE  /\ Len(function[v].paths) \in Nat
           /\ DOMAIN function[v].paths = 1 .. Len(function[v].paths)
           /\ \A k \in DOMAIN function[v].paths :
                 IsNodes(Nodes(v, function[v].paths[k]))
                 /\ Len(Nodes(v, function[v].paths[k])) \in 1 .. Scale
<1> DEFINE f == function[v]
<1>1. f \in Functions
  OBVIOUS
<1>2. f.paths \in Seq(Seq(BlocksOf(f)))
      /\ (\A k \in DOMAIN f.paths : Len(f.paths[k]) \in 1 .. Scale)
      /\ \A b \in BlocksOf(f) : f.ops[b] \in Seq(STRING) /\ Len(f.ops[b]) \in 1 .. Unit
  BY <1>1, MappingAssumption
<1>3. ASSUME NEW k \in DOMAIN f.paths
      PROVE  IsNodes(Nodes(v, f.paths[k])) /\ Len(Nodes(v, f.paths[k])) \in 1 .. Scale
  <2> DEFINE p == f.paths[k]
             node(b) == [type |-> types[v][b], selectNum |-> selectNum[v][b], ops |-> f.ops[b]]
             q == Nodes(v, p)
  <2>1. p \in Seq(BlocksOf(f)) /\ Len(p) \in 1 .. Scale
    BY <1>2
  <2>2. q = [j \in 1 .. Len(p) |-> node(p[j])]
    BY <2>1 DEF Nodes
  <2>3. Len(q) = Len(p)
    <3> DEFINE S == {node(p[j]) : j \in 1 .. Len(p)}
    <3> HIDE DEF node, q
    <3>1. q \in [1 .. Len(p) -> S]
      BY <2>2
    <3>2. Len(p) \in Nat
      BY <2>1
    <3> HIDE DEF S, p
    <3> QED  BY <3>1, <3>2, SeqOf
  <2>4. \A b \in BlocksOf(f) : IsNode(node(b))
    BY <1>2 DEF IsNode
  <2>5. \A j \in 1 .. Len(p) : p[j] \in BlocksOf(f)
    BY <2>1
  <2>6. IsNodes(q)
    <3> HIDE DEF node, q, p
    <3> QED  BY <2>1, <2>2, <2>3, <2>4, <2>5 DEF IsNodes
  <2> QED  BY <2>1, <2>3, <2>6
<1> QED  BY <1>2, <1>3

\* The similarity of any two of the paths of the functions.
LEMMA Similarities ==
    ASSUME function \in [BothVersions -> Functions],
           NEW i \in DOMAIN newPaths, NEW j \in DOMAIN oldPaths
    PROVE  /\ calculate(NewNodes(i), OldNodes(j)) \in 0 .. Full
           /\ calculate(NewNodes(i), OldNodes(j)) = Full <=> NewNodes(i) = OldNodes(j)
<1>1. /\ IsNodes(NewNodes(i)) /\ Len(NewNodes(i)) \in 1 .. Scale
      /\ IsNodes(OldNodes(j)) /\ Len(OldNodes(j)) \in 1 .. Scale
  BY FunctionPaths DEF NewNodes, OldNodes, newPaths, oldPaths, BothVersions
<1> QED  BY <1>1, MappingAssumption, Calculate

\* A similarity of 1 is not 0.
LEMMA FullPositive == Full \in Nat \ {0}
<1>1. Unit \in Nat \ {0} /\ Scale \in Nat \ {0}
  BY MappingAssumption
<1>2. Unit * Scale \in Nat /\ Unit * Scale >= 1
  BY <1>1
<1> QED  BY <1>2 DEF Full

\* No map holds what is wrong before the graphs are built.
LEMMA InitMapInv == MappingInit => MapInv
<1> SUFFICES ASSUME MappingInit PROVE MapInv
  OBVIOUS
<1>1. GraphInv /\ function \in [BothVersions -> Functions]
  BY GraphInitInv DEF MappingInit, GraphInit
<1>2. Searched /\ path_map = << >>
  BY DEF MappingInit, SimilarityInit, Searched
<1>3. Mapped
  <2>1. Len(newPaths) \in Nat
    BY <1>1, FunctionPaths DEF newPaths, BothVersions
  <2> QED  BY <1>2, <2>1 DEF Mapped
<1> QED  BY <1>1, <1>2, <1>3 DEF MapInv

\* Once the graphs are built, the nodes of the paths stay what they are.
LEMMA NodesStay ==
    ASSUME UNCHANGED graphVars
    PROVE  /\ newPaths' = newPaths /\ oldPaths' = oldPaths
           /\ \A k : NewNodes(k)' = NewNodes(k) /\ OldNodes(k)' = OldNodes(k)
BY DEF graphVars, newPaths, oldPaths, NewNodes, OldNodes, Nodes

\* Building the graphs is over before the first path is looked for.
LEMMA BuildKeeps == MapInv /\ Build => MapInv'
<1> SUFFICES ASSUME MapInv, Build PROVE MapInv'
  OBVIOUS
<1>1. GraphInv' /\ function' = function /\ UNCHANGED <<similarityVars, path_map>>
      /\ building # "none"
  <2>1. CASE NextGraph
    BY <2>1, NextGraphKeeps DEF MapInv, Build, NextGraph
  <2>2. ASSUME NEW c \in todo, VisitBlock(c)
        PROVE  GraphInv' /\ function' = function /\ building # "none"
    <3>1. building \in BothVersions
      BY <2>2 DEF MapInv, GraphInv, Shape, BothVersions
    <3> QED  BY <2>2, <3>1, VisitKeeps DEF MapInv, VisitBlock, BothVersions
  <2> QED  BY <2>1, <2>2 DEF Build, BuildStep
<1>2. path = << >> /\ path_map = << >> /\ path' = << >> /\ path_map' = << >>
  BY <1>1 DEF MapInv, Searched, Mapped, similarityVars
<1>3. Mapped'
  <2>1. newPaths' = newPaths /\ Len(newPaths) \in Nat
    BY <1>1, FunctionPaths DEF MapInv, newPaths, BothVersions
  <2> QED  BY <1>2, <2>1 DEF Mapped
<1> QED  BY <1>1, <1>2, <1>3 DEF MapInv, Searched

\* Taking the next new path starts a search that has compared nothing.
LEMMA NextPathKeeps == MapInv /\ NextPath => MapInv'
<1> SUFFICES ASSUME MapInv, NextPath PROVE MapInv'
  OBVIOUS
<1>1. /\ building = "none" /\ path = << >> /\ Len(path_map) < Len(newPaths)
      /\ path' = NewNodes(Len(path_map) + 1)
      /\ old_paths' = [k \in DOMAIN oldPaths |-> OldNodes(k)]
      /\ n' = 1 /\ most_similar_path_id' = INVALID_PATH_ID /\ max_sim' = 0
      /\ UNCHANGED <<graphVars, path_map>>
  BY DEF NextPath, Start, NewNodes, OldNodes
<1>2. GraphInv' /\ function' = function /\ building' = building
  BY <1>1, GraphStays DEF MapInv, graphVars
<1>3. Mapped'
  BY <1>1, <1>2, NodesStay DEF MapInv, Mapped, BestOf
<1>4. Searched'
  <2>1. 0 \in 0 .. Full /\ Len(oldPaths) \in Nat
    BY FullPositive, FunctionPaths DEF MapInv, oldPaths, BothVersions
  <2>2. 1 .. 1 - 1 = {}
    OBVIOUS
  <2>3. BestOf(path, most_similar_path_id, max_sim, 1 .. n - 1)'
    BY <1>1, <2>1, <2>2 DEF BestOf
  <2> QED  BY <1>1, <1>2, <2>1, <2>3, NodesStay DEF Searched
<1> QED  BY <1>2, <1>3, <1>4 DEF MapInv

\* One old path more: the best one so far, or this one if it is better.
LEMMA ComparePathKeeps == MapInv /\ ComparePath => MapInv'
<1> SUFFICES ASSUME MapInv, ComparePath PROVE MapInv'
  OBVIOUS
<1> DEFINE sim == calculate(path, old_paths[n])
<1>1. /\ path # << >> /\ n <= Len(old_paths) /\ n' = n + 1
      /\ UNCHANGED <<path, old_paths, graphVars, path_map>>
      /\ IF sim > max_sim THEN max_sim' = sim /\ most_similar_path_id' = n - 1
         ELSE max_sim' = max_sim /\ most_similar_path_id' = most_similar_path_id
  BY DEF ComparePath, Compare, isBetter
<1>2. GraphInv' /\ function' = function /\ building' = building
  BY <1>1, GraphStays DEF MapInv, graphVars
<1>3. Mapped'
  BY <1>1, <1>2, NodesStay DEF MapInv, Mapped, BestOf
<1>4. Searched'
  <2>1. /\ building = "none" /\ Len(path_map) < Len(newPaths)
        /\ path = NewNodes(Len(path_map) + 1)
        /\ old_paths = [k \in DOMAIN oldPaths |-> OldNodes(k)]
        /\ n \in 1 .. Len(oldPaths) + 1
        /\ BestOf(path, most_similar_path_id, max_sim, 1 .. n - 1)
    BY <1>1 DEF MapInv, Searched
  <2>2. /\ Len(oldPaths) \in Nat /\ DOMAIN oldPaths = 1 .. Len(oldPaths)
        /\ DOMAIN newPaths = 1 .. Len(newPaths) /\ Len(newPaths) \in Nat /\ Len(path_map) \in Nat
    BY FunctionPaths DEF MapInv, Mapped, oldPaths, newPaths, BothVersions
  <2>3. n \in DOMAIN oldPaths /\ Len(path_map) + 1 \in DOMAIN newPaths
    <3>1. Len(old_paths) = Len(oldPaths)
      <4>1. old_paths \in [1 .. Len(oldPaths) -> {OldNodes(k) : k \in 1 .. Len(oldPaths)}]
        BY <2>1, <2>2
      <4> QED  BY <2>2, <4>1, SeqOf
    <3> QED  BY <1>1, <2>1, <2>2, <3>1
  <2>4. sim = calculate(path, OldNodes(n)) /\ sim \in 0 .. Full
    BY <2>1, <2>3, Similarities DEF MapInv
  <2>5. 1 .. n' - 1 = (1 .. n - 1) \cup {n} /\ (n - 1) + 1 = n /\ n' \in 1 .. Len(oldPaths) + 1
    BY <1>1, <2>2, <2>3
  <2>6. /\ newPaths' = newPaths /\ oldPaths' = oldPaths
        /\ \A k : NewNodes(k)' = NewNodes(k) /\ OldNodes(k)' = OldNodes(k)
    BY <1>1, NodesStay
  <2>7. \A k \in 1 .. n - 1 : calculate(path, OldNodes(k)) \in Int
    <3>1. \A k \in 1 .. n - 1 : k \in DOMAIN oldPaths
      BY <2>1, <2>2
    <3> QED  BY <2>1, <2>3, <3>1, Similarities DEF MapInv
  <2>8. BestOf(path, most_similar_path_id', max_sim', (1 .. n - 1) \cup {n})
    <3> HIDE DEF sim
    <3>1. Full \in Nat /\ max_sim \in 0 .. Full
      BY <2>1, FullPositive DEF BestOf
    <3>2. CASE sim > max_sim
      <4>1. \A k \in 1 .. n - 1 : calculate(path, OldNodes(k)) <= sim
        BY <2>1, <2>4, <2>7, <3>1, <3>2 DEF BestOf
      <4>2. most_similar_path_id' + 1 = n /\ max_sim' = sim
        BY <1>1, <2>5, <3>2
      <4>3. sim <= sim
        BY <2>4, <3>1
      <4> QED  BY <2>4, <4>1, <4>2, <4>3 DEF BestOf
    <3>3. CASE ~ (sim > max_sim)
      <4>1. sim <= max_sim
        BY <2>4, <3>1, <3>3
      <4>2. max_sim' = max_sim /\ most_similar_path_id' = most_similar_path_id
        BY <1>1, <3>3
      <4> QED  BY <2>1, <2>4, <4>1, <4>2 DEF BestOf
    <3> QED  BY <3>2, <3>3
  <2>9. BestOf(path, most_similar_path_id, max_sim, 1 .. n - 1)'
    <3>1. path' = path
      BY <1>1
    <3> QED  BY <2>5, <2>6, <2>8, <3>1 DEF BestOf
  <2> QED  BY <1>1, <1>2, <2>1, <2>5, <2>6, <2>9 DEF Searched
<1> QED  BY <1>2, <1>3, <1>4 DEF MapInv

\* The search is over: the best of all old paths is entered in the map.
LEMMA PathDoneKeeps == MapInv /\ PathDone => MapInv'
<1> SUFFICES ASSUME MapInv, PathDone PROVE MapInv'
  OBVIOUS
<1> DEFINE entry == [id |-> most_similar_path_id, sim |-> max_sim]
           m == Len(path_map)
<1>1. /\ path # << >> /\ n > Len(old_paths) /\ path' = << >>
      /\ path_map' = Append(path_map, entry)
      /\ UNCHANGED graphVars
  BY DEF PathDone
<1>2. GraphInv' /\ function' = function /\ building' = building
  BY <1>1, GraphStays DEF MapInv, graphVars
<1>3. /\ building = "none" /\ m < Len(newPaths)
      /\ path = NewNodes(m + 1)
      /\ old_paths = [k \in DOMAIN oldPaths |-> OldNodes(k)]
      /\ n \in 1 .. Len(oldPaths) + 1
      /\ BestOf(path, most_similar_path_id, max_sim, 1 .. n - 1)
  BY <1>1 DEF MapInv, Searched
<1>4. /\ Len(oldPaths) \in Nat /\ DOMAIN oldPaths = 1 .. Len(oldPaths)
      /\ Len(newPaths) \in Nat /\ m \in Nat
      /\ path_map = [k \in 1 .. m |-> path_map[k]]
      /\ \A k \in 1 .. m : BestOf(NewNodes(k), path_map[k].id, path_map[k].sim, DOMAIN oldPaths)
  BY FunctionPaths DEF MapInv, Mapped, oldPaths, newPaths, BothVersions
<1>5. 1 .. n - 1 = DOMAIN oldPaths
  <2>1. Len(old_paths) = Len(oldPaths)
    <3>1. old_paths \in [1 .. Len(oldPaths) -> {OldNodes(k) : k \in 1 .. Len(oldPaths)}]
      BY <1>3, <1>4
    <3> QED  BY <1>4, <3>1, SeqOf
  <2> QED  BY <1>1, <1>3, <1>4, <2>1
<1>6. path_map \in Seq({path_map[k] : k \in 1 .. m})
  <2>1. path_map \in [1 .. m -> {path_map[k] : k \in 1 .. m}]
    BY <1>4
  <2> HIDE DEF m
  <2> QED  BY <1>4, <2>1, SeqOf
<1>7. /\ Len(path_map') = m + 1
      /\ path_map' = [k \in 1 .. m + 1 |-> path_map'[k]]
      /\ path_map'[m + 1] = entry
      /\ \A k \in 1 .. m : path_map'[k] = path_map[k]
  <2> DEFINE pm == path_map
             S == {path_map[k] : k \in 1 .. m}
  <2>1. pm \in Seq(S) /\ Len(pm) = m /\ path_map' = Append(pm, entry)
    BY <1>1, <1>6
  <2> HIDE DEF entry, pm, S, m
  <2>2. /\ Len(Append(pm, entry)) = m + 1
        /\ Append(pm, entry) = [k \in 1 .. m + 1 |-> Append(pm, entry)[k]]
        /\ Append(pm, entry)[m + 1] = entry
        /\ \A k \in 1 .. m : Append(pm, entry)[k] = pm[k]
    BY <2>1, AppendIs
  <2> QED  BY <2>1, <2>2 DEF pm
<1>8. ASSUME NEW k \in 1 .. m + 1
      PROVE  BestOf(NewNodes(k), path_map'[k].id, path_map'[k].sim, DOMAIN oldPaths)
  <2>1. CASE k = m + 1
    BY <1>3, <1>5, <1>7, <2>1
  <2>2. CASE k # m + 1
    BY <1>4, <1>7, <2>2
  <2> QED  BY <2>1, <2>2
<1>9. /\ newPaths' = newPaths /\ oldPaths' = oldPaths
      /\ \A k : NewNodes(k)' = NewNodes(k) /\ OldNodes(k)' = OldNodes(k)
  BY <1>1, NodesStay
<1>10. Mapped'
  <2>1. m + 1 \in 0 .. Len(newPaths) /\ DOMAIN path_map' = 1 .. m + 1
    BY <1>3, <1>4, <1>7
  <2>2. \A k \in 1 .. m + 1 : BestOf(NewNodes(k), path_map[k].id, path_map[k].sim, DOMAIN oldPaths)'
    <3> HIDE DEF m, entry
    <3> QED  BY <1>8, <1>9 DEF BestOf
  <2> QED  BY <1>2, <1>3, <1>7, <1>9, <2>1, <2>2 DEF Mapped
<1>11. Searched'
  BY <1>1 DEF Searched
<1> QED  BY <1>2, <1>10, <1>11 DEF MapInv

(* In every state the entries are the most similar old paths.              *)
THEOREM MapInvariant == MappingSpec => []MapInv
<1>1. MapInv /\ [MappingNext]_mappingVars => MapInv'
  <2> SUFFICES ASSUME MapInv, [MappingNext]_mappingVars PROVE MapInv'
    OBVIOUS
  <2>1. CASE UNCHANGED mappingVars
    <3>1. UNCHANGED <<graphVars, path, old_paths, n, most_similar_path_id, max_sim, path_map>>
      BY <2>1 DEF mappingVars, similarityVars
    <3>2. GraphInv' /\ function' = function /\ building' = building
      BY <3>1, GraphStays DEF MapInv, graphVars
    <3> QED  BY <3>1, <3>2, NodesStay DEF MapInv, Searched, Mapped, BestOf
  <2> QED  BY <2>1, BuildKeeps, NextPathKeeps, ComparePathKeeps,
              PathDoneKeeps DEF MappingNext
<1> QED  BY InitMapInv, <1>1, PTL DEF MappingSpec

(* For all functions: a path of which no block was changed is mapped to an *)
(* old path just like it, with similarity 1 (SimilarityCalculator::run).   *)
THEOREM UntouchedAreReused == MappingSpec => []UntouchedReused
<1>1. MapInv => UntouchedReused
  <2> SUFFICES ASSUME MapInv, NEW k \in DOMAIN path_map, SameShape, Agreed(function["new"]),
                      \A b \in {newPaths[k][j] : j \in DOMAIN newPaths[k]} :
                          function["old"].ops[b] = function["new"].ops[b]
               PROVE  /\ path_map[k].sim = Full
                      /\ Nodes("old", oldPaths[path_map[k].id + 1]) = Nodes("new", newPaths[k])
    BY DEF UntouchedReused
  <2>1. /\ function \in [BothVersions -> Functions] /\ building = "none"
        /\ k \in DOMAIN newPaths
        /\ BestOf(NewNodes(k), path_map[k].id, path_map[k].sim, DOMAIN oldPaths)
    <3>1. path_map # << >> /\ k \in 1 .. Len(path_map)
      BY DEF MapInv, Mapped
    <3>2. DOMAIN newPaths = 1 .. Len(newPaths) /\ Len(newPaths) \in Nat
      BY FunctionPaths DEF MapInv, newPaths, BothVersions
    <3> QED  BY <3>1, <3>2 DEF MapInv, Mapped
  <2>2. types["old"] = types["new"] /\ selectNum["old"] = selectNum["new"]
    BY <2>1, GraphsAgree DEF MapInv, SameGraph
  <2>3. PICK j \in DOMAIN oldPaths : oldPaths[j] = newPaths[k]
    <3>1. function["old"] \in Functions /\ function["new"] \in Functions
      BY <2>1 DEF BothVersions
    <3>2. Range(oldPaths) = Range(newPaths)
      BY <3>1, MappingAssumption DEF SameShape, oldPaths, newPaths
    <3> QED  BY <2>1, <3>2 DEF Range
  <2>4. OldNodes(j) = NewNodes(k)
    BY <2>2, <2>3 DEF OldNodes, NewNodes, Nodes
  <2>5. calculate(NewNodes(k), OldNodes(j)) = Full
    BY <2>1, <2>4, Similarities
  <2>6. path_map[k].sim = Full
    BY <2>1, <2>5, FullPositive DEF BestOf
  <2>7. /\ path_map[k].id + 1 \in DOMAIN oldPaths
        /\ calculate(NewNodes(k), OldNodes(path_map[k].id + 1)) = Full
    BY <2>1, <2>6, FullPositive DEF BestOf
  <2>8. NewNodes(k) = OldNodes(path_map[k].id + 1)
    BY <2>1, <2>7, Similarities
  <2> QED  BY <2>6, <2>8 DEF NewNodes, OldNodes
<1> QED  BY <1>1, MapInvariant, PTL

(* For all functions: the distance of a path and any old one it was        *)
(* compared with is the least cost of an alignment.                        *)
THEOREM DistancesAreMinimal == MappingSpec => []DistanceMinimal
<1>1. MapInv => DistanceMinimal
  <2> SUFFICES ASSUME MapInv, NEW q \in Compared
               PROVE  pathDistance(path, q) =
                          Min({AlignmentCost(path, q, S) : S \in Pairings(Len(path), Len(q))})
    BY DEF DistanceMinimal
  <2>1. PICK k \in 1 .. n - 1 : q = old_paths[k] /\ path # << >>
    BY DEF Compared
  <2>2. /\ Len(oldPaths) \in Nat /\ DOMAIN oldPaths = 1 .. Len(oldPaths)
        /\ DOMAIN newPaths = 1 .. Len(newPaths) /\ Len(newPaths) \in Nat /\ Len(path_map) \in Nat
    BY FunctionPaths DEF MapInv, Mapped, oldPaths, newPaths, BothVersions
  <2>3. /\ path = NewNodes(Len(path_map) + 1) /\ Len(path_map) + 1 \in DOMAIN newPaths
        /\ q = OldNodes(k) /\ k \in DOMAIN oldPaths
    BY <2>1, <2>2 DEF MapInv, Searched
  <2>4. IsNodes(path) /\ IsNodes(q)
    BY <2>3, FunctionPaths DEF MapInv, NewNodes, OldNodes, newPaths, oldPaths, BothVersions
  <2> QED  BY <2>4, MappingAssumption, LeastAlignment
<1> QED  BY <1>1, MapInvariant, PTL

-----------------------------------------------------------------------------
(* The files between runs (Workspace).                                     *)

Stages == {"initCFG", "read", "old", "new", "open", "dump", "generate", "clean"}
After == {"open", "dump", "generate", "clean"}

-----------------------------------------------------------------------------
(* The inductive invariant, part by part.                                  *)

\* A version that compiles has been compiled, and its paths are its own, in the
\* CFG of the reuse engine and in that of the test engine.
Compiled == /\ pc = "initCFG" => \A s \in Sides : src[s] \notin Broken => ll[s] = src[s]
            /\ pc \in Stages \ {"initCFG"} =>
                  \A s \in Sides : src[s] \notin Broken => cfg[s] = src[s]
            /\ pc \in After /\ src["new"] \notin Broken => engine = src["new"]

\* What does not compile is not run, and the new version is run last.
Ran == /\ pc \in Stages => \A s \in Sides : used[s] # NoFile => src[s] \notin Broken
       /\ pc \in Stages \ After => used["new"] = NoFile

\* An instrumented new version is the current one, and is removed in the end.
Instrumented == ~killed /\ instrumented["new"] # NoFile =>
                    /\ pc \in After
                    /\ instrumented["new"] = src["new"]
                    /\ src["new"] \notin Broken

UsedNew == pc \in After /\ ~killed => used["new"] \in {src["new"], NoFile}

\* The history knows of every run on a new version without paths.
Recorded == pc \in Stages /\ src["new"] \in Broken \cup Pathless => pathless

\* The suite of this run is there until it is read.
Given == pc \in {"initCFG", "read"} => suites[given] # "absent"

\* What is true of the files wherever the sources lie, and what needs cleaning.
Anywhere == TypeOK /\ Given /\ Compiled /\ Ran /\ Recorded /\ SuiteReadable
WorkspaceInv == Anywhere /\ Instrumented /\ UsedNew

-----------------------------------------------------------------------------
(* Initially the user has a suite, and nothing was made from the sources.  *)
LEMMA InitWorkspace == Init => WorkspaceInv
<1> SUFFICES ASSUME Init PROVE WorkspaceInv
  OBVIOUS
<1>1. TypeOK
  <2>1. Nothing \in [Sides -> VersionOrNone]
    BY DEF Nothing, VersionOrNone
  <2>2. suites \in [Suites -> {"absent", "tests", "empty", "unreadable"}] /\ given \in Suites
    BY DEF Init, Suites
  <2>3. {ll, instrumented, exe, cfg, used} \subseteq [Sides -> VersionOrNone]
        /\ engine \in VersionOrNone
    BY <2>1 DEF Init, VersionOrNone
  <2>4. runs \in 0 .. MaxRuns
    BY WorkspaceAssumption DEF Init
  <2> QED
    BY <2>2, <2>3, <2>4 DEF Init, TypeOK
<1>2. Given /\ Compiled /\ Ran /\ Instrumented /\ UsedNew /\ Recorded /\ SuiteReadable
  BY DEF Init, Nothing, NoFile, Compiled, Ran, Instrumented, UsedNew, Recorded, SuiteReadable,
         Given, Stages, After, Suites, Reused, Sides
<1> QED
  BY <1>1, <1>2 DEF WorkspaceInv, Anywhere

(* Every step of the tool or the user keeps the types.                     *)
LEMMA NextTypes == TypeOK /\ Given /\ [Next]_vars => TypeOK'
<1> SUFFICES ASSUME TypeOK, Given, [Next]_vars PROVE TypeOK'
  OBVIOUS
<1> USE WorkspaceAssumption DEF TypeOK, VersionOrNone, NoFile
<1>1. ASSUME NEW s \in Sides, NEW v \in Versions, Edit(s, v) PROVE TypeOK'
  BY <1>1 DEF Edit, built, tests, history
<1>2. ASSUME NEW test \in Suites, setSrcAndFunction(test) PROVE TypeOK'
  BY <1>2 DEF setSrcAndFunction, compileSrcToIR, Sides, Nothing
<1>3. CASE initCFG
  BY <1>3 DEF initCFG, tests, history
<1>4. CASE getTestSuiteFromFile
  BY <1>4 DEF getTestSuiteFromFile, built, history, Given
<1>5. ASSUME NEW s \in Sides, TestEngine(s) PROVE TypeOK'
  BY <1>5 DEF TestEngine, compileSrcToIR, tests, history
<1>6. CASE openSuite
  BY <1>6 DEF openSuite, built, history
<1>7. CASE dumpTestSuiteToFile
  BY <1>7 DEF dumpTestSuiteToFile, Taken, built, history
<1>8. CASE TestGenerator
  BY <1>8 DEF TestGenerator, built, history, Generated, Suites
<1>9. CASE cleanUselessFiles
  BY <1>9 DEF cleanUselessFiles, tests, history, Nothing
<1>10. CASE Restart
  BY <1>10 DEF Restart, built, tests, history
<1>11. CASE Kill
  BY <1>11 DEF Kill, built, tests
<1>12. CASE UNCHANGED vars
  BY <1>12 DEF vars, built, tests, history
<1> QED
  BY <1>1, <1>2, <1>3, <1>4, <1>5, <1>6, <1>7, <1>8, <1>9, <1>10, <1>11, <1>12 DEF Next

(* Every step keeps what is true of the stages of a run, wherever the      *)
(* sources lie.                                                            *)
LEMMA NextAnywhere == Anywhere /\ [Next]_vars => Anywhere'
<1> SUFFICES ASSUME Anywhere, [Next]_vars PROVE Anywhere'
  OBVIOUS
<1>0. TypeOK'
  BY NextTypes DEF Anywhere
<1> DEFINE P == Given /\ Compiled /\ Ran /\ Recorded /\ SuiteReadable
<1> SUFFICES P'
  BY <1>0 DEF Anywhere
<1> USE WorkspaceAssumption DEF Anywhere, TypeOK, VersionOrNone, NoFile, Given,
        Compiled, Ran, Recorded, SuiteReadable, Stages, After, Sides
<1>1. ASSUME NEW s \in Sides, NEW v \in Versions, Edit(s, v) PROVE P'
  BY <1>1 DEF Edit, built, tests, history
<1>2. ASSUME NEW test \in Suites, setSrcAndFunction(test) PROVE P'
  <2>1. pc = "idle" /\ pc' = "initCFG" /\ UNCHANGED <<src, suites, torn>>
    BY <1>2 DEF setSrcAndFunction
  <2>2. \A s \in Sides : src'[s] \notin Broken => ll'[s] = src'[s]
    BY <1>2 DEF setSrcAndFunction, compileSrcToIR
  <2>3. \A s \in Sides : used'[s] = NoFile
    BY <1>2 DEF setSrcAndFunction, Nothing
  <2>4. Given' /\ Recorded' /\ (pathless => pathless')
    BY <1>2 DEF setSrcAndFunction
  <2>5. Compiled' /\ Ran'
    BY <2>1, <2>2, <2>3
  <2>6. SuiteReadable'
    BY <2>1, <2>4
  <2> QED
    BY <2>4, <2>5, <2>6
<1>3. CASE initCFG
  BY <1>3 DEF initCFG, tests, history
<1>4. CASE getTestSuiteFromFile
  BY <1>4 DEF getTestSuiteFromFile, built, history
<1>5. ASSUME NEW s \in Sides, TestEngine(s) PROVE P'
  BY <1>5 DEF TestEngine, compileSrcToIR, tests, history
<1>6. CASE openSuite
  BY <1>6 DEF openSuite, built, history, Suites, Reused
<1>7. CASE dumpTestSuiteToFile
  BY <1>7 DEF dumpTestSuiteToFile, Taken, built, history, Suites, Reused
<1>8. CASE TestGenerator
  BY <1>8 DEF TestGenerator, built, history, Suites, Reused, Generated
<1>9. CASE cleanUselessFiles
  BY <1>9 DEF cleanUselessFiles, tests, history, Nothing
<1>10. CASE Restart
  BY <1>10 DEF Restart, built, tests, history
<1>11. CASE Kill
  BY <1>11 DEF Kill, built, tests
<1>12. CASE UNCHANGED vars
  BY <1>12 DEF vars, built, tests, history
<1> QED
  BY <1>1, <1>2, <1>3, <1>4, <1>5, <1>6, <1>7, <1>8, <1>9, <1>10, <1>11, <1>12 DEF Next

(* In the working directory, every step also keeps what is true of the     *)
(* instrumented new version.                                               *)
LEMMA NextWorkspace == InWorkDir /\ WorkspaceInv /\ [Next]_vars => WorkspaceInv'
<1> SUFFICES ASSUME InWorkDir, WorkspaceInv, [Next]_vars PROVE WorkspaceInv'
  OBVIOUS
<1>0. Anywhere'
  BY NextAnywhere DEF WorkspaceInv
<1> DEFINE P == Instrumented /\ UsedNew
<1> SUFFICES P'
  BY <1>0 DEF WorkspaceInv
<1> USE WorkspaceAssumption DEF WorkspaceInv, Anywhere, TypeOK, VersionOrNone, NoFile,
        Instrumented, UsedNew, Ran, Stages, After, Sides
<1>1. ASSUME NEW s \in Sides, NEW v \in Versions, Edit(s, v) PROVE P'
  BY <1>1 DEF Edit, built, tests, history
<1>2. ASSUME NEW test \in Suites, setSrcAndFunction(test) PROVE P'
  BY <1>2 DEF setSrcAndFunction
<1>3. CASE initCFG
  BY <1>3 DEF initCFG, tests, history
<1>4. CASE getTestSuiteFromFile
  BY <1>4 DEF getTestSuiteFromFile, built, history
<1>5. ASSUME NEW s \in Sides, TestEngine(s) PROVE P'
  BY <1>5 DEF TestEngine, tests, history
<1>6. CASE openSuite
  BY <1>6 DEF openSuite, built, history
<1>7. CASE dumpTestSuiteToFile
  BY <1>7 DEF dumpTestSuiteToFile, built, history
<1>8. CASE TestGenerator
  BY <1>8 DEF TestGenerator, built, history
<1>9. CASE cleanUselessFiles
  BY <1>9 DEF cleanUselessFiles, tests, history, Nothing
<1>10. CASE Restart
  BY <1>10 DEF Restart, built, tests, history
<1>11. CASE Kill
  BY <1>11 DEF Kill, built, tests
<1>12. CASE UNCHANGED vars
  BY <1>12 DEF vars, built, tests, history
<1> QED
  BY <1>1, <1>2, <1>3, <1>4, <1>5, <1>6, <1>7, <1>8, <1>9, <1>10, <1>11, <1>12 DEF Next

-----------------------------------------------------------------------------
(* Wherever the sources lie, what is true of the stages of a run holds in  *)
(* every state of every chain of runs, whatever was edited or killed.      *)
THEOREM AnywhereInvariant == Spec => []Anywhere
<1>1. Init => Anywhere
  BY InitWorkspace DEF WorkspaceInv
<1> QED
  BY <1>1, NextAnywhere, PTL DEF Spec

(* In the working directory the whole invariant does.                      *)
THEOREM WorkspaceInvariant == InWorkDir => (Spec => []WorkspaceInv)
<1> SUFFICES ASSUME InWorkDir PROVE Spec => []WorkspaceInv
  OBVIOUS
<1>1. WorkspaceInv /\ [Next]_vars => WorkspaceInv'
  BY NextWorkspace
<1> QED
  BY InitWorkspace, <1>1, PTL DEF Spec

(* The new version that is run is the current one: NewExecutedCurrent, for *)
(* any versions and any number of runs in the working directory.           *)
THEOREM NewIsCurrent == InWorkDir => (Spec => []NewExecutedCurrent)
<1>1. WorkspaceInv => NewExecutedCurrent
  BY DEF WorkspaceInv, Anywhere, UsedNew, Ran, NewExecutedCurrent, Running, After, Stages
<1> QED
  BY <1>1, WorkspaceInvariant, PTL

(* The outputs of its tests are matched with paths that have the same ids  *)
(* in new_cfg and, if no run was killed, are those of the version that was *)
(* run (computeCoverage, and the report of reuseTestSuite).                *)
THEOREM PathsAreOwn == InWorkDir => (Spec => []MatchedWithOwnPaths)
<1>1. WorkspaceInv => MatchedWithOwnPaths
  BY DEF WorkspaceInv, Anywhere, UsedNew, Ran, Compiled, MatchedWithOwnPaths, Running,
     After, Stages, Sides
<1> QED
  BY <1>1, WorkspaceInvariant, PTL

(* A reused suite can be read unless a new version had no paths or a run   *)
(* was killed while it wrote it, wherever the sources lie                  *)
(* (dumpTestSuiteToFile and from_json).                                    *)
THEOREM SuitesAreReadable == Spec => []SuiteReadable
<1>1. Anywhere => SuiteReadable
  BY DEF Anywhere
<1> QED
  BY <1>1, AnywhereInvariant, PTL

(* The types: the suite that a run reads is there when it reads it.        *)
THEOREM WorkspaceTypes == Spec => []TypeOK
<1>1. Anywhere => TypeOK
  BY DEF Anywhere
<1> QED
  BY <1>1, AnywhereInvariant, PTL
===============================================================================
