-------------------------- MODULE ReedSolomonProofs --------------------------
(***************************************************************************)
(* What the erasure code computes, for every number of symbols, when entry *)
(* 255 of the tables holds 1: the elimination keeps its loop invariant and *)
(* fails only when there is no inverse, an inverse it has found restores   *)
(* the block from the symbols received, and which losses leave an inverse. *)
(***************************************************************************)
EXTENDS ReedSolomon, GaloisFieldProofs, SequenceTheorems

Indices(k) == 0..k - 1

Vector(k) == [Indices(k) -> Byte]

Matrix(k) == [Indices(k) -> Vector(k)]

Delta(i, j) == IF i = j THEN One ELSE Zero

(* The product of row vector v and column vector x. *)
Dot(k, v, x) == Sum(k, [j \in Indices(k) |-> Mul(One, v[j], x[j])])

Column(k, r, col) == [j \in Indices(k) |-> r[j][col]]

LEMMA DotType == ASSUME NEW k, NEW v, NEW x PROVE Dot(k, v, x) \in Byte
BY SumType DEF Dot

(* The product depends linearly on the row. *)
LEMMA DotOfMultiple ==
    ASSUME NEW k \in Nat, NEW v \in Vector(k), NEW x \in Vector(k), NEW c \in Byte,
           NEW w, \A j \in Indices(k) : w[j] = Mul(One, v[j], c)
    PROVE  Dot(k, w, x) = Mul(One, Dot(k, v, x), c)
<1> DEFINE f == [j \in Indices(k) |-> Mul(One, v[j], x[j])]
           h == [j \in Indices(k) |-> Mul(One, w[j], x[j])]
<1>1. ASSUME NEW j \in 0..k - 1
      PROVE  f[j] \in Byte /\ h[j] = Mul(One, c, f[j])
  <2>1. v[j] \in Byte /\ x[j] \in Byte /\ w[j] = Mul(One, v[j], c)
    BY DEF Vector, Indices
  <2>2. f[j] = Mul(One, v[j], x[j]) /\ h[j] = Mul(One, w[j], x[j])
    BY DEF Indices
  <2>3. Mul(One, Mul(One, v[j], c), x[j]) = Mul(One, c, Mul(One, v[j], x[j]))
    BY <2>1, MulAssociates, MulCommutes
  <2> QED BY <2>1, <2>2, <2>3, MulType
<1> HIDE DEF f, h
<1>2. Sum(k, h) = Mul(One, c, Sum(k, f))
  BY <1>1, SumOfMultiples
<1>3. Dot(k, v, x) = Sum(k, f) /\ Dot(k, w, x) = Sum(k, h)
  BY DEF Dot, f, h
<1> QED BY <1>2, <1>3, SumType, MulCommutes

LEMMA DotOfSum ==
    ASSUME NEW k \in Nat, NEW u \in Vector(k), NEW v \in Vector(k), NEW x \in Vector(k),
           NEW w, \A j \in Indices(k) : w[j] = Xor(u[j], v[j])
    PROVE  Dot(k, w, x) = Xor(Dot(k, u, x), Dot(k, v, x))
<1> DEFINE f == [j \in Indices(k) |-> Mul(One, u[j], x[j])]
           g == [j \in Indices(k) |-> Mul(One, v[j], x[j])]
           h == [j \in Indices(k) |-> Mul(One, w[j], x[j])]
<1>1. ASSUME NEW j \in 0..k - 1
      PROVE  f[j] \in Byte /\ g[j] \in Byte /\ h[j] = Xor(f[j], g[j])
  <2>1. u[j] \in Byte /\ v[j] \in Byte /\ x[j] \in Byte /\ w[j] = Xor(u[j], v[j])
    BY DEF Vector, Indices
  <2>2. /\ f[j] = Mul(One, u[j], x[j]) /\ g[j] = Mul(One, v[j], x[j])
        /\ h[j] = Mul(One, w[j], x[j])
    BY DEF Indices
  <2>3. Mul(One, w[j], x[j]) = Mul(One, x[j], Xor(u[j], v[j]))
    BY <2>1, MulCommutes, XorLaws
  <2>4. Mul(One, x[j], Xor(u[j], v[j])) = Xor(Mul(One, x[j], u[j]), Mul(One, x[j], v[j]))
    BY <2>1, MulDistributes
  <2> QED BY <2>1, <2>2, <2>3, <2>4, MulType, MulCommutes
<1> HIDE DEF f, g, h
<1>2. Sum(k, h) = Xor(Sum(k, f), Sum(k, g))
  BY <1>1, SumOfSums
<1> QED BY <1>2 DEF Dot, f, g, h

(* A unit vector picks an entry. *)
LEMMA DotOfUnit ==
    ASSUME NEW k \in Nat, NEW i \in Indices(k), NEW x \in Vector(k),
           NEW v, \A j \in Indices(k) : v[j] = Delta(i, j)
    PROVE  Dot(k, v, x) = x[i]
<1> DEFINE f == [j \in Indices(k) |-> Mul(One, v[j], x[j])]
<1>1. ASSUME NEW j \in 0..k - 1
      PROVE  f[j] = IF j = i THEN x[i] ELSE Zero
  <2>1. x[j] \in Byte /\ v[j] = Delta(i, j) /\ f[j] = Mul(One, v[j], x[j])
    BY DEF Vector, Indices
  <2> QED BY <2>1, MulOne, MulZero DEF Delta
<1>2. i \in 0..k - 1 /\ x[i] \in Byte
  BY DEF Vector, Indices
<1> HIDE DEF f
<1>3. Sum(k, f) = f[i]
  BY <1>1, <1>2, SumOfOne
<1> QED BY <1>1, <1>2, <1>3 DEF Dot, f

-----------------------------------------------------------------------------
(* The elimination: what the rows received are times id is m *)

Agrees(k, r, m, id) ==
    /\ m \in Matrix(k)
    /\ id \in Matrix(k)
    /\ \A row, col \in Indices(k) : Dot(k, id[row], Column(k, r, col)) = m[row][col]

LEMMA ColumnType ==
    ASSUME NEW k, NEW r \in Matrix(k), NEW col \in Indices(k)
    PROVE  Column(k, r, col) \in Vector(k)
BY DEF Column, Matrix, Vector

LEMMA IdentityAgrees ==
    ASSUME NEW k \in Nat, NEW r \in Matrix(k)
    PROVE  Agrees(k, r, r, Identity(k))
<1>1. Identity(k) \in Matrix(k)
  BY XorLaws DEF Identity, Matrix, Vector, Indices
<1>2. ASSUME NEW row \in Indices(k), NEW col \in Indices(k)
      PROVE  Dot(k, Identity(k)[row], Column(k, r, col)) = r[row][col]
  <2>1. \A j \in Indices(k) : Identity(k)[row][j] = Delta(row, j)
    BY DEF Identity, Indices, Delta
  <2>2. Dot(k, Identity(k)[row], Column(k, r, col)) = Column(k, r, col)[row]
    BY <2>1, ColumnType, DotOfUnit
  <2> QED BY <2>2 DEF Column
<1> QED BY <1>1, <1>2 DEF Agrees

LEMMA SwapAgrees ==
    ASSUME NEW k \in Nat, NEW r \in Matrix(k), NEW m, NEW id, Agrees(k, r, m, id),
           NEW i \in Indices(k), NEW j \in Indices(k)
    PROVE  Agrees(k, r, Swap(m, i, j), Swap(id, i, j))
<1> DEFINE at(row) == IF row = j THEN i ELSE IF row = i THEN j ELSE row
<1>1. ASSUME NEW a \in Matrix(k)
      PROVE  /\ Swap(a, i, j) \in Matrix(k)
             /\ \A row \in Indices(k) : Swap(a, i, j)[row] = a[at(row)]
  BY DEF Swap, Matrix
<1>2. \A row \in Indices(k) : at(row) \in Indices(k)
  OBVIOUS
<1> HIDE DEF at
<1> QED BY <1>1, <1>2 DEF Agrees

LEMMA ScaleRows ==
    ASSUME NEW k \in Nat, NEW i \in Indices(k), NEW c \in Byte, NEW a \in Matrix(k)
    PROVE  /\ Scale(One, a, i, c) \in Matrix(k)
           /\ \A row \in Indices(k) \ {i} : Scale(One, a, i, c)[row] = a[row]
           /\ \A col \in Indices(k) :
                 Scale(One, a, i, c)[i][col] = Mul(One, a[i][col], c)
<1>1. a[i] \in Vector(k) /\ DOMAIN a[i] = Indices(k) /\ DOMAIN a = Indices(k)
  BY DEF Matrix, Vector
<1> DEFINE scaled == [col \in Indices(k) |-> Mul(One, a[i][col], c)]
<1>2. scaled \in Vector(k)
  BY <1>1, MulType DEF Vector
<1>3. Scale(One, a, i, c) = [a EXCEPT ![i] = scaled]
  BY <1>1 DEF Scale
<1>4. \A col \in Indices(k) : scaled[col] = Mul(One, a[i][col], c)
  OBVIOUS
<1> HIDE DEF scaled
<1> QED BY <1>1, <1>2, <1>3, <1>4 DEF Matrix

LEMMA ScaleAgrees ==
    ASSUME NEW k \in Nat, NEW r \in Matrix(k), NEW m, NEW id, Agrees(k, r, m, id),
           NEW i \in Indices(k), NEW c \in Byte
    PROVE  Agrees(k, r, Scale(One, m, i, c), Scale(One, id, i, c))
<1>1. ASSUME NEW a \in Matrix(k)
      PROVE  /\ Scale(One, a, i, c) \in Matrix(k)
             /\ \A row \in Indices(k) \ {i} : Scale(One, a, i, c)[row] = a[row]
             /\ \A col \in Indices(k) :
                   Scale(One, a, i, c)[i][col] = Mul(One, a[i][col], c)
  BY ScaleRows
<1>2. ASSUME NEW row \in Indices(k), NEW col \in Indices(k)
      PROVE  Dot(k, Scale(One, id, i, c)[row], Column(k, r, col)) = Scale(One, m, i, c)[row][col]
  <2>1. CASE row # i
    BY <1>1, <2>1 DEF Agrees
  <2>2. CASE row = i
    <3>1. id[i] \in Vector(k)
      BY DEF Agrees, Matrix
    <3>2. \A j \in Indices(k) : Scale(One, id, i, c)[i][j] = Mul(One, id[i][j], c)
      BY <1>1 DEF Agrees
    <3>3. Column(k, r, col) \in Vector(k)
      BY ColumnType
    <3>4. Dot(k, Scale(One, id, i, c)[i], Column(k, r, col))
            = Mul(One, Dot(k, id[i], Column(k, r, col)), c)
      BY <3>1, <3>2, <3>3, DotOfMultiple
    <3> QED BY <1>1, <2>2, <3>4 DEF Agrees
  <2> QED BY <2>1, <2>2
<1> QED BY <1>1, <1>2 DEF Agrees

LEMMA EliminateRows ==
    ASSUME NEW k \in Nat, NEW i \in Indices(k), NEW factor \in Vector(k), NEW a \in Matrix(k)
    PROVE  /\ Eliminate(One, a, i, factor) \in Matrix(k)
           /\ Eliminate(One, a, i, factor)[i] = a[i]
           /\ \A row \in Indices(k) \ {i}, col \in Indices(k) :
                 Eliminate(One, a, i, factor)[row][col]
                   = Xor(a[row][col], Mul(One, a[i][col], factor[row]))
<1>1. DOMAIN a = Indices(k) /\ \A row \in Indices(k) : DOMAIN a[row] = Indices(k)
  BY DEF Matrix, Vector
<1> DEFINE turned(row) == [col \in Indices(k) |->
                              Xor(a[row][col], Mul(One, a[i][col], factor[row]))]
<1>2. \A row \in Indices(k) : turned(row) \in Vector(k)
  <2> SUFFICES ASSUME NEW row \in Indices(k), NEW col \in Indices(k)
               PROVE  Xor(a[row][col], Mul(One, a[i][col], factor[row])) \in Byte
    BY DEF Vector
  <2>1. a[row][col] \in Byte /\ a[i][col] \in Byte /\ factor[row] \in Byte
    BY DEF Matrix, Vector
  <2> QED BY <2>1, MulType, XorLaws
<1>3. Eliminate(One, a, i, factor)
          = [row \in Indices(k) |-> IF row = i THEN a[row] ELSE turned(row)]
  BY <1>1 DEF Eliminate
<1>4. \A row, col \in Indices(k) :
           turned(row)[col] = Xor(a[row][col], Mul(One, a[i][col], factor[row]))
  OBVIOUS
<1> HIDE DEF turned
<1> QED BY <1>2, <1>3, <1>4 DEF Matrix

LEMMA EliminateAgrees ==
    ASSUME NEW k \in Nat, NEW r \in Matrix(k), NEW m, NEW id, Agrees(k, r, m, id),
           NEW i \in Indices(k), NEW factor \in Vector(k)
    PROVE  Agrees(k, r, Eliminate(One, m, i, factor), Eliminate(One, id, i, factor))
<1>1. ASSUME NEW a \in Matrix(k)
      PROVE  /\ Eliminate(One, a, i, factor) \in Matrix(k)
             /\ Eliminate(One, a, i, factor)[i] = a[i]
             /\ \A row \in Indices(k) \ {i}, col \in Indices(k) :
                   Eliminate(One, a, i, factor)[row][col]
                     = Xor(a[row][col], Mul(One, a[i][col], factor[row]))
  BY EliminateRows
<1>2. ASSUME NEW row \in Indices(k), NEW col \in Indices(k)
      PROVE  Dot(k, Eliminate(One, id, i, factor)[row], Column(k, r, col))
               = Eliminate(One, m, i, factor)[row][col]
  <2>1. CASE row = i
    BY <1>1, <2>1 DEF Agrees
  <2>2. CASE row # i
    <3> DEFINE x == Column(k, r, col)
               part == [j \in Indices(k) |-> Mul(One, id[i][j], factor[row])]
    <3>1. id[i] \in Vector(k) /\ id[row] \in Vector(k) /\ factor[row] \in Byte
      BY DEF Agrees, Matrix, Vector
    <3>2. part \in Vector(k)
      BY <3>1, MulType DEF Vector
    <3>3. \A j \in Indices(k) : part[j] = Mul(One, id[i][j], factor[row])
      OBVIOUS
    <3>4. x \in Vector(k)
      BY ColumnType
    <3> HIDE DEF x, part
    <3>5. Dot(k, part, x) = Mul(One, Dot(k, id[i], x), factor[row])
      BY <3>1, <3>3, <3>4, DotOfMultiple
    <3>6. \A j \in Indices(k) :
             Eliminate(One, id, i, factor)[row][j] = Xor(id[row][j], part[j])
      BY <1>1, <2>2, <3>3 DEF Agrees
    <3>7. Dot(k, Eliminate(One, id, i, factor)[row], x) = Xor(Dot(k, id[row], x), Dot(k, part, x))
      BY <3>1, <3>2, <3>4, <3>6, DotOfSum
    <3>8. Dot(k, id[i], x) = m[i][col] /\ Dot(k, id[row], x) = m[row][col]
      BY DEF Agrees, x
    <3>9. Eliminate(One, m, i, factor)[row][col]
            = Xor(m[row][col], Mul(One, m[i][col], factor[row]))
      BY <1>1, <2>2 DEF Agrees
    <3> QED BY <3>5, <3>7, <3>8, <3>9 DEF x
  <2> QED BY <2>1, <2>2
<1> QED BY <1>1, <1>2 DEF Agrees

-----------------------------------------------------------------------------
(* Rows that tell all columns apart: only zeros are mapped to zeros. *)

Kills(k, r, x) == \A row \in Indices(k) : Dot(k, r[row], x) = Zero

Regular(k, r) ==
    \A x \in Vector(k) : Kills(k, r, x) => \A j \in Indices(k) : x[j] = Zero

LEMMA IdentityRegular ==
    ASSUME NEW k \in Nat
    PROVE  Regular(k, Identity(k))
<1> SUFFICES ASSUME NEW x \in Vector(k), Kills(k, Identity(k), x), NEW row \in Indices(k)
             PROVE  x[row] = Zero
  BY DEF Regular
<1>1. \A j \in Indices(k) : Identity(k)[row][j] = Delta(row, j)
  BY DEF Identity, Indices, Delta
<1>2. Dot(k, Identity(k)[row], x) = x[row]
  BY <1>1, DotOfUnit
<1> QED BY <1>2 DEF Kills

LEMMA SwapRegular ==
    ASSUME NEW k \in Nat, NEW a \in Matrix(k), Regular(k, a),
           NEW i \in Indices(k), NEW j \in Indices(k)
    PROVE  Regular(k, Swap(a, i, j))
<1> SUFFICES ASSUME NEW x \in Vector(k), Kills(k, Swap(a, i, j), x)
             PROVE  Kills(k, a, x)
  BY DEF Regular
<1>1. \A row \in Indices(k) : \E at \in Indices(k) : Swap(a, i, j)[at] = a[row]
  <2>1. Swap(a, i, j)[j] = a[i] /\ Swap(a, i, j)[i] = a[j]
    BY DEF Swap, Matrix
  <2>2. \A row \in Indices(k) : row # i /\ row # j => Swap(a, i, j)[row] = a[row]
    BY DEF Swap, Matrix
  <2> QED BY <2>1, <2>2
<1> QED BY <1>1 DEF Kills

LEMMA ScaleRegular ==
    ASSUME NEW k \in Nat, NEW a \in Matrix(k), Regular(k, a),
           NEW i \in Indices(k), NEW c \in Byte, c # Zero
    PROVE  Regular(k, Scale(One, a, i, c))
<1> SUFFICES ASSUME NEW x \in Vector(k), Kills(k, Scale(One, a, i, c), x)
             PROVE  Kills(k, a, x)
  BY DEF Regular
<1>1. \A row \in Indices(k) \ {i} : Dot(k, a[row], x) = Zero
  BY ScaleRows DEF Kills
<1>2. Dot(k, a[i], x) = Zero
  <2>1. a[i] \in Vector(k)
    BY DEF Matrix
  <2>2. Dot(k, Scale(One, a, i, c)[i], x) = Mul(One, Dot(k, a[i], x), c)
    BY <2>1, ScaleRows, DotOfMultiple
  <2>3. Dot(k, Scale(One, a, i, c)[i], x) = Zero
    BY DEF Kills
  <2> QED BY <2>2, <2>3, DotType, NoZeroDivisors
<1> QED BY <1>1, <1>2 DEF Kills

LEMMA EliminateRegular ==
    ASSUME NEW k \in Nat, NEW a \in Matrix(k), Regular(k, a),
           NEW i \in Indices(k), NEW factor \in Vector(k)
    PROVE  Regular(k, Eliminate(One, a, i, factor))
<1> SUFFICES ASSUME NEW x \in Vector(k), Kills(k, Eliminate(One, a, i, factor), x),
                    NEW row \in Indices(k)
             PROVE  Dot(k, a[row], x) = Zero
  BY DEF Regular, Kills
<1>1. Dot(k, a[i], x) = Zero
  BY EliminateRows DEF Kills
<1>2. CASE row # i
  <2> DEFINE part == [j \in Indices(k) |-> Mul(One, a[i][j], factor[row])]
             turned == Eliminate(One, a, i, factor)[row]
  <2>1. a[i] \in Vector(k) /\ a[row] \in Vector(k) /\ factor[row] \in Byte
    BY DEF Matrix, Vector
  <2>2. part \in Vector(k)
    BY <2>1, MulType DEF Vector
  <2>3. \A j \in Indices(k) : part[j] = Mul(One, a[i][j], factor[row])
    OBVIOUS
  <2>4. \A j \in Indices(k) : turned[j] = Xor(a[row][j], part[j])
    BY <1>2, EliminateRows
  <2>5. Dot(k, turned, x) = Zero
    BY DEF Kills
  <2> HIDE DEF part, turned
  <2>6. Dot(k, part, x) = Mul(One, Dot(k, a[i], x), factor[row])
    BY <2>1, <2>3, DotOfMultiple
  <2>7. Dot(k, turned, x) = Xor(Dot(k, a[row], x), Dot(k, part, x))
    BY <2>1, <2>2, <2>4, DotOfSum
  <2> QED BY <1>1, <2>5, <2>6, <2>7, DotType, MulZero, XorLaws
<1> QED BY <1>1, <1>2

-----------------------------------------------------------------------------
(* The loop invariant of rs_invert_matrix, and that a turn keeps it *)

Eliminated(k, r, m, id, i) ==
    /\ Agrees(k, r, m, id)
    /\ Regular(k, id)
    /\ \A row, col \in Indices(k) : col < i => m[row][col] = Delta(row, col)

(* The pivot's column becomes a unit column, and the earlier ones stay. *)
LEMMA PivotClears ==
    ASSUME NEW k \in Nat, NEW m \in Matrix(k), NEW i \in Indices(k), NEW from \in Indices(k),
           from >= i, m[from][i] # Zero,
           \A row, col \in Indices(k) : col < i => m[row][col] = Delta(row, col),
           NEW m2 \in Matrix(k), m2 = Scale(One, Swap(m, i, from), i, Inv(One, m[from][i])),
           NEW m3, m3 = Eliminate(One, m2, i, Column(k, m2, i))
    PROVE  \A row, col \in Indices(k) : col <= i => m3[row][col] = Delta(row, col)
<1> DEFINE inv == Inv(One, m[from][i])
<1>1. m[from][i] \in Byte /\ inv \in Byte /\ Mul(One, m[from][i], inv) = One
  <2>1. m[from][i] \in Byte
    BY DEF Matrix, Vector
  <2> QED BY <2>1, InvIsInverse
<1> HIDE DEF inv
<1>2. \A col \in Indices(k) : m2[i][col] = Mul(One, m[from][col], inv)
  <2>1. Swap(m, i, from)[i] = m[from] /\ DOMAIN m[from] = Indices(k) /\ i \in DOMAIN Swap(m, i, from)
    BY DEF Swap, Matrix, Vector
  <2>2. m2[i] = [col \in Indices(k) |-> Mul(One, m[from][col], inv)]
    BY <2>1 DEF Scale, inv
  <2> QED BY <2>2
<1>3. \A row \in Indices(k) \ {i} : m2[row] = IF row = from THEN m[i] ELSE m[row]
  BY DEF Scale, Swap, Matrix
<1>4. \A row, col \in Indices(k) :
         m3[row][col] = IF row = i THEN m2[row][col]
                        ELSE Xor(m2[row][col], Mul(One, m2[i][col], m2[row][i]))
  BY DEF Eliminate, Column, Matrix, Vector
<1>5. m2[i][i] = One
  BY <1>1, <1>2
<1>6. ASSUME NEW col \in Indices(k), col < i
      PROVE  /\ m2[i][col] = Zero /\ i # col
             /\ \A row \in Indices(k) \ {i} : m2[row][col] = Delta(row, col)
  <2>1. from # col /\ i # col
    BY <1>6 DEF Indices
  <2>2. m[from][col] = Zero /\ m[i][col] = Zero
    BY <1>6, <2>1 DEF Delta
  <2>3. m2[i][col] = Zero
    BY <1>2, <2>2, MulZero
  <2>4. ASSUME NEW row \in Indices(k), row # i
        PROVE  m2[row][col] = Delta(row, col)
    <3>1. CASE row = from
      BY <1>3, <2>1, <2>2, <2>4, <3>1 DEF Delta
    <3>2. CASE row # from
      BY <1>3, <1>6, <2>4, <3>2
    <3> QED BY <3>1, <3>2
  <2> QED BY <2>1, <2>3, <2>4
<1>7. ASSUME NEW row \in Indices(k), NEW col \in Indices(k), col < i
      PROVE  m3[row][col] = Delta(row, col)
  <2>1. CASE row = i
    BY <1>4, <1>6, <1>7, <2>1 DEF Delta
  <2>2. CASE row # i
    <3>1. m2[i][col] = Zero /\ m2[row][col] = Delta(row, col)
      BY <1>6, <1>7, <2>2
    <3>2. m3[row][col] = Xor(Delta(row, col), Zero)
      BY <1>4, <2>2, <3>1, MulZero
    <3> QED BY <3>2, XorLaws DEF Delta
  <2> QED BY <2>1, <2>2
<1>8. ASSUME NEW row \in Indices(k)
      PROVE  m3[row][i] = Delta(row, i)
  <2>1. CASE row = i
    BY <1>4, <1>5, <2>1 DEF Delta
  <2>2. CASE row # i
    <3>1. m2[row][i] \in Byte
      BY DEF Matrix, Vector
    <3>2. m3[row][i] = Xor(m2[row][i], m2[row][i])
      BY <1>4, <1>5, <2>2, <3>1, MulOne
    <3> QED BY <2>2, <3>1, <3>2, XorLaws DEF Delta
  <2> QED BY <2>1, <2>2
<1>9. \A col \in Indices(k) : col <= i => col < i \/ col = i
  BY DEF Indices
<1> QED BY <1>7, <1>8, <1>9

(* A row that can supply the pivot, and the first of them. *)
LEMMA CandidatesMin ==
    ASSUME NEW k \in Nat, NEW m, DOMAIN m = Indices(k), NEW i \in Indices(k),
           Candidates(m, i) # {}
    PROVE  /\ Min(Candidates(m, i)) \in Indices(k)
           /\ Min(Candidates(m, i)) >= i
           /\ m[Min(Candidates(m, i))][i] # Zero
<1>1. Candidates(m, i) \in SUBSET Nat
  BY DEF Candidates, Indices
<1>2. \E n \in Candidates(m, i) : \A j \in Candidates(m, i) : n <= j
  BY <1>1, LeastNatural
<1>3. Min(Candidates(m, i)) \in Candidates(m, i)
  BY <1>2 DEF Min
<1> HIDE DEF Min
<1> QED BY <1>3 DEF Candidates

(* A turn of rs_invert_matrix's loop, swap, scale and eliminate, keeps the loop
   invariant for one column more. *)
THEOREM PivotKeeps ==
    ASSUME NEW k \in Nat, NEW r \in Matrix(k), NEW m, NEW id, NEW i \in Indices(k),
           Eliminated(k, r, m, id, i), Candidates(m, i) # {}
    PROVE  Eliminated(k, r, Pivoted(One, m, id, i).m, Pivoted(One, m, id, i).id, i + 1)
<1> DEFINE from == Min(Candidates(m, i))
           inv == Inv(One, Swap(m, i, from)[i][i])
           m2 == Scale(One, Swap(m, i, from), i, inv)
           id2 == Scale(One, Swap(id, i, from), i, inv)
           factor == [j \in DOMAIN m2 |-> m2[j][i]]
           m3 == Eliminate(One, m2, i, factor)
           id3 == Eliminate(One, id2, i, factor)
<1>1. Pivoted(One, m, id, i) = [m |-> m3, id |-> id3]
  BY DEF Pivoted
<1>2. m \in Matrix(k) /\ Agrees(k, r, m, id)
  BY DEF Eliminated, Agrees
<1>3. from \in Indices(k) /\ from >= i /\ m[from][i] # Zero
  BY <1>2, CandidatesMin DEF Matrix
<1> HIDE DEF from
<1>4. /\ Swap(m, i, from)[i][i] = m[from][i] /\ m[from][i] \in Byte
      /\ inv \in Byte /\ inv # Zero
  <2>1. Swap(m, i, from)[i] = m[from] /\ m[from][i] \in Byte
    BY <1>2, <1>3 DEF Swap, Matrix, Vector
  <2> QED BY <1>3, <2>1, InvIsInverse, MulZero, XorLaws
<1>5. inv = Inv(One, m[from][i])
  BY <1>4
<1> HIDE DEF inv
<1>6. Agrees(k, r, m2, id2)
  BY <1>2, <1>3, <1>4, SwapAgrees, ScaleAgrees
<1>7. m2 \in Matrix(k) /\ m2 = Scale(One, Swap(m, i, from), i, Inv(One, m[from][i]))
  BY <1>5, <1>6 DEF Agrees
<1>8. id2 \in Matrix(k) /\ Regular(k, id2)
  <2>1. id \in Matrix(k) /\ Regular(k, id) /\ Swap(id, i, from) \in Matrix(k)
    BY <1>2, <1>3, SwapAgrees DEF Eliminated, Agrees
  <2>2. Regular(k, Swap(id, i, from))
    BY <1>3, <2>1, SwapRegular
  <2>3. Regular(k, id2)
    BY <1>4, <2>1, <2>2, ScaleRegular
  <2> QED BY <1>6, <2>3 DEF Agrees
<1> HIDE DEF m2, id2
<1>9. factor = Column(k, m2, i) /\ factor \in Vector(k)
  <2>1. factor = Column(k, m2, i)
    BY <1>7 DEF Column, Matrix
  <2> HIDE DEF factor
  <2> QED BY <1>7, <2>1, ColumnType
<1> HIDE DEF factor
<1>10. Agrees(k, r, m3, id3)
  BY <1>6, <1>9, EliminateAgrees
<1>11. Regular(k, id3)
  BY <1>9, <1>8, EliminateRegular
<1>12. m3 = Eliminate(One, m2, i, Column(k, m2, i))
  BY <1>9
<1> HIDE DEF m3, id3
<1>13. \A row, col \in Indices(k) : col < i => m[row][col] = Delta(row, col)
  BY DEF Eliminated
<1>14. \A row, col \in Indices(k) : col <= i => m3[row][col] = Delta(row, col)
  BY <1>2, <1>3, <1>7, <1>12, <1>13, PivotClears
<1>15. \A col \in Indices(k) : col < i + 1 => col <= i
  BY DEF Indices
<1> QED BY <1>1, <1>10, <1>11, <1>14, <1>15 DEF Eliminated

-----------------------------------------------------------------------------
(* What the inverse does to the symbols received *)

(* A row times a matrix, times a column. *)
LEMMA DotOfDot ==
    ASSUME NEW k \in Nat, NEW r \in Matrix(k), NEW v \in Vector(k), NEW w,
           \A col \in Indices(k) : w[col] = Dot(k, v, Column(k, r, col)),
           NEW x \in Vector(k), NEW y, \A j \in Indices(k) : y[j] = Dot(k, r[j], x)
    PROVE  Dot(k, v, y) = Dot(k, w, x)
<1> DEFINE F == [j \in 0..k - 1 |-> [l \in 0..k - 1 |->
                    Mul(One, v[j], Mul(One, r[j][l], x[l]))]]
           sums == [j \in 0..k - 1 |-> Sum(k, F[j])]
           col(l) == [j \in 0..k - 1 |-> F[j][l]]
           cols == [l \in 0..k - 1 |-> Sum(k, col(l))]
<1>1. \A j, l \in 0..k - 1 :
         /\ v[j] \in Byte /\ r[j][l] \in Byte /\ x[l] \in Byte
         /\ Mul(One, r[j][l], x[l]) \in Byte
         /\ F[j][l] = Mul(One, v[j], Mul(One, r[j][l], x[l])) /\ F[j][l] \in Byte
  <2>1. \A j, l \in 0..k - 1 : v[j] \in Byte /\ r[j][l] \in Byte /\ x[l] \in Byte
    BY DEF Matrix, Vector, Indices
  <2> QED BY <2>1, MulType
<1>2. Sum(k, sums) = Sum(k, cols)
  <2>1. \A j, l \in 0..k - 1 : F[j][l] \in Byte
    BY <1>1
  <2> HIDE DEF F
  <2> QED BY <2>1, SumsCommute, Zenon
<1>3. ASSUME NEW j \in 0..k - 1
      PROVE  Mul(One, v[j], y[j]) = Sum(k, F[j])
  <2> DEFINE f == [l \in Indices(k) |-> Mul(One, r[j][l], x[l])]
  <2>1. \A l \in 0..k - 1 : f[l] \in Byte /\ F[j][l] = Mul(One, v[j], f[l])
    BY <1>1 DEF Indices
  <2>2. y[j] = Sum(k, f) /\ v[j] \in Byte
    BY <1>1 DEF Dot, Indices
  <2> DEFINE h == F[j]
  <2>3. \A l \in 0..k - 1 : f[l] \in Byte /\ h[l] = Mul(One, v[j], f[l])
    BY <2>1
  <2> HIDE DEF f, h
  <2>4. Sum(k, h) = Mul(One, v[j], Sum(k, f))
    BY <2>2, <2>3, SumOfMultiples
  <2> QED BY <2>2, <2>4 DEF h
<1>4. ASSUME NEW l \in 0..k - 1
      PROVE  cols[l] = Mul(One, w[l], x[l])
  <2> DEFINE f == [j \in Indices(k) |-> Mul(One, v[j], Column(k, r, l)[j])]
  <2>1. ASSUME NEW j \in 0..k - 1
        PROVE  f[j] \in Byte /\ col(l)[j] = Mul(One, x[l], f[j])
    <3>1. f[j] = Mul(One, v[j], r[j][l])
      BY DEF Column, Indices
    <3>2. col(l)[j] = Mul(One, v[j], Mul(One, r[j][l], x[l]))
      BY <1>1
    <3>3. Mul(One, v[j], Mul(One, r[j][l], x[l])) = Mul(One, Mul(One, v[j], r[j][l]), x[l])
      BY <1>1, MulAssociates
    <3>4. f[j] \in Byte /\ x[l] \in Byte
      BY <1>1, <3>1, MulType
    <3>5. Mul(One, f[j], x[l]) = Mul(One, x[l], f[j])
      BY <3>4, MulCommutes
    <3> HIDE DEF f, col
    <3> QED BY <3>1, <3>2, <3>3, <3>4, <3>5
  <2>2. Sum(k, f) = w[l]
    BY DEF Dot, Indices
  <2>3. cols[l] = Sum(k, col(l)) /\ x[l] \in Byte
    BY <1>1
  <2> HIDE DEF f, col, cols
  <2>4. cols[l] = Mul(One, x[l], w[l])
    BY <2>1, <2>2, <2>3, SumOfMultiples
  <2> QED BY <2>2, <2>3, <2>4, SumType, MulCommutes
<1>6. Sum(k, cols) = Dot(k, w, x)
  <2> DEFINE f == [l \in Indices(k) |-> Mul(One, w[l], x[l])]
  <2>1. \A l \in 0..k - 1 : cols[l] = f[l]
    BY <1>4 DEF Indices
  <2> HIDE DEF f, cols
  <2>2. Sum(k, cols) = Sum(k, f)
    BY <2>1, SumOfEqual
  <2> QED BY <2>2 DEF Dot, f
<1>7. Dot(k, v, y) = Sum(k, sums)
  <2> DEFINE f == [j \in Indices(k) |-> Mul(One, v[j], y[j])]
  <2>1. \A j \in 0..k - 1 : f[j] = sums[j]
    BY <1>3 DEF Indices
  <2> HIDE DEF f, sums
  <2>2. Sum(k, f) = Sum(k, sums)
    BY <2>1, SumOfEqual
  <2> QED BY <2>2 DEF Dot, f
<1> QED BY <1>2, <1>6, <1>7

(* If id times r is the identity, id undoes r. *)
LEMMA InverseUndoes ==
    ASSUME NEW k \in Nat, NEW r \in Matrix(k), NEW v \in Vector(k), NEW row \in Indices(k),
           \A col \in Indices(k) : Dot(k, v, Column(k, r, col)) = Delta(row, col),
           NEW x \in Vector(k), NEW y, \A j \in Indices(k) : y[j] = Dot(k, r[j], x)
    PROVE  Dot(k, v, y) = x[row]
<1> DEFINE w == [j \in Indices(k) |-> Delta(row, j)]
<1>1. \A j \in Indices(k) : w[j] = Delta(row, j) /\ w[j] = Dot(k, v, Column(k, r, j))
  OBVIOUS
<1> HIDE DEF w
<1>2. Dot(k, v, y) = Dot(k, w, x)
  BY <1>1, DotOfDot
<1> QED BY <1>1, <1>2, DotOfUnit

(* No pivot for column i: what the elimination has so far holds a column, with One
   at i, that the rows received map to zeros. *)
THEOREM NoPivotNoInverse ==
    ASSUME NEW k \in Nat, NEW r \in Matrix(k), NEW m, NEW id, NEW i \in Indices(k),
           Eliminated(k, r, m, id, i), Candidates(m, i) = {}
    PROVE  ~Regular(k, r)
<1> DEFINE x == [j \in Indices(k) |-> IF j < i THEN m[j][i] ELSE Delta(i, j)]
           y == [j \in Indices(k) |-> Dot(k, r[j], x)]
<1>1. m \in Matrix(k) /\ id \in Matrix(k) /\ Agrees(k, r, m, id) /\ Regular(k, id)
  BY DEF Eliminated, Agrees
<1>2. \A row, col \in Indices(k) : m[row][col] \in Byte
  BY <1>1 DEF Matrix, Vector
<1>3. \A row, col \in Indices(k) : col < i => m[row][col] = Delta(row, col)
  BY DEF Eliminated
<1>4. \A row \in Indices(k) : row >= i => m[row][i] = Zero
  BY <1>1 DEF Candidates, Matrix
<1>5. x \in Vector(k) /\ x[i] = One /\ \A j \in Indices(k) :
           /\ j < i => x[j] = m[j][i]
           /\ j > i => x[j] = Zero
  BY <1>2, XorLaws DEF Vector, Delta, Indices
<1>6. y \in Vector(k)
  BY DotType DEF Vector
<1> HIDE DEF x
<1>7. ASSUME NEW row \in Indices(k)
      PROVE  Dot(k, m[row], x) = Zero
  <2> DEFINE f == [j \in Indices(k) |-> Mul(One, m[row][j], x[j])]
  <2>1. \A j \in 0..k - 1 : /\ f[j] = Mul(One, m[row][j], x[j])
                            /\ m[row][j] \in Byte /\ x[j] \in Byte /\ f[j] \in Byte
    BY <1>2, <1>5, MulType DEF Vector, Indices
  <2>2. Dot(k, m[row], x) = Sum(k, f)
    BY DEF Dot
  <2> HIDE DEF f
  <2>3. \A j \in 0..k - 1 : /\ j < i => f[j] = IF j = row THEN m[row][i] ELSE Zero
                            /\ j > i => f[j] = Zero
    <3>1. \A j \in 0..k - 1 : j < i /\ j # row => m[row][j] = Zero
      BY <1>3 DEF Delta, Indices
    <3>2. row < i => m[row][row] = One /\ x[row] = m[row][i]
      BY <1>3, <1>5 DEF Delta
    <3> QED BY <1>2, <1>5, <2>1, <3>1, <3>2, MulOne, MulZero DEF Indices
  <2>4. f[i] = m[row][i] /\ i \in 0..k - 1
    BY <1>2, <1>5, <2>1, MulOne DEF Indices
  <2>5. CASE row < i
    <3>1. row \in 0..k - 1 /\ row # i /\ f[row] = m[row][i]
      BY <2>3, <2>5 DEF Indices
    <3>2. \A j \in 0..k - 1 : j # row /\ j # i => f[j] = Zero
      BY <2>3, <2>4
    <3>3. Sum(k, f) = Xor(f[row], f[i])
      BY <2>1, <2>4, <3>1, <3>2, SumOfPair
    <3> QED BY <1>2, <2>2, <2>4, <3>1, <3>3, XorLaws
  <2>6. CASE row >= i
    <3>1. \A j \in 0..k - 1 : j < i \/ j = i \/ j > i
      BY <2>4
    <3>2. \A j \in 0..k - 1 : f[j] = Zero
      BY <1>4, <2>3, <2>4, <2>6, <3>1
    <3> QED BY <2>2, <3>2, SumOfZeros
  <2> QED BY <2>5, <2>6 DEF Indices
<1>8. Kills(k, id, y)
  <2> SUFFICES ASSUME NEW row \in Indices(k)
               PROVE  Dot(k, id[row], y) = Zero
    BY DEF Kills
  <2>1. id[row] \in Vector(k)
    BY <1>1 DEF Matrix
  <2>2. \A col \in Indices(k) : m[row][col] = Dot(k, id[row], Column(k, r, col))
    BY <1>1 DEF Agrees
  <2>3. \A j \in Indices(k) : y[j] = Dot(k, r[j], x)
    OBVIOUS
  <2> HIDE DEF y
  <2>4. Dot(k, id[row], y) = Dot(k, m[row], x)
    BY <1>5, <2>1, <2>2, <2>3, DotOfDot
  <2> QED BY <1>7, <2>4
<1>9. \A j \in Indices(k) : y[j] = Zero
  BY <1>1, <1>6, <1>8 DEF Regular
<1>10. Kills(k, r, x)
  BY <1>9 DEF Kills
<1> QED BY <1>5, <1>10, XorLaws DEF Regular

(* An inverse that was found maps only zeros to zeros, and so does what it undoes. *)
LEMMA InvertedIsRegular ==
    ASSUME NEW k \in Nat, NEW r \in Matrix(k), NEW m, NEW id, Eliminated(k, r, m, id, k)
    PROVE  Regular(k, r)
<1> SUFFICES ASSUME NEW x \in Vector(k), Kills(k, r, x), NEW row \in Indices(k)
             PROVE  x[row] = Zero
  BY DEF Regular
<1> DEFINE y == [j \in Indices(k) |-> Zero]
<1>1. id[row] \in Vector(k)
  BY DEF Eliminated, Agrees, Matrix
<1>2. ASSUME NEW col \in Indices(k)
      PROVE  Dot(k, id[row], Column(k, r, col)) = Delta(row, col)
  BY DEF Eliminated, Agrees, Indices
<1>3. \A j \in Indices(k) : y[j] = Zero /\ y[j] = Dot(k, r[j], x)
  BY DEF Kills
<1> HIDE DEF y
<1>4. Dot(k, id[row], y) = x[row]
  BY <1>1, <1>2, <1>3, InverseUndoes
<1>5. Dot(k, id[row], y) = Zero
  <2> DEFINE f == [j \in Indices(k) |-> Mul(One, id[row][j], y[j])]
  <2>1. \A j \in 0..k - 1 : f[j] = Zero
    BY <1>1, <1>3, MulZero DEF Vector, Indices
  <2> HIDE DEF f
  <2>2. Sum(k, f) = Zero
    BY <2>1, SumOfZeros
  <2> QED BY <2>2 DEF Dot, f
<1> QED BY <1>4, <1>5

-----------------------------------------------------------------------------
(* Encoding *)

LEMMA SourceCountType ==
    ASSUME NEW len \in Nat
    PROVE  SourceCount(len) \in Nat
BY CodeAssumption DEF SourceCount

LEMMA RowType ==
    ASSUME NEW k \in Nat, NEW row \in Nat
    PROVE  Row(row, k) \in Vector(k)
<1> SUFFICES ASSUME NEW col \in 0..k - 1, row >= k
             PROVE  Power[((row - k + 1) * col) % 255] \in Byte
  BY XorLaws DEF Row, Vector, Indices
<1>1. row - k + 1 \in Nat
  OBVIOUS
<1>2. (row - k + 1) * col \in Nat
  BY <1>1
<1>3. ((row - k + 1) * col) % 255 \in 0..254
  BY <1>2
<1> QED BY <1>3, PowerType

LEMMA SourceType ==
    ASSUME NEW block \in Seq(Byte), NEW i \in Nat
    PROVE  Source(block, i) \in [1..SymbolSize -> Byte]
<1>1. ASSUME NEW p \in 1..SymbolSize, i * SymbolSize + p <= Len(block)
      PROVE  block[i * SymbolSize + p] \in Byte
  <2>1. i * SymbolSize \in Nat /\ Len(block) \in Nat
    BY CodeAssumption
  <2>2. i * SymbolSize + p \in 1..Len(block)
    BY <1>1, <2>1
  <2> QED BY <2>2, ElementOfSeq
<1> QED BY <1>1, XorLaws DEF Source

LEMMA SymbolCountLaws ==
    ASSUME NEW len \in Nat
    PROVE  /\ SymbolCount(len) \in 0..FieldLimit
           /\ RepairCount(SourceCount(len)) \in Nat
           /\ SymbolCount(len) <= SourceCount(len) + RepairCount(SourceCount(len))
           /\ SymbolCount(len) # 0 => SourceCount(len) <= FieldLimit
<1>1. SourceCount(len) \in Nat /\ RepairCount(SourceCount(len)) \in Nat
  <2>1. RepairNum * SourceCount(len) \in Nat
    BY CodeAssumption, SourceCountType
  <2> DEFINE n == (SourceCount(len) * RepairNum) \div RepairDen
  <2>2. n \in Nat
    BY <2>1, CodeAssumption, SourceCountType
  <2>3. \E m \in {1, n} : \A j \in {1, n} : m >= j
    <3> HIDE DEF n
    <3>1. n >= 1 \/ 1 >= n
      BY <2>2
    <3> QED BY <2>2, <3>1
  <2>4. RepairCount(SourceCount(len)) \in {1, n}
    BY <2>3 DEF RepairCount, Max
  <2> HIDE DEF n
  <2> QED BY <2>2, <2>4, SourceCountType
<1> DEFINE total == SourceCount(len) + RepairCount(SourceCount(len))
<1>2. total \in Nat
  BY <1>1
<1>3. SymbolCount(len) = IF total > FieldLimit THEN 0 ELSE total
  BY DEF SymbolCount
<1> HIDE DEF total
<1>4. SymbolCount(len) \in 0..FieldLimit /\ SymbolCount(len) <= total
  BY <1>2, <1>3, CodeAssumption
<1>5. SymbolCount(len) # 0 => total <= FieldLimit
  BY <1>2, <1>3, CodeAssumption
<1> QED BY <1>1, <1>4, <1>5, CodeAssumption DEF total

LEMMA EncodeType ==
    ASSUME NEW end, NEW block \in Seq(Byte)
    PROVE  Encode(end, block) \in [0..SymbolCount(Len(block)) - 1 -> [1..SymbolSize -> Byte]]
<1> DEFINE k == SourceCount(Len(block))
           source == [i \in 0..k - 1 |-> Source(block, i)]
           symbol(i) == IF i < k THEN source[i]
                        ELSE [p \in 1..SymbolSize |-> Combined(end, Row(i, k), source, p)]
<1>1. k \in Nat /\ SymbolCount(Len(block)) \in Nat
  BY SourceCountType, SymbolCountLaws, CodeAssumption
<1>2. ASSUME NEW i \in 0..SymbolCount(Len(block)) - 1
      PROVE  symbol(i) \in [1..SymbolSize -> Byte]
  <2>1. CASE i < k
    BY <1>1, <2>1, SourceType
  <2>2. CASE ~(i < k)
    BY <2>2 DEF Combined, XorOver, Byte
  <2> QED BY <2>1, <2>2
<1>3. Encode(end, block) = [i \in 0..SymbolCount(Len(block)) - 1 |-> symbol(i)]
  BY DEF Encode
<1> HIDE DEF symbol
<1> QED BY <1>2, <1>3

(* Byte p of each source symbol. *)
Bytes(block, p) ==
    [i \in Indices(SourceCount(Len(block))) |-> Source(block, i)[p]]

LEMMA BytesType ==
    ASSUME NEW block \in Seq(Byte), NEW p \in 1..SymbolSize
    PROVE  Bytes(block, p) \in Vector(SourceCount(Len(block)))
<1>1. \A i \in Indices(SourceCount(Len(block))) : i \in Nat
  BY DEF Indices
<1> QED BY <1>1, SourceType DEF Bytes, Vector

(* Source symbols and repair symbols alike are rows of the matrix times the
   source symbols. *)
LEMMA EncodeIsProduct ==
    ASSUME NEW block \in Seq(Byte), NEW s \in 0..SymbolCount(Len(block)) - 1,
           NEW p \in 1..SymbolSize
    PROVE  Encode(One, block)[s][p]
             = Dot(SourceCount(Len(block)), Row(s, SourceCount(Len(block))), Bytes(block, p))
<1> DEFINE k == SourceCount(Len(block))
           source == [i \in 0..k - 1 |-> Source(block, i)]
<1>1. k \in Nat /\ s \in Nat
  BY SourceCountType, SymbolCountLaws, CodeAssumption
<1>2. Encode(One, block)[s] = IF s < k THEN source[s]
                              ELSE [q \in 1..SymbolSize |-> Combined(One, Row(s, k), source, q)]
  BY DEF Encode
<1>3. CASE s < k
  <2>1. s \in Indices(k)
    BY <1>1, <1>3 DEF Indices
  <2>2. \A j \in Indices(k) : Row(s, k)[j] = Delta(s, j)
    BY <1>3 DEF Row, Delta, Indices
  <2>3. Dot(k, Row(s, k), Bytes(block, p)) = Bytes(block, p)[s]
    BY <1>1, <2>1, <2>2, BytesType, DotOfUnit
  <2> QED BY <1>2, <1>3, <2>1, <2>3 DEF Bytes, Indices
<1>4. CASE ~(s < k)
  <2>1. DOMAIN Row(s, k) = 0..k - 1
    BY DEF Row
  <2>2. Combined(One, Row(s, k), source, p)
          = Sum(k, [j \in 0..k - 1 |-> Mul(One, Row(s, k)[j], source[j][p])])
    BY <2>1 DEF Combined, Sum
  <2>3. \A j \in 0..k - 1 : source[j][p] = Bytes(block, p)[j]
    BY DEF Bytes, Indices
  <2> HIDE DEF source
  <2> QED BY <1>2, <1>4, <2>2, <2>3 DEF Dot, Indices
<1> QED BY <1>3, <1>4

-----------------------------------------------------------------------------
(* Decoding *)

LEMMA BytePosition ==
    ASSUME NEW len \in Nat, NEW p \in 1..len
    PROVE  /\ (p - 1) \div SymbolSize \in Indices(SourceCount(len))
           /\ ((p - 1) % SymbolSize) + 1 \in 1..SymbolSize
           /\ ((p - 1) \div SymbolSize) * SymbolSize + (((p - 1) % SymbolSize) + 1) = p
<1>1. SymbolSize \in Nat /\ SymbolSize > 0
  BY CodeAssumption
<1> DEFINE a == p - 1
           n == len + SymbolSize - 1
<1>2. a \in Nat /\ n \in Nat /\ a + SymbolSize <= n
  BY <1>1
<1> HIDE DEF a, n
<1>3. a \div SymbolSize \in Nat /\ n \div SymbolSize \in Nat /\ a \div SymbolSize < n \div SymbolSize
  BY <1>1, <1>2
<1>4. a % SymbolSize \in 0..SymbolSize - 1
  BY <1>1, <1>2
<1>5. (a \div SymbolSize) * SymbolSize + (a % SymbolSize) = a
  BY <1>1, <1>2
<1>6. a \div SymbolSize \in Indices(SourceCount(len))
  BY <1>3 DEF SourceCount, Indices, n
<1> QED BY <1>1, <1>3, <1>4, <1>5, <1>6 DEF a

(* The rows of the symbols received, as rs_decode builds them. *)
ReceivedRows(k, symbol) == [i \in Indices(k) |-> Row(symbol[i], k)]

(* Whatever symbols of a block arrived, when rs_invert_matrix has inverted their
   rows rs_decode restores the block's bytes from them. *)
THEOREM EliminatedRestores ==
    ASSUME NEW block \in Seq(Byte), NEW k, k = SourceCount(Len(block)),
           NEW symbol \in [Indices(k) -> 0..SymbolCount(Len(block)) - 1],
           NEW m, NEW id, Eliminated(k, ReceivedRows(k, symbol), m, id, k),
           NEW received, DOMAIN received = Indices(k),
           \A j \in Indices(k) : received[j] = Encode(One, block)[symbol[j]]
    PROVE  Recovered(One, id, received, Len(block)) = block
<1> DEFINE r == ReceivedRows(k, symbol)
<1>1. k \in Nat /\ Len(block) \in Nat /\ SymbolCount(Len(block)) \in Nat
  BY SourceCountType, SymbolCountLaws, CodeAssumption
<1>2. r \in Matrix(k)
  <2>1. \A i \in Indices(k) : symbol[i] \in Nat
    BY <1>1
  <2> QED BY <1>1, <2>1, RowType DEF ReceivedRows, Matrix
<1>3. id \in Matrix(k) /\ m \in Matrix(k)
  BY DEF Eliminated, Agrees
<1>4. ASSUME NEW row \in Indices(k), NEW col \in Indices(k)
      PROVE  Dot(k, id[row], Column(k, r, col)) = Delta(row, col)
  <2>1. col < k
    BY <1>1 DEF Indices
  <2> QED BY <2>1 DEF Eliminated, Agrees
<1>5. ASSUME NEW row \in Indices(k), NEW p \in 1..SymbolSize
      PROVE  Combined(One, id[row], received, p) = Source(block, row)[p]
  <2> DEFINE x == Bytes(block, p)
             y == [j \in Indices(k) |-> received[j][p]]
  <2>1. x \in Vector(k) /\ id[row] \in Vector(k)
    BY <1>3, BytesType DEF Matrix
  <2>2. \A j \in Indices(k) : y[j] = Dot(k, r[j], x)
    BY EncodeIsProduct DEF ReceivedRows
  <2>3. Combined(One, id[row], received, p) = Dot(k, id[row], y)
    <3>1. DOMAIN id[row] = Indices(k)
      BY <2>1 DEF Vector
    <3>2. Combined(One, id[row], received, p)
            = Sum(k, [j \in Indices(k) |-> Mul(One, id[row][j], received[j][p])])
      BY <3>1 DEF Combined, Sum, Indices
    <3>3. \A j \in Indices(k) : y[j] = received[j][p]
      OBVIOUS
    <3> HIDE DEF y
    <3> QED BY <3>2, <3>3 DEF Dot
  <2>4. x[row] = Source(block, row)[p]
    BY DEF Bytes
  <2> HIDE DEF x, y, r
  <2> QED BY <1>1, <1>2, <1>4, <2>1, <2>2, <2>3, <2>4, InverseUndoes, SMTT(30)
<1>6. ASSUME NEW p \in 1..Len(block)
      PROVE  Combined(One, id[(p - 1) \div SymbolSize], received, ((p - 1) % SymbolSize) + 1)
               = block[p]
  <2> DEFINE row == (p - 1) \div SymbolSize
             q == ((p - 1) % SymbolSize) + 1
  <2>1. row \in Indices(k) /\ q \in 1..SymbolSize /\ row * SymbolSize + q = p
    BY <1>1, BytePosition
  <2> HIDE DEF row, q
  <2>2. Source(block, row)[q] = block[p]
    BY <1>1, <2>1 DEF Source
  <2> QED BY <1>5, <2>1, <2>2 DEF row, q
<1>7. block = [p \in 1..Len(block) |-> block[p]]
  BY SeqDef, LenProperties
<1> QED BY <1>6, <1>7 DEF Recovered

-----------------------------------------------------------------------------
(* The table that gf_init leaves: the first symbol is lost *)

Zeros(k) == [col \in Indices(k) |-> Zero]

FirstCleared(k, a) == DOMAIN a = Indices(k) /\ a[0] = Zeros(k)

(* The inverse of 1, which every column of the first pivot holds, reads entry 255. *)
LEMMA FirstPivotClears ==
    ASSUME NEW k \in Nat, 0 \in Indices(k), NEW symbol \in [Indices(k) -> Nat],
           NEW m, m = ReceivedRows(k, symbol), Candidates(m, 0) # {}
    PROVE  /\ FirstCleared(k, Pivoted(Zero, m, Identity(k), 0).m)
           /\ FirstCleared(k, Pivoted(Zero, m, Identity(k), 0).id)
<1> DEFINE from == Min(Candidates(m, 0))
           m1 == Swap(m, 0, from)
           inv == Inv(Zero, m1[0][0])
           m2 == Scale(Zero, m1, 0, inv)
           id1 == Swap(Identity(k), 0, from)
           id2 == Scale(Zero, id1, 0, inv)
           factor == [j \in DOMAIN m2 |-> m2[j][0]]
<1>1. DOMAIN m = Indices(k) /\ DOMAIN Identity(k) = Indices(k)
  BY DEF ReceivedRows, Identity, Indices
<1>2. from \in Indices(k) /\ m[from][0] # Zero
  BY <1>1, CandidatesMin
<1>3. m[from] = Row(symbol[from], k) /\ symbol[from] \in Nat
  BY <1>2 DEF ReceivedRows
<1>4. m[from][0] = One /\ DOMAIN m[from] = Indices(k)
  <2>1. 0 \in 0..k - 1
    BY DEF Indices
  <2>2. symbol[from] - k + 1 \in Int
    BY <1>3
  <2>3. ((symbol[from] - k + 1) * 0) % 255 = 0
    BY <2>2
  <2>4. m[from][0] \in {Zero, One}
    BY <1>3, <2>1, <2>3, PowerZero DEF Row
  <2>5. DOMAIN m[from] = Indices(k)
    BY <1>3 DEF Row, Indices
  <2> QED BY <1>2, <2>4, <2>5
<1>5. Inv(Zero, One) = Zero
  <2>1. Log[One] = 0
    <3>1. 0 \in 0..254
      OBVIOUS
    <3> QED BY <3>1, LogOfPower, PowerZero
  <2>2. One # Zero /\ 255 - 0 = 255
    BY DEF One, Zero
  <2> QED BY <2>1, <2>2 DEF Inv, Exp
<1>6. DOMAIN Identity(k)[from] = Indices(k)
  BY <1>2 DEF Identity, Indices
<1> HIDE DEF from
<1>7. /\ DOMAIN m1 = Indices(k) /\ m1[0] = m[from]
      /\ DOMAIN id1 = Indices(k) /\ id1[0] = Identity(k)[from]
  BY <1>1, <1>2 DEF Swap
<1> HIDE DEF m1, id1
<1>8. inv = Zero
  BY <1>4, <1>5, <1>7
<1> HIDE DEF inv
<1>9. FirstCleared(k, m2) /\ FirstCleared(k, id2)
  <2>1. /\ m2[0] = [col \in DOMAIN m1[0] |-> Mul(Zero, m1[0][col], Zero)]
        /\ id2[0] = [col \in DOMAIN id1[0] |-> Mul(Zero, id1[0][col], Zero)]
        /\ DOMAIN m2 = Indices(k) /\ DOMAIN id2 = Indices(k)
    BY <1>7, <1>8 DEF Scale
  <2>2. DOMAIN m1[0] = Indices(k) /\ DOMAIN id1[0] = Indices(k)
    BY <1>4, <1>6, <1>7
  <2> HIDE DEF m2, id2
  <2> QED BY <2>1, <2>2, MulZero DEF FirstCleared, Zeros
<1>10. /\ Pivoted(Zero, m, Identity(k), 0).m = Eliminate(Zero, m2, 0, factor)
       /\ Pivoted(Zero, m, Identity(k), 0).id = Eliminate(Zero, id2, 0, factor)
  BY DEF Pivoted, from, m1, inv, id1
<1> HIDE DEF m2, id2, factor
<1> QED BY <1>9, <1>10 DEF Eliminate, FirstCleared

(* No later pivot puts anything back. *)
LEMMA PivotLeavesCleared ==
    ASSUME NEW k \in Nat, NEW m, NEW id, NEW i \in Indices(k), i # 0,
           FirstCleared(k, m), FirstCleared(k, id), Candidates(m, i) # {}
    PROVE  /\ FirstCleared(k, Pivoted(Zero, m, id, i).m)
           /\ FirstCleared(k, Pivoted(Zero, m, id, i).id)
<1> DEFINE from == Min(Candidates(m, i))
           m1 == Swap(m, i, from)
           inv == Inv(Zero, m1[i][i])
           m2 == Scale(Zero, m1, i, inv)
           id1 == Swap(id, i, from)
           id2 == Scale(Zero, id1, i, inv)
           factor == [j \in DOMAIN m2 |-> m2[j][i]]
<1>1. DOMAIN m = Indices(k) /\ DOMAIN id = Indices(k) /\ 0 \in Indices(k)
  BY DEF FirstCleared, Indices
<1>2. from \in Indices(k) /\ from # 0
  <2>1. from \in Indices(k) /\ from >= i
    BY <1>1, CandidatesMin
  <2> HIDE DEF from
  <2> QED BY <2>1 DEF Indices
<1> HIDE DEF from
<1>3. FirstCleared(k, m1) /\ FirstCleared(k, id1)
  BY <1>1, <1>2 DEF Swap, FirstCleared
<1> HIDE DEF m1, id1
<1>4. FirstCleared(k, m2) /\ FirstCleared(k, id2)
  BY <1>3 DEF Scale, FirstCleared
<1>5. factor[0] = Zero
  BY <1>1, <1>4 DEF FirstCleared, Zeros
<1>6. /\ Pivoted(Zero, m, id, i).m = Eliminate(Zero, m2, i, factor)
      /\ Pivoted(Zero, m, id, i).id = Eliminate(Zero, id2, i, factor)
  BY DEF Pivoted, from, m1, inv, id1
<1> HIDE DEF m2, id2, factor
<1>7. ASSUME NEW a, FirstCleared(k, a)
      PROVE  FirstCleared(k, Eliminate(Zero, a, i, factor))
  <2>1. DOMAIN a = Indices(k) /\ a[0] = Zeros(k) /\ DOMAIN a[0] = Indices(k)
    BY <1>7 DEF FirstCleared, Zeros
  <2>2. Eliminate(Zero, a, i, factor)[0]
            = [col \in Indices(k) |-> Xor(Zero, Mul(Zero, a[i][col], Zero))]
    BY <1>1, <1>5, <2>1 DEF Eliminate, Zeros
  <2>3. Xor(Zero, Zero) = Zero
    BY DEF Xor, Zero
  <2>4. DOMAIN Eliminate(Zero, a, i, factor) = Indices(k)
    BY <2>1 DEF Eliminate
  <2> QED BY <2>2, <2>3, <2>4, MulZero DEF FirstCleared, Zeros
<1> QED BY <1>4, <1>6, <1>7

(* What rs_decode then writes begins with a symbol of zero bytes. *)
LEMMA FirstSymbolZero ==
    ASSUME NEW k \in Nat, NEW inverse, FirstCleared(k, inverse), NEW received,
           NEW len \in Nat, NEW p \in 1..len, p <= SymbolSize
    PROVE  Recovered(Zero, inverse, received, len)[p] = Zero
<1>1. (p - 1) \div SymbolSize = 0 /\ SymbolSize \in Nat
  BY CodeAssumption
<1>2. DOMAIN inverse[0] = Indices(k) /\ \A j \in Indices(k) : inverse[0][j] = Zero
  BY DEF FirstCleared, Zeros
<1> DEFINE at == ((p - 1) % SymbolSize) + 1
           f == [j \in DOMAIN inverse[0] |-> Mul(Zero, inverse[0][j], received[j][at])]
<1>3. Recovered(Zero, inverse, received, len)[p] = XorOver(DOMAIN inverse[0], f)
  BY <1>1 DEF Recovered, Combined
<1>4. \A j \in 0..k - 1 : f[j] = Zero
  BY <1>2, MulZero DEF Indices
<1> HIDE DEF f
<1>5. Sum(k, f) = Zero
  BY <1>4, SumOfZeros
<1> QED BY <1>2, <1>3, <1>5 DEF Sum, Indices

-----------------------------------------------------------------------------
(* The limit of the code: 255 is 5 times 51, so that in every fifth repair
   row two columns 51 apart differ by one and the same factor. *)

(* A symbol that tells nothing of source symbols c and c + 51 apart. *)
Blind(s, k, c) == s # c /\ s # c + 51 /\ (s >= k => (s - k) % 5 = 0)

LEMMA ColumnsRepeat ==
    ASSUME NEW k \in Nat, NEW c \in Nat, c + 51 < k, NEW s \in Nat, Blind(s, k, c)
    PROVE  Row(s, k)[c + 51] = Mul(One, Power[51], Row(s, k)[c])
<1>1. c \in 0..k - 1 /\ c + 51 \in 0..k - 1
  OBVIOUS
<1>2. CASE s < k
  BY <1>1, <1>2, MulZero DEF Row, Blind
<1>3. CASE s >= k
  <2>1. PICK t \in Nat : s = k + 5 * t
    <3>1. s - k \in Nat /\ (s - k) % 5 = 0
      BY <1>3 DEF Blind
    <3>2. (s - k) \div 5 \in Nat /\ s = k + 5 * ((s - k) \div 5)
      BY <3>1
    <3> QED BY <3>2
  <2> DEFINE a == (5 * t + 1) * c
             b == (5 * t + 1) * (c + 51)
             i == a % 255
  <2>2. s - k + 1 = 5 * t + 1
    BY <2>1
  <2>3. Row(s, k)[c] = Power[a % 255] /\ Row(s, k)[c + 51] = Power[b % 255]
    <3>1. ~(s < k)
      BY <1>3
    <3>2. \A col \in 0..k - 1 : Row(s, k)[col] = Power[((s - k + 1) * col) % 255]
      BY <3>1 DEF Row
    <3> QED BY <1>1, <2>2, <3>2
  <2>4. a \in Nat /\ b = a + 51 + 255 * t
    OBVIOUS
  <2> HIDE DEF a, b
  <2>5. i \in 0..254 /\ b % 255 = (51 + i) % 255 /\ 51 \in 0..254
    BY <2>4
  <2>6. Row(s, k)[c] = Power[i]
    BY <2>3
  <2> HIDE DEF i
  <2>7. Mul(One, Power[51], Power[i]) = Power[(51 + i) % 255]
    BY <2>5, MulOfPowers, ZenonT(40)
  <2> QED BY <2>3, <2>5, <2>6, <2>7
<1> QED BY <1>2, <1>3

(* The rows that rs_decode builds of symbols which are all blind to the same two
   source symbols have no inverse, though the symbols be K distinct ones. *)
THEOREM BlindIsSingular ==
    ASSUME NEW k \in Nat, NEW c \in Nat, c + 51 < k,
           NEW symbol \in [Indices(k) -> Nat], \A i \in Indices(k) : Blind(symbol[i], k, c)
    PROVE  ~Regular(k, ReceivedRows(k, symbol))
<1> DEFINE x == [j \in Indices(k) |-> IF j = c THEN Power[51] ELSE Delta(c + 51, j)]
<1>1. c \in Indices(k) /\ c + 51 \in Indices(k) /\ c # c + 51
  BY DEF Indices
<1>2. Power[51] \in Byte
  <2>1. 51 \in 0..254
    OBVIOUS
  <2> QED BY <2>1, PowerType
<1>3. /\ x \in Vector(k) /\ x[c] = Power[51] /\ x[c + 51] = One
      /\ \A j \in Indices(k) : j # c /\ j # c + 51 => x[j] = Zero
  BY <1>1, <1>2, XorLaws DEF Vector, Delta
<1> HIDE DEF x
<1>4. ASSUME NEW i \in Indices(k)
      PROVE  Dot(k, Row(symbol[i], k), x) = Zero
  <2> DEFINE v == Row(symbol[i], k)
             f == [j \in Indices(k) |-> Mul(One, v[j], x[j])]
  <2>1. v \in Vector(k)
    BY RowType
  <2>2. v[c + 51] = Mul(One, Power[51], v[c])
    BY ColumnsRepeat
  <2>3. v[c] \in Byte /\ v[c + 51] \in Byte
    BY <1>1, <2>1 DEF Vector
  <2>4. Dot(k, v, x) = Sum(k, f)
    BY DEF Dot
  <2> HIDE DEF v
  <2>5. f[c] = Mul(One, v[c], Power[51]) /\ f[c + 51] = Mul(One, v[c + 51], One)
    BY <1>1, <1>3
  <2>6. f[c] = f[c + 51] /\ f[c] \in Byte
    BY <1>2, <2>2, <2>3, <2>5, MulCommutes, MulOne, MulType
  <2>7. \A j \in 0..k - 1 : j # c /\ j # c + 51 => f[j] = Zero
    BY <1>3, MulZero DEF Indices
  <2>8. c \in 0..k - 1 /\ c + 51 \in 0..k - 1
    BY <1>1 DEF Indices
  <2> HIDE DEF f
  <2>9. Sum(k, f) = Xor(f[c], f[c + 51])
    BY <1>1, <2>6, <2>7, <2>8, SumOfPair
  <2> QED BY <2>4, <2>6, <2>9, XorLaws DEF v
<1>5. Kills(k, ReceivedRows(k, symbol), x)
  BY <1>4 DEF Kills, ReceivedRows
<1> QED BY <1>1, <1>3, <1>5, XorLaws DEF Regular

(* Powers of a root of the trinomial of degree 21 are roots of it when the exponent
   is a power of two: squaring is additive. *)
LEMMA TrinomialSquared ==
    ASSUME NEW m \in {1, 2, 4}
    PROVE  Xor(Xor(One, Power[(m * 10) % 255]), Power[(m * 21) % 255]) = Zero
<1> DEFINE a(l) == Power[(l * 10) % 255]
           b(l) == Power[(l * 21) % 255]
<1>1. ASSUME NEW l \in {1, 2, 4}
      PROVE  /\ a(l) \in Byte /\ b(l) \in Byte
             /\ Mul(One, a(l), a(l)) = a(2 * l) /\ Mul(One, b(l), b(l)) = b(2 * l)
  <2>1. (l * 10) % 255 \in 0..254 /\ (l * 21) % 255 \in 0..254
    OBVIOUS
  <2>2. l * 10 \in Nat /\ l * 21 \in Nat
    OBVIOUS
  <2>3. Mul(One, Power[(l * 10) % 255], Power[(l * 10) % 255]) = Power[(l * 10 + l * 10) % 255]
    BY <2>2, PowersMultiply
  <2>4. Mul(One, Power[(l * 21) % 255], Power[(l * 21) % 255]) = Power[(l * 21 + l * 21) % 255]
    BY <2>2, PowersMultiply
  <2>5. l * 10 + l * 10 = (2 * l) * 10 /\ l * 21 + l * 21 = (2 * l) * 21
    OBVIOUS
  <2> QED BY <2>1, <2>3, <2>4, <2>5, PowerType
<1>2. ASSUME NEW l \in {1, 2, 4}, Xor(Xor(One, a(l)), b(l)) = Zero
      PROVE  Xor(Xor(One, a(2 * l)), b(2 * l)) = Zero
  <2> PICK u \in Byte, v \in Byte : u = a(l) /\ v = b(l)
    BY <1>1
  <2>1. Xor(One, u) = v
    BY <1>2 DEF Xor, Zero
  <2>2. Mul(One, Xor(One, u), Xor(One, u)) = Xor(Mul(One, One, One), Mul(One, u, u))
    BY SquareOfSum, XorLaws
  <2>3. Mul(One, v, v) = Xor(One, Mul(One, u, u))
    BY <2>1, <2>2, MulOne, XorLaws
  <2>4. b(2 * l) = Xor(One, a(2 * l))
    BY <1>1, <2>3
  <2> QED BY <2>4 DEF Xor, Zero
<1>3. Xor(Xor(One, a(1)), b(1)) = Zero
  BY Trinomial
<1>4. Xor(Xor(One, a(2)), b(2)) = Zero
  <2> HIDE DEF a, b
  <2>1. 2 * 1 = 2 /\ 1 \in {1, 2, 4}
    OBVIOUS
  <2> QED BY <1>2, <1>3, <2>1
<1>5. Xor(Xor(One, a(4)), b(4)) = Zero
  <2> HIDE DEF a, b
  <2>1. 2 * 2 = 4 /\ 2 \in {1, 2, 4}
    OBVIOUS
  <2> QED BY <1>2, <1>4, <2>1
<1> QED BY <1>3, <1>4, <1>5

(* A symbol that is none of source symbols q, q + 10 and q + 21, and no repair symbol
   but r, r + 1 and r + 3. *)
Masked(s, k, q, r) ==
    /\ s \notin {q, q + 10, q + 21}
    /\ s >= k => s \in {r, r + 1, r + 3}

(* Three repair symbols so spaced do not make up for the loss of three source symbols
   so spaced: any block with 22 source and 4 repair symbols can lose what no K of
   its symbols restore, though they be distinct. *)
THEOREM MaskedIsSingular ==
    ASSUME NEW k \in Nat, NEW q \in Nat, q + 21 < k, NEW r \in Nat, r >= k,
           NEW symbol \in [Indices(k) -> Nat],
           \A i \in Indices(k) : Masked(symbol[i], k, q, r)
    PROVE  ~Regular(k, ReceivedRows(k, symbol))
<1> DEFINE lost == {q, q + 10, q + 21}
           x == [j \in Indices(k) |->
                   IF j \in lost THEN Power[(254 * (r - k) * j) % 255] ELSE Zero]
<1>1. q \in Indices(k) /\ q + 10 \in Indices(k) /\ q + 21 \in Indices(k)
  BY DEF Indices
<1>2. ASSUME NEW j \in lost
      PROVE  /\ x[j] = Power[(254 * (r - k) * j) % 255]
             /\ 254 * (r - k) * j \in Nat
             /\ x[j] \in Byte /\ x[j] # Zero
  <2>1. PICK a \in Nat : a = r - k
    OBVIOUS
  <2>2. j \in Nat /\ 254 * a * j \in Nat
    OBVIOUS
  <2>3. (254 * a * j) % 255 \in 0..254
    BY <2>2
  <2>4. x[j] = Power[(254 * a * j) % 255]
    BY <1>1, <2>1
  <2> QED BY <2>1, <2>2, <2>3, <2>4, PowerType
<1>3. x \in Vector(k)
  BY <1>2, XorLaws DEF Vector
<1>4. \A j \in Indices(k) : j \notin lost => x[j] = Zero
  OBVIOUS
<1> HIDE DEF x
<1>5. ASSUME NEW m \in {1, 2, 4}
      PROVE  Dot(k, Row(r - 1 + m, k), x) = Zero
  <2> DEFINE v == Row(r - 1 + m, k)
             f == [j \in Indices(k) |-> Mul(One, v[j], x[j])]
  <2>1. ASSUME NEW j \in lost
        PROVE  f[j] = Power[(m * j) % 255] /\ f[j] \in Byte
    <3>1. PICK a \in Nat, b \in Nat, c \in Nat :
              a = (r - 1 + m - k + 1) * j /\ b = 254 * (r - k) * j /\ c = (r - k) * j
      <4>1. r - 1 + m - k + 1 \in Nat /\ r - k \in Nat /\ j \in Nat
        OBVIOUS
      <4>2. (r - 1 + m - k + 1) * j \in Nat /\ (r - k) * j \in Nat
        BY <4>1
      <4> QED BY <1>2, <4>2
    <3>2. a = c + m * j /\ b = 254 * c /\ m * j \in Nat
      BY <3>1
    <3>3. (a + b) % 255 = (m * j) % 255
      <4>1. PICK d \in Nat : d = m * j
        BY <3>2
      <4>2. a + b = d + 255 * c
        BY <3>2, <4>1
      <4> QED BY <4>1, <4>2
    <3>4. v[j] = Power[a % 255]
      <4>1. j \in 0..k - 1 /\ ~(r - 1 + m < k)
        OBVIOUS
      <4> QED BY <3>1, <4>1 DEF Row
    <3>5. f[j] = Mul(One, v[j], x[j]) /\ x[j] = Power[b % 255]
      <4>1. j \in Indices(k)
        BY <1>1
      <4>2. f[j] = Mul(One, v[j], x[j])
        <5> HIDE DEF v
        <5> QED BY <4>1
      <4> HIDE DEF f, v
      <4>3. x[j] = Power[b % 255]
        BY <1>2, <3>1
      <4> QED BY <4>2, <4>3
    <3>6. f[j] = Power[(a + b) % 255]
      <4> HIDE DEF f, v
      <4>1. Mul(One, Power[a % 255], Power[b % 255]) = Power[(a + b) % 255]
        BY PowersMultiply
      <4> QED BY <3>4, <3>5, <4>1
    <3>7. (m * j) % 255 \in 0..254
      BY <3>2
    <3> QED BY <3>3, <3>6, <3>7, PowerType
  <2>2. PICK c \in Byte : c = Power[(m * q) % 255]
    <3>1. m * q \in Nat
      OBVIOUS
    <3>2. (m * q) % 255 \in 0..254
      BY <3>1
    <3> QED BY <3>2, PowerType
  <2>3. PICK u \in Byte, w \in Byte : u = Power[(m * 10) % 255] /\ w = Power[(m * 21) % 255]
    <3>1. (m * 10) % 255 \in 0..254 /\ (m * 21) % 255 \in 0..254
      OBVIOUS
    <3> QED BY <3>1, PowerType
  <2>4. f[q] = c /\ f[q + 10] = Mul(One, c, u) /\ f[q + 21] = Mul(One, c, w)
    <3>1. f[q] = Power[(m * q) % 255] /\ f[q + 10] = Power[(m * (q + 10)) % 255]
          /\ f[q + 21] = Power[(m * (q + 21)) % 255]
      BY <2>1
    <3>2. m * q \in Nat /\ m * 10 \in Nat /\ m * 21 \in Nat
          /\ m * (q + 10) = m * q + m * 10 /\ m * (q + 21) = m * q + m * 21
      OBVIOUS
    <3> HIDE DEF f
    <3>3. Mul(One, c, u) = Power[(m * q + m * 10) % 255]
      BY <2>2, <2>3, <3>2, PowersMultiply
    <3>4. Mul(One, c, w) = Power[(m * q + m * 21) % 255]
      BY <2>2, <2>3, <3>2, PowersMultiply
    <3> QED BY <2>2, <3>1, <3>2, <3>3, <3>4
  <2>5. \A j \in 0..k - 1 : j # q /\ j # q + 10 /\ j # q + 21 => f[j] = Zero
    BY <1>4, MulZero DEF Indices
  <2>6. /\ q \in 0..k - 1 /\ q + 10 \in 0..k - 1 /\ q + 21 \in 0..k - 1
        /\ f[q] \in Byte /\ f[q + 10] \in Byte /\ f[q + 21] \in Byte
        /\ q # q + 10 /\ q # q + 21 /\ q + 10 # q + 21
    BY <2>1
  <2>7. Dot(k, v, x) = Sum(k, f)
    BY DEF Dot
  <2> HIDE DEF f, v
  <2>8. Sum(k, f) = Xor(Xor(f[q], f[q + 10]), f[q + 21])
    BY <2>5, <2>6, SumOfThree
  <2>9. Xor(Xor(c, Mul(One, c, u)), Mul(One, c, w)) = Zero
    <3>1. PICK y \in Byte : y = Xor(One, u)
      BY XorLaws
    <3>2. Mul(One, c, y) = Xor(c, Mul(One, c, u))
      BY <3>1, MulDistributes, MulOne, XorLaws
    <3>3. Mul(One, c, Xor(y, w)) = Xor(Mul(One, c, y), Mul(One, c, w))
      BY MulDistributes
    <3>4. Xor(y, w) = Zero
      BY <2>3, <3>1, TrinomialSquared
    <3> QED BY <3>2, <3>3, <3>4, MulZero
  <2> QED BY <2>4, <2>7, <2>8, <2>9 DEF v
<1>6. ASSUME NEW i \in Indices(k)
      PROVE  Dot(k, Row(symbol[i], k), x) = Zero
  <2>1. CASE symbol[i] < k
    <3>1. symbol[i] \in Indices(k) /\ symbol[i] \notin lost
      BY <2>1 DEF Masked, Indices
    <3>2. \A j \in Indices(k) : Row(symbol[i], k)[j] = Delta(symbol[i], j)
      BY <2>1 DEF Row, Delta, Indices
    <3>3. Dot(k, Row(symbol[i], k), x) = x[symbol[i]]
      BY <1>3, <3>1, <3>2, DotOfUnit
    <3> QED BY <1>4, <3>1, <3>3
  <2>2. CASE symbol[i] >= k
    <3>1. PICK m \in {1, 2, 4} : symbol[i] = r - 1 + m
      BY <2>2 DEF Masked
    <3> QED BY <1>5, <3>1
  <2> QED BY <2>1, <2>2
<1>7. Kills(k, ReceivedRows(k, symbol), x)
  BY <1>6 DEF Kills, ReceivedRows
<1>8. x[q] # Zero
  BY <1>2
<1> QED BY <1>1, <1>3, <1>7, <1>8 DEF Regular

-----------------------------------------------------------------------------
(* Losses that leave an inverse *)

(* A source symbol that arrived gives its entry. *)
LEMMA UnitRowGives ==
    ASSUME NEW k \in Nat, NEW x \in Vector(k), NEW q \in Indices(k),
           Dot(k, Row(q, k), x) = Zero
    PROVE  x[q] = Zero
<1>1. \A j \in Indices(k) : Row(q, k)[j] = Delta(q, j)
  BY DEF Row, Delta, Indices
<1>2. Dot(k, Row(q, k), x) = x[q]
  BY <1>1, DotOfUnit
<1> QED BY <1>2

(* Row t + 1 is row t with every entry multiplied by that entry's ratio. *)
Geometric(k, n, v, ratio) ==
    /\ ratio \in Vector(k)
    /\ \A t \in 0..n - 1 : v[t] \in Vector(k)
    /\ \A t \in 0..n - 2, j \in Indices(k) : v[t + 1][j] = Mul(One, v[t][j], ratio[j])
    /\ \A j \in Indices(k) : n > 0 => v[0][j] # Zero

(* A row's entries times x are as many times its sum as the next row's: what is
   zero times both is zero when each entry is multiplied by its ratio less c. *)
LEMMA TwoRowsAgainst ==
    ASSUME NEW k \in Nat, NEW u \in Vector(k), NEW w \in Vector(k), NEW ratio \in Vector(k),
           \A j \in Indices(k) : w[j] = Mul(One, u[j], ratio[j]),
           NEW x \in Vector(k), Dot(k, u, x) = Zero, Dot(k, w, x) = Zero,
           NEW c \in Byte, NEW z,
           \A j \in Indices(k) : z[j] = Mul(One, x[j], Xor(ratio[j], c))
    PROVE  Dot(k, u, z) = Zero
<1> DEFINE w2 == [j \in Indices(k) |-> Mul(One, u[j], c)]
           s  == [j \in Indices(k) |-> Xor(w[j], w2[j])]
           f  == [j \in Indices(k) |-> Mul(One, u[j], z[j])]
           g  == [j \in Indices(k) |-> Mul(One, s[j], x[j])]
<1>1. w2 \in Vector(k)
  BY MulType DEF Vector
<1>2. Dot(k, w2, x) = Zero
  <2>1. Dot(k, w2, x) = Mul(One, Dot(k, u, x), c)
    BY DotOfMultiple
  <2> QED BY <2>1, MulZero
<1>3. Dot(k, s, x) = Zero
  <2> HIDE DEF w2
  <2>1. Dot(k, s, x) = Xor(Dot(k, w, x), Dot(k, w2, x))
    BY <1>1, DotOfSum
  <2> QED BY <1>2, <2>1, XorLaws
<1>4. ASSUME NEW j \in 0..k - 1
      PROVE  f[j] = g[j]
  <2>1. /\ u[j] \in Byte /\ x[j] \in Byte /\ ratio[j] \in Byte
        /\ w[j] = Mul(One, u[j], ratio[j]) /\ z[j] = Mul(One, x[j], Xor(ratio[j], c))
    BY DEF Vector, Indices
  <2>2. f[j] = Mul(One, u[j], z[j]) /\ g[j] = Mul(One, Xor(w[j], Mul(One, u[j], c)), x[j])
    BY DEF Indices
  <2>3. PICK sum \in Byte : sum = Xor(ratio[j], c)
    BY <2>1, XorLaws
  <2>4. Xor(w[j], Mul(One, u[j], c)) = Mul(One, u[j], sum)
    BY <2>1, <2>3, MulDistributes
  <2>5. Mul(One, Mul(One, u[j], sum), x[j]) = Mul(One, u[j], Mul(One, sum, x[j]))
    BY <2>1, MulAssociates
  <2>6. Mul(One, sum, x[j]) = z[j]
    BY <2>1, <2>3, MulCommutes
  <2> QED BY <2>2, <2>4, <2>5, <2>6
<1> HIDE DEF w2, s, f, g
<1>5. Sum(k, f) = Sum(k, g)
  BY <1>4, SumOfEqual
<1> QED BY <1>3, <1>5 DEF Dot, f, g

(* Entries outside S are zero, and so is x times each of the first m rows. *)
Within(k, x, S) == \A j \in Indices(k) \ S : x[j] = Zero

Against(k, m, v, x) == \A t \in 0..m - 1 : Dot(k, v[t], x) = Zero

(* No non-zero column of m entries is zero times m rows in geometric progression
   whose ratios there are different: Vandermonde's determinant. *)
LEMMA GeometricRows ==
    ASSUME NEW k \in Nat, NEW n \in Nat, NEW v, NEW ratio, Geometric(k, n, v, ratio),
           NEW T \in SUBSET Indices(k), Cardinality(T) = n,
           \A i, j \in T : ratio[i] = ratio[j] => i = j,
           NEW x \in Vector(k), Within(k, x, T), Against(k, n, v, x)
    PROVE  \A j \in Indices(k) : x[j] = Zero
<1> DEFINE D(m) == \A S \in SUBSET T, y \in Vector(k) :
                      Cardinality(S) = m /\ Within(k, y, S) /\ Against(k, m, v, y)
                         => \A j \in Indices(k) : y[j] = Zero
           P == {m \in 0..n : D(m)}
<1>1. IsFiniteSet(T)
  <2>1. IsFiniteSet(Indices(k))
    BY FS_Interval DEF Indices
  <2> QED BY <2>1, FS_Subset
<1>2. 0 \in P
  <2> SUFFICES ASSUME NEW S \in SUBSET T, Cardinality(S) = 0, NEW y \in Vector(k),
                      Within(k, y, S)
               PROVE  \A j \in Indices(k) : y[j] = Zero
    OBVIOUS
  <2>1. S = {}
    BY <1>1, FS_Subset, FS_EmptySet
  <2> QED BY <2>1 DEF Within
<1>3. ASSUME NEW m \in 0..n - 1, m \in P
      PROVE  m + 1 \in P
  <2> SUFFICES ASSUME NEW S \in SUBSET T, Cardinality(S) = m + 1, NEW y \in Vector(k),
                      Within(k, y, S), Against(k, m + 1, v, y)
               PROVE  \A j \in Indices(k) : y[j] = Zero
    OBVIOUS
  <2>1. IsFiniteSet(S) /\ S # {}
    BY <1>1, FS_Subset, FS_EmptySet
  <2>2. PICK l \in S : TRUE
    BY <2>1
  <2>3. Cardinality(S \ {l}) = m /\ S \ {l} \in SUBSET T
    <3>1. Cardinality(S \ {l}) = Cardinality(S) - 1
      BY <2>1, <2>2, FS_RemoveElement
    <3> QED BY <3>1
  <2>4. ratio \in Vector(k) /\ l \in Indices(k) /\ ratio[l] \in Byte
    BY <2>2 DEF Geometric, Vector
  <2> DEFINE z == [j \in Indices(k) |-> Mul(One, y[j], Xor(ratio[j], ratio[l]))]
  <2>5. z \in Vector(k)
    BY <2>4, MulType, XorLaws DEF Vector
  <2>6. Within(k, z, S \ {l})
    <3> SUFFICES ASSUME NEW j \in Indices(k), j \notin S \/ j = l
                 PROVE  z[j] = Zero
      BY DEF Within
    <3>1. CASE j \notin S
      BY <3>1, MulZero DEF Within
    <3>2. CASE j = l
      BY <2>4, <3>2, MulZero, XorLaws
    <3> QED BY <3>1, <3>2
  <2>7. Against(k, m, v, z)
    <3> SUFFICES ASSUME NEW t \in 0..m - 1
                 PROVE  Dot(k, v[t], z) = Zero
      BY DEF Against
    <3>1. t \in 0..n - 2 /\ t \in 0..n - 1 /\ t + 1 \in 0..n - 1 /\ t \in 0..m + 1 - 1 /\ t + 1 \in 0..m + 1 - 1
      OBVIOUS
    <3>2. /\ v[t] \in Vector(k) /\ v[t + 1] \in Vector(k)
          /\ \A j \in Indices(k) : v[t + 1][j] = Mul(One, v[t][j], ratio[j])
      BY <3>1 DEF Geometric
    <3>3. Dot(k, v[t], y) = Zero /\ Dot(k, v[t + 1], y) = Zero
      BY <3>1 DEF Against
    <3>4. \A j \in Indices(k) : z[j] = Mul(One, y[j], Xor(ratio[j], ratio[l]))
      OBVIOUS
    <3> HIDE DEF z
    <3> QED BY <2>4, <3>2, <3>3, <3>4, TwoRowsAgainst
  <2>8. \A j \in Indices(k) : z[j] = Zero
    <3>1. D(m)
      BY <1>3
    <3> HIDE DEF z
    <3> QED BY <2>3, <2>5, <2>6, <2>7, <3>1
  <2>9. ASSUME NEW j \in Indices(k), j # l
        PROVE  y[j] = Zero
    <3>1. CASE j \notin S
      BY <3>1 DEF Within
    <3>2. CASE j \in S
      <4>1. ratio[j] # ratio[l] /\ ratio[j] \in Byte /\ y[j] \in Byte
        BY <2>2, <2>4, <2>9, <3>2 DEF Vector
      <4>2. Xor(ratio[j], ratio[l]) \in Byte /\ Xor(ratio[j], ratio[l]) # Zero
        BY <2>4, <4>1 DEF Xor, Byte, Zero
      <4>3. Mul(One, y[j], Xor(ratio[j], ratio[l])) = Zero
        BY <2>8
      <4> QED BY <4>1, <4>2, <4>3, NoZeroDivisors
    <3> QED BY <3>1, <3>2
  <2>10. y[l] = Zero
    <3> DEFINE f == [j \in Indices(k) |-> Mul(One, v[0][j], y[j])]
    <3>1. v[0][l] \in Byte /\ v[0][l] # Zero /\ y[l] \in Byte
      BY <2>4 DEF Geometric, Vector
    <3>2. Sum(k, f) = Zero
      BY DEF Against, Dot
    <3>3. f[l] = Mul(One, v[0][l], y[l]) /\ f[l] \in Byte
      BY <2>4, <3>1, MulType
    <3>4. l \in 0..k - 1 /\ \A j \in 0..k - 1 : j # l => f[j] = Zero
      BY <2>4, <2>9, MulZero DEF Indices
    <3> HIDE DEF f
    <3>5. Sum(k, f) = f[l]
      BY <3>3, <3>4, SumOfOne
    <3>6. Mul(One, y[l], v[0][l]) = Zero
      BY <3>1, <3>2, <3>3, <3>5, MulCommutes
    <3> QED BY <3>1, <3>6, NoZeroDivisors
  <2> QED BY <2>9, <2>10
<1>4. \A i \in 0..n : i < n /\ i \in P => i + 1 \in P
  <2> HIDE DEF P
  <2>1. \A i \in 0..n : i < n => i \in 0..n - 1
    OBVIOUS
  <2> QED BY <1>3, <2>1
<1>5. \A i \in 0..n : i \in P
  <2> HIDE DEF P
  <2> QED BY <1>2, <1>4, UpTo
<1>6. D(n)
  <2>1. n \in P
    BY <1>5
  <2> QED BY <2>1
<1> HIDE DEF D
<1> QED BY <1>6 DEF D

(* All source symbols but those of `lost' arrived, and as many repair symbols as
   are lost, each d after the one before. *)
LostRun(k, symbol, lost, d) ==
    /\ \A s \in Indices(k) \ lost : \E i \in Indices(k) : symbol[i] = s
    /\ \E first \in Nat :
          /\ first >= k
          /\ \A t \in 0..Cardinality(lost) - 1 :
                \E i \in Indices(k) : symbol[i] = first + t * d

(* Repair symbols d apart tell the columns of these source symbols apart. *)
ToldApart(lost, d) == \A q1, q2 \in lost : q1 < q2 => (d * (q2 - q1)) % 255 # 0

(* The entry of a repair row times the power of d times its column is the entry
   of the row d further on. *)
LEMMA RowsFurtherOn ==
    ASSUME NEW k \in Nat, NEW s \in Nat, s >= k, NEW d \in Nat, NEW j \in Indices(k)
    PROVE  Row(s + d, k)[j] = Mul(One, Row(s, k)[j], Power[(d * j) % 255])
<1>1. j \in 0..k - 1 /\ ~(s < k) /\ ~(s + d < k)
  BY DEF Indices
<1>2. PICK p \in Nat, u \in Nat : p = (s - k + 1) * j /\ u = d * j
  <2>1. s - k + 1 \in Nat /\ j \in Nat
    BY <1>1
  <2>2. (s - k + 1) * j \in Nat /\ d * j \in Nat
    BY <2>1
  <2> QED BY <2>2
<1>3. (s + d - k + 1) * j = p + u
  BY <1>1, <1>2
<1>4. Row(s, k)[j] = Power[p % 255] /\ Row(s + d, k)[j] = Power[(p + u) % 255]
  BY <1>1, <1>2, <1>3 DEF Row
<1> QED BY <1>2, <1>4, PowersMultiply

(* Any number of lost source symbols is made up for by as many repair symbols
   evenly spaced, if none of the distances between the lost ones times the spacing
   is a multiple of 255. *)
THEOREM LostRunIsRegular ==
    ASSUME NEW k \in Nat, NEW symbol \in [Indices(k) -> Nat],
           NEW lost \in SUBSET Indices(k), NEW d \in Nat,
           LostRun(k, symbol, lost, d), ToldApart(lost, d)
    PROVE  Regular(k, ReceivedRows(k, symbol))
<1> SUFFICES ASSUME NEW x \in Vector(k), Kills(k, ReceivedRows(k, symbol), x)
             PROVE  \A j \in Indices(k) : x[j] = Zero
  BY DEF Regular
<1>1. \A i \in Indices(k) : Dot(k, Row(symbol[i], k), x) = Zero
  BY DEF Kills, ReceivedRows
<1>2. Within(k, x, lost)
  BY <1>1, UnitRowGives DEF LostRun, Within
<1>3. PICK n \in Nat : n = Cardinality(lost)
  <2>1. IsFiniteSet(Indices(k))
    BY FS_Interval DEF Indices
  <2> QED BY <2>1, FS_Subset, FS_CardinalityType
<1>4. PICK first \in Nat :
          /\ first >= k
          /\ \A t \in 0..n - 1 : \E i \in Indices(k) : symbol[i] = first + t * d
  BY <1>3 DEF LostRun
<1> DEFINE v == [t \in 0..n - 1 |-> Row(first + t * d, k)]
           ratio == [j \in Indices(k) |-> Power[(d * j) % 255]]
<1>5. ASSUME NEW j \in Indices(k)
      PROVE  (d * j) % 255 \in 0..254
  <2>1. j \in Nat
    BY DEF Indices
  <2>2. d * j \in Nat
    BY <2>1
  <2> QED BY <2>2
<1>6. ASSUME NEW t \in 0..n - 1
      PROVE  /\ first + t * d \in Nat /\ first + t * d >= k
             /\ v[t] = Row(first + t * d, k)
  <2>1. t * d \in Nat
    OBVIOUS
  <2> QED BY <1>4, <2>1
<1>7. Against(k, n, v, x)
  BY <1>1, <1>4, <1>6 DEF Against
<1>8. Geometric(k, n, v, ratio)
  <2>1. ratio \in Vector(k)
    BY <1>5, PowerType DEF Vector
  <2>2. ASSUME NEW t \in 0..n - 1
        PROVE  v[t] \in Vector(k)
    BY <1>6, RowType
  <2>3. ASSUME NEW t \in 0..n - 2, NEW j \in Indices(k)
        PROVE  v[t + 1][j] = Mul(One, v[t][j], ratio[j])
    <3>1. t \in 0..n - 1 /\ t + 1 \in 0..n - 1
      OBVIOUS
    <3>2. PICK s \in Nat : s = first + t * d /\ s >= k
      BY <1>6, <3>1
    <3>3. first + (t + 1) * d = s + d
      BY <3>1, <3>2
    <3>4. v[t] = Row(s, k) /\ v[t + 1] = Row(s + d, k)
      BY <1>6, <3>1, <3>2, <3>3
    <3> QED BY <3>2, <3>4, RowsFurtherOn
  <2>4. ASSUME NEW j \in Indices(k), n > 0
        PROVE  v[0][j] # Zero
    <3>1. v[0] = Row(first, k)
      BY <1>6, <2>4
    <3>2. j \in 0..k - 1 /\ ~(first < k) /\ first - k + 1 \in Nat
      BY <1>4 DEF Indices
    <3>3. ((first - k + 1) * j) % 255 \in 0..254
      <4>1. PICK a \in Nat : a = first - k + 1
        BY <3>2
      <4>2. a * j \in Nat
        BY <3>2
      <4> QED BY <4>1, <4>2
    <3>4. Row(first, k)[j] = Power[((first - k + 1) * j) % 255]
      BY <3>2 DEF Row
    <3> QED BY <3>1, <3>3, <3>4, PowerType
  <2> HIDE DEF v, ratio
  <2> QED BY <2>1, <2>2, <2>3, <2>4 DEF Geometric
<1>9. ASSUME NEW i \in lost, NEW j \in lost, i < j
      PROVE  ratio[i] # ratio[j]
  <2>1. PICK a \in Nat, b \in Nat : a = d * i /\ b = d * j
    BY DEF Indices
  <2>2. b - a = d * (j - i)
    BY <2>1 DEF Indices
  <2>3. (b - a) % 255 # 0
    BY <1>9, <2>2 DEF ToldApart
  <2>4. PICK c \in 0..254, e \in 0..254 : c = a % 255 /\ e = b % 255
    <3>1. a % 255 \in 0..254 /\ b % 255 \in 0..254
      OBVIOUS
    <3> QED BY <3>1
  <2>5. c # e
    BY <2>3, <2>4
  <2>6. ratio[i] = Power[c] /\ ratio[j] = Power[e]
    BY <2>1, <2>4
  <2>7. Power[c] # Power[e]
    BY <2>5, LogOfPower, Zenon
  <2> QED BY <2>6, <2>7
<1>10. \A i, j \in lost : ratio[i] = ratio[j] => i = j
  <2> HIDE DEF ratio
  <2> QED BY <1>9 DEF Indices
<1> HIDE DEF v, ratio
<1> QED BY <1>2, <1>3, <1>7, <1>8, <1>10, GeometricRows

(* All source symbols but those of `lost' arrived, and as many consecutive repair
   symbols as are lost. *)
LostBurst(k, symbol, lost) == LostRun(k, symbol, lost, 1)

(* Consecutive repair symbols make up for as many lost source symbols, whichever
   they are, in every block the field has room for. *)
THEOREM LostBurstIsRegular ==
    ASSUME NEW k \in 0..255, NEW symbol \in [Indices(k) -> Nat],
           NEW lost \in SUBSET Indices(k), LostBurst(k, symbol, lost)
    PROVE  Regular(k, ReceivedRows(k, symbol))
<1>1. ASSUME NEW q1 \in lost, NEW q2 \in lost, q1 < q2
      PROVE  (1 * (q2 - q1)) % 255 # 0
  <2>1. q2 - q1 \in 1..254
    BY <1>1, SMTT(30) DEF Indices
  <2> QED BY <2>1
<1> QED BY <1>1, LostRunIsRegular DEF LostBurst, ToldApart
(* All source symbols but q arrived, and q or a repair symbol. *)
OneLost(k, symbol, q) ==
    /\ \A s \in Indices(k) \ {q} : \E i \in Indices(k) : symbol[i] = s
    /\ \E i \in Indices(k) : symbol[i] = q \/ symbol[i] >= k

(* Any repair symbol makes up for the loss of any one source symbol. *)
THEOREM OneLostIsRegular ==
    ASSUME NEW k \in Nat, NEW symbol \in [Indices(k) -> Nat], NEW q \in Indices(k),
           OneLost(k, symbol, q)
    PROVE  Regular(k, ReceivedRows(k, symbol))
<1>1. PICK i \in Indices(k) : symbol[i] = q \/ symbol[i] >= k
  BY DEF OneLost
<1>2. Cardinality({q}) = 1 /\ Cardinality({}) = 0
  BY FS_Singleton, FS_EmptySet
<1>3. CASE symbol[i] = q
  <2>1. LostRun(k, symbol, {}, 1)
    <3>1. \A s \in Indices(k) \ {} : \E l \in Indices(k) : symbol[l] = s
      BY <1>3 DEF OneLost
    <3>2. k >= k /\ 0..Cardinality({}) - 1 = {}
      BY <1>2
    <3> QED BY <3>1, <3>2 DEF LostRun
  <2>2. ToldApart({}, 1)
    BY DEF ToldApart
  <2> QED BY <2>1, <2>2, LostRunIsRegular
<1>4. CASE symbol[i] >= k
  <2>1. \A t \in 0..Cardinality({q}) - 1 : symbol[i] = symbol[i] + t * 1
    BY <1>2
  <2>2. LostRun(k, symbol, {q}, 1)
    BY <1>4, <2>1 DEF OneLost, LostRun
  <2>3. ToldApart({q}, 1)
    BY DEF ToldApart, Indices
  <2> QED BY <2>2, <2>3, LostRunIsRegular
<1> QED BY <1>1, <1>3, <1>4

(* All source symbols but q1 and q2 arrived, and two repair symbols whose rows
   tell columns q1 and q2 apart. *)
TwoLost(k, symbol, q1, q2) ==
    /\ \A s \in Indices(k) \ {q1, q2} : \E i \in Indices(k) : symbol[i] = s
    /\ \E i, j \in Indices(k) :
          /\ k <= symbol[i] /\ symbol[i] < symbol[j]
          /\ ((symbol[j] - symbol[i]) * (q2 - q1)) % 255 # 0

(* Two repair symbols make up for the loss of two source symbols when 255 does not
   divide the product of the distances between the two and between the others. *)
THEOREM TwoLostIsRegular ==
    ASSUME NEW k \in Nat, NEW symbol \in [Indices(k) -> Nat],
           NEW q1 \in Indices(k), NEW q2 \in Indices(k), q1 < q2,
           TwoLost(k, symbol, q1, q2)
    PROVE  Regular(k, ReceivedRows(k, symbol))
<1>1. PICK i \in Indices(k), j \in Indices(k) :
          /\ k <= symbol[i] /\ symbol[i] < symbol[j]
          /\ ((symbol[j] - symbol[i]) * (q2 - q1)) % 255 # 0
  BY DEF TwoLost
<1>2. PICK d \in Nat, s \in Nat : d = symbol[j] - symbol[i] /\ s = symbol[i]
  BY <1>1
<1>3. q1 # q2
  BY DEF Indices
<1>4. Cardinality({q1, q2}) = 2
  <2>1. Cardinality({q1} \cup {q2}) = 1 + 1
    <3>1. IsFiniteSet({q1}) /\ Cardinality({q1}) = 1 /\ q2 \notin {q1}
      BY <1>3, FS_Singleton
    <3> QED BY <3>1, FS_AddElement
  <2>2. {q1} \cup {q2} = {q1, q2}
    OBVIOUS
  <2> QED BY <2>1, <2>2
<1>5. \A t \in 0..Cardinality({q1, q2}) - 1 : \E l \in Indices(k) : symbol[l] = s + t * d
  <2>1. s + 0 * d = symbol[i] /\ s + 1 * d = symbol[j]
    BY <1>2
  <2>2. 0..Cardinality({q1, q2}) - 1 = {0, 1}
    BY <1>4
  <2> QED BY <2>1, <2>2
<1>6. LostRun(k, symbol, {q1, q2}, d)
  BY <1>1, <1>2, <1>5 DEF TwoLost, LostRun
<1>7. ASSUME NEW p1 \in {q1, q2}, NEW p2 \in {q1, q2}, p1 < p2
      PROVE  (d * (p2 - p1)) % 255 # 0
  <2>1. p1 = q1 /\ p2 = q2
    BY <1>7 DEF Indices
  <2> QED BY <1>1, <1>2, <2>1
<1> QED BY <1>6, <1>7, LostRunIsRegular DEF ToldApart

(* All source symbols but q1 and q2 arrived, and two different repair symbols. *)
AllButTwo(k, symbol, q1, q2) ==
    /\ \A s \in Indices(k) \ {q1, q2} : \E i \in Indices(k) : symbol[i] = s
    /\ \E i, j \in Indices(k) : k <= symbol[i] /\ symbol[i] < symbol[j]

(* In a block of at most 51 source and 15 repair symbols any two repair symbols
   make up for any two source symbols: 255 does not divide a product of numbers up
   to 14 and 50.  BlindIsSingular is why 51 is the most. *)
THEOREM SmallBlocksLoseTwo ==
    ASSUME NEW k \in 0..51, NEW symbol \in [Indices(k) -> 0..k + 14],
           NEW q1 \in Indices(k), NEW q2 \in Indices(k), q1 < q2,
           AllButTwo(k, symbol, q1, q2)
    PROVE  TwoLost(k, symbol, q1, q2)
<1>1. ASSUME NEW d \in 1..14, NEW e \in 1..50
      PROVE  (d * e) % 255 # 0
  OBVIOUS
<1>2. PICK i \in Indices(k), j \in Indices(k) : k <= symbol[i] /\ symbol[i] < symbol[j]
  BY DEF AllButTwo
<1>3. PICK d \in 1..14 : d = symbol[j] - symbol[i]
  BY <1>2
<1>4. PICK e \in 1..50 : e = q2 - q1
  BY DEF Indices
<1>5. ((symbol[j] - symbol[i]) * (q2 - q1)) % 255 # 0
  BY <1>1, <1>3, <1>4
<1> QED BY <1>2, <1>5 DEF AllButTwo, TwoLost

-----------------------------------------------------------------------------
(* Any K distinct symbols *)

(* What two repair rows d apart, times an x that is zero but for entries a, b and c,
   say of entries b and c. *)
Level(k, s, d, x, a, j) ==
    Mul(One, Row(s, k)[j], Mul(One, x[j], Xor(Power[(d * j) % 255], Power[(d * a) % 255])))

LEMMA TwoRowsOfThree ==
    ASSUME NEW k \in Nat, NEW s \in Nat, s >= k, NEW d \in Nat,
           NEW a \in Indices(k), NEW b \in Indices(k), NEW c \in Indices(k), b # c, a # b, a # c,
           NEW x \in Vector(k), Within(k, x, {a, b, c}),
           Dot(k, Row(s, k), x) = Zero, Dot(k, Row(s + d, k), x) = Zero
    PROVE  Level(k, s, d, x, a, b) = Level(k, s, d, x, a, c)
<1> DEFINE ratio == [j \in Indices(k) |-> Power[(d * j) % 255]]
           z == [j \in Indices(k) |-> Mul(One, x[j], Xor(ratio[j], ratio[a]))]
           f == [j \in Indices(k) |-> Mul(One, Row(s, k)[j], z[j])]
<1>1. ratio \in Vector(k)
  <2>1. \A j \in Indices(k) : (d * j) % 255 \in 0..254
    <3> SUFFICES ASSUME NEW j \in Indices(k)
                 PROVE  (d * j) % 255 \in 0..254
      OBVIOUS
    <3>1. d * j \in Nat
      BY DEF Indices
    <3> QED BY <3>1
  <2> QED BY <2>1, PowerType DEF Vector
<1>2. Row(s, k) \in Vector(k) /\ Row(s + d, k) \in Vector(k)
  BY RowType
<1>3. \A j \in Indices(k) : Row(s + d, k)[j] = Mul(One, Row(s, k)[j], ratio[j])
  BY RowsFurtherOn
<1>4. \A j \in Indices(k) : z[j] = Mul(One, x[j], Xor(ratio[j], ratio[a]))
  OBVIOUS
<1>5. ratio[a] \in Byte
  BY <1>1 DEF Vector
<1>6. Dot(k, Row(s, k), z) = Zero
  <2> HIDE DEF ratio, z
  <2> QED BY <1>1, <1>2, <1>3, <1>4, <1>5, TwoRowsAgainst
<1>7. /\ f[b] = Level(k, s, d, x, a, b) /\ f[c] = Level(k, s, d, x, a, c)
  BY DEF Level
<1>8. \A j \in Indices(k) : z[j] \in Byte /\ f[j] \in Byte
  <2> SUFFICES ASSUME NEW j \in Indices(k)
               PROVE  z[j] \in Byte /\ f[j] \in Byte
    OBVIOUS
  <2>1. ratio[j] \in Byte /\ x[j] \in Byte /\ Row(s, k)[j] \in Byte
    BY <1>1, <1>2 DEF Vector
  <2>2. f[j] = Mul(One, Row(s, k)[j], z[j])
    OBVIOUS
  <2>3. z[j] \in Byte
    <3> HIDE DEF ratio, z
    <3>1. Xor(ratio[j], ratio[a]) \in Byte
      BY <1>5, <2>1, XorLaws
    <3>2. z[j] = Mul(One, x[j], Xor(ratio[j], ratio[a]))
      BY <1>4
    <3> QED BY <2>1, <3>1, <3>2, MulType
  <2> HIDE DEF ratio, z, f
  <2> QED BY <2>1, <2>2, <2>3, MulType
<1>9. \A j \in 0..k - 1 : j # b /\ j # c => f[j] = Zero
  <2> SUFFICES ASSUME NEW j \in Indices(k), j # b, j # c
               PROVE  f[j] = Zero
    BY DEF Indices
  <2>1. z[j] = Zero
    <3> HIDE DEF ratio
    <3>1. CASE j = a
      BY <1>5, <3>1, MulZero, XorLaws
    <3>2. CASE j # a
      BY <3>2, MulZero DEF Within
    <3> QED BY <3>1, <3>2
  <2>2. f[j] = Mul(One, Row(s, k)[j], z[j])
    OBVIOUS
  <2> HIDE DEF ratio, z, f
  <2> QED BY <2>1, <2>2, MulZero
<1>10. Dot(k, Row(s, k), z) = Sum(k, f)
  BY DEF Dot
<1> HIDE DEF ratio, z, f
<1>11. Sum(k, f) = Xor(f[b], f[c])
  <2>1. b \in 0..k - 1 /\ c \in 0..k - 1 /\ f[b] \in Byte /\ f[c] \in Byte
    BY <1>8 DEF Indices
  <2> QED BY <1>9, <2>1, SumOfPair
<1> QED BY <1>6, <1>7, <1>8, <1>10, <1>11, XorOfDifferent

(* A repair symbol, the next and the third after it; or it, the second and the third. *)
ThreeRepairs(k, s, x) ==
    /\ Dot(k, Row(s, k), x) = Zero
    /\ Dot(k, Row(s + 1, k), x) = Zero \/ Dot(k, Row(s + 2, k), x) = Zero
    /\ Dot(k, Row(s + 3, k), x) = Zero

LEMMA ThreeColumns ==
    ASSUME NEW k \in Nat, NEW s \in Nat, s >= k,
           NEW a \in Indices(k), NEW b \in Indices(k), NEW c \in Indices(k),
           b # c, a # b, a # c, a <= 127, b <= 127, c <= 127,
           NEW x \in Vector(k), Within(k, x, {a, b, c}), ThreeRepairs(k, s, x),
           Apart(Power[a], Power[b], Power[c])
    PROVE  x[b] = Zero
<1>1. PICK u \in Byte, v \in Byte, w \in Byte :
          u = Power[a] /\ v = Power[b] /\ w = Power[c]
  <2>1. a \in 0..254 /\ b \in 0..254 /\ c \in 0..254
    BY DEF Indices
  <2> QED BY <2>1, PowerType
<1>2. u # v /\ v # w /\ u # w
  <2>1. a \in 0..254 /\ b \in 0..254 /\ c \in 0..254
    BY DEF Indices
  <2> QED BY <1>1, <2>1, LogOfPower, Zenon
<1>3. \A j \in {a, b, c} : /\ Power[(1 * j) % 255] = Power[j]
                           /\ Power[(2 * j) % 255] = Mul(One, Power[j], Power[j])
  <2> SUFFICES ASSUME NEW j \in {a, b, c}
               PROVE  /\ Power[(1 * j) % 255] = Power[j]
                      /\ Power[(2 * j) % 255] = Mul(One, Power[j], Power[j])
    OBVIOUS
  <2>1. j \in 0..127 /\ j \in 0..254
    BY DEF Indices
  <2>2. (1 * j) % 255 = j /\ (2 * j) % 255 = (j + j) % 255
    BY <2>1
  <2>3. Mul(One, Power[j], Power[j]) = Power[(j + j) % 255]
    BY <2>1, MulOfPowers, ZenonT(40)
  <2> QED BY <2>2, <2>3
<1>4. PICK p \in Byte, q \in Byte : /\ p = Xor(v, u) /\ q = Xor(w, u)
                                   /\ p # Zero /\ q # Zero
  BY <1>2, XorOfDifferent
<1>5. PICK vv \in Byte, ww \in Byte, uu \in Byte :
          vv = Mul(One, v, v) /\ ww = Mul(One, w, w) /\ uu = Mul(One, u, u)
  BY MulType
<1>6. Xor(vv, uu) = Mul(One, p, p) /\ Xor(ww, uu) = Mul(One, q, q)
  BY <1>4, <1>5, SquareOfSum
<1>7. PICK xb \in Byte, xc \in Byte : xb = x[b] /\ xc = x[c]
  BY DEF Vector
<1>8. PICK rb \in Byte, rc \in Byte : rb = Row(s, k)[b] /\ rc = Row(s, k)[c] /\ rb # Zero
  <2>1. b \in 0..k - 1 /\ ~(s < k) /\ s - k + 1 \in Nat
    BY DEF Indices
  <2>2. (s - k + 1) * b \in Nat
    BY <2>1
  <2>3. Row(s, k)[b] = Power[((s - k + 1) * b) % 255]
    BY <2>1 DEF Row
  <2>4. Row(s, k) \in Vector(k)
    BY RowType
  <2> QED BY <2>2, <2>3, <2>4, PowerType DEF Vector
<1>8a. \A d \in Nat, j \in Indices(k) :
          Row(s + d, k)[j] = Mul(One, Row(s, k)[j], Power[(d * j) % 255])
  BY RowsFurtherOn
<1>9. PICK yb \in Byte, yc \in Byte :
          yb = Mul(One, rb, Mul(One, xb, p)) /\ yc = Mul(One, rc, Mul(One, xc, q))
  BY MulType
<1>10. yb = Zero
  <2>1. CASE Dot(k, Row(s + 1, k), x) = Zero
    <3>1. Level(k, s, 1, x, a, b) = Level(k, s, 1, x, a, c)
      BY <2>1, TwoRowsOfThree DEF ThreeRepairs
    <3>2. Level(k, s, 1, x, a, b) = yb /\ Level(k, s, 1, x, a, c) = yc
      BY <1>1, <1>3, <1>4, <1>7, <1>8, <1>9 DEF Level
    <3>3. Level(k, s + 1, 2, x, a, b) = Level(k, s + 1, 2, x, a, c)
      <4>1. s + 1 \in Nat /\ s + 1 >= k /\ s + 1 + 2 = s + 3
        OBVIOUS
      <4>2. Dot(k, Row(s + 1 + 2, k), x) = Zero
        BY <4>1 DEF ThreeRepairs
      <4> QED BY <2>1, <4>1, <4>2, TwoRowsOfThree
    <3>4. Row(s + 1, k)[b] = Mul(One, rb, v) /\ Row(s + 1, k)[c] = Mul(One, rc, w)
      <4>1. /\ Row(s + 1, k)[b] = Mul(One, Row(s, k)[b], Power[(1 * b) % 255])
            /\ Row(s + 1, k)[c] = Mul(One, Row(s, k)[c], Power[(1 * c) % 255])
        BY <1>8a
      <4>2. Power[(1 * b) % 255] = v /\ Power[(1 * c) % 255] = w
        BY <1>1, <1>3
      <4> QED BY <1>8, <4>1, <4>2
    <3>5. Level(k, s + 1, 2, x, a, b) = Mul(One, Mul(One, rb, v), Mul(One, xb, Mul(One, p, p)))
      BY <1>1, <1>3, <1>5, <1>6, <1>7, <3>4 DEF Level
    <3>6. Level(k, s + 1, 2, x, a, c) = Mul(One, Mul(One, rc, w), Mul(One, xc, Mul(One, q, q)))
      BY <1>1, <1>3, <1>5, <1>6, <1>7, <3>4 DEF Level
    <3>7. Mul(One, Mul(One, rb, v), Mul(One, xb, Mul(One, p, p))) = Mul(One, Mul(One, v, p), yb)
      <4>1. PICK y \in Byte : y = Mul(One, xb, Mul(One, p, p))
        BY MulType
      <4>2. Mul(One, Mul(One, rb, v), y) = Mul(One, v, Mul(One, rb, y))
        BY Rearranged
      <4>3. Mul(One, rb, y) = Mul(One, p, yb)
        BY <1>9, <4>1, Rearranged
      <4>4. Mul(One, v, Mul(One, p, yb)) = Mul(One, Mul(One, v, p), yb)
        BY MulAssociates
      <4> QED BY <4>1, <4>2, <4>3, <4>4
    <3>8. Mul(One, Mul(One, rc, w), Mul(One, xc, Mul(One, q, q))) = Mul(One, Mul(One, w, q), yc)
      <4>1. PICK y \in Byte : y = Mul(One, xc, Mul(One, q, q))
        BY MulType
      <4>2. Mul(One, Mul(One, rc, w), y) = Mul(One, w, Mul(One, rc, y))
        BY Rearranged
      <4>3. Mul(One, rc, y) = Mul(One, q, yc)
        BY <1>9, <4>1, Rearranged
      <4>4. Mul(One, w, Mul(One, q, yc)) = Mul(One, Mul(One, w, q), yc)
        BY MulAssociates
      <4> QED BY <4>1, <4>2, <4>3, <4>4
    <3>9. PICK vp \in Byte, wq \in Byte : vp = Mul(One, v, p) /\ wq = Mul(One, w, q)
      BY MulType
    <3>10. Mul(One, One, yb) = Mul(One, One, yc) /\ Mul(One, vp, yb) = Mul(One, wq, yc)
      BY <3>1, <3>2, <3>3, <3>5, <3>6, <3>7, <3>8, <3>9
    <3>11. Mul(One, One, wq) # Mul(One, One, vp)
      <4>1. Xor(v, w) # u
        BY <1>1 DEF Apart, Xor, Zero
      <4>2. vp # wq
        BY <1>2, <1>4, <3>9, <4>1, SquaresApart
      <4> QED BY <4>2, MulOne
    <3>12. Crossed(One, One, vp, wq, yb, yc) /\ One \in Byte
      BY <3>10, <3>11, XorLaws DEF Crossed
    <3> QED BY <3>12, TwoByTwo, Zenon
  <2>2. CASE Dot(k, Row(s + 2, k), x) = Zero
    <3>1. Level(k, s, 2, x, a, b) = Level(k, s, 2, x, a, c)
      BY <2>2, TwoRowsOfThree DEF ThreeRepairs
    <3>2. Level(k, s + 2, 1, x, a, b) = Level(k, s + 2, 1, x, a, c)
      <4>1. s + 2 \in Nat /\ s + 2 >= k /\ s + 2 + 1 = s + 3
        OBVIOUS
      <4>2. Dot(k, Row(s + 2 + 1, k), x) = Zero
        BY <4>1 DEF ThreeRepairs
      <4> QED BY <2>2, <4>1, <4>2, TwoRowsOfThree
    <3>3. /\ Level(k, s, 2, x, a, b) = Mul(One, rb, Mul(One, xb, Mul(One, p, p)))
          /\ Level(k, s, 2, x, a, c) = Mul(One, rc, Mul(One, xc, Mul(One, q, q)))
      BY <1>1, <1>3, <1>5, <1>6, <1>7, <1>8 DEF Level
    <3>4. /\ Mul(One, rb, Mul(One, xb, Mul(One, p, p))) = Mul(One, p, yb)
          /\ Mul(One, rc, Mul(One, xc, Mul(One, q, q))) = Mul(One, q, yc)
      BY <1>9, Rearranged, SMTT(30)
    <3>5. Row(s + 2, k)[b] = Mul(One, rb, vv) /\ Row(s + 2, k)[c] = Mul(One, rc, ww)
      <4>1. /\ Row(s + 2, k)[b] = Mul(One, Row(s, k)[b], Power[(2 * b) % 255])
            /\ Row(s + 2, k)[c] = Mul(One, Row(s, k)[c], Power[(2 * c) % 255])
        BY <1>8a
      <4>2. Power[(2 * b) % 255] = vv /\ Power[(2 * c) % 255] = ww
        BY <1>1, <1>3, <1>5
      <4> QED BY <1>8, <4>1, <4>2
    <3>6. /\ Level(k, s + 2, 1, x, a, b) = Mul(One, Mul(One, rb, vv), Mul(One, xb, p))
          /\ Level(k, s + 2, 1, x, a, c) = Mul(One, Mul(One, rc, ww), Mul(One, xc, q))
      BY <1>1, <1>3, <1>4, <1>7, <3>5 DEF Level
    <3>7. /\ Mul(One, Mul(One, rb, vv), Mul(One, xb, p)) = Mul(One, vv, yb)
          /\ Mul(One, Mul(One, rc, ww), Mul(One, xc, q)) = Mul(One, ww, yc)
      <4>1. PICK m \in Byte, n \in Byte : m = Mul(One, xb, p) /\ n = Mul(One, xc, q)
        BY MulType
      <4>2. /\ Mul(One, Mul(One, rb, vv), m) = Mul(One, vv, Mul(One, rb, m))
            /\ Mul(One, Mul(One, rc, ww), n) = Mul(One, ww, Mul(One, rc, n))
        BY Rearranged
      <4> QED BY <1>9, <4>1, <4>2
    <3>8. Mul(One, vv, yb) = Mul(One, ww, yc) /\ Mul(One, p, yb) = Mul(One, q, yc)
      BY <3>1, <3>2, <3>3, <3>4, <3>6, <3>7
    <3>9. Mul(One, vv, q) # Mul(One, ww, p)
      <4>1. Mul(One, u, Xor(v, w)) # Mul(One, v, w)
        <5>1. Xor(Mul(One, u, v), Mul(One, u, w)) # Mul(One, v, w)
          BY <1>1, MulType, XorLaws DEF Apart
        <5> QED BY <5>1, MulDistributes
      <4> QED BY <1>2, <1>4, <1>5, <4>1, ProductsApart
    <3>10. Crossed(vv, ww, p, q, yb, yc)
      BY <3>8, <3>9 DEF Crossed
    <3> QED BY <3>10, TwoByTwo, Zenon
  <2> QED BY <2>1, <2>2 DEF ThreeRepairs
<1>11. Mul(One, xb, p) = Zero
  <2>1. PICK m \in Byte : m = Mul(One, xb, p)
    BY MulType
  <2>2. Mul(One, m, rb) = Zero
    BY <1>9, <1>10, <2>1, MulCommutes
  <2> QED BY <1>8, <2>1, <2>2, NoZeroDivisors
<1> QED BY <1>4, <1>7, <1>11, NoZeroDivisors

DistinctSymbols(k, symbol) == \A i, j \in Indices(k) : symbol[i] = symbol[j] => i = j

(* The source symbols that did not arrive, and the repair symbols that did. *)
Lost(k, symbol) == {s \in Indices(k) : \A i \in Indices(k) : symbol[i] # s}

Repairs(k, symbol) == {symbol[i] : i \in Indices(k)} \ Indices(k)

LEMMA AsManyLostAsRepairs ==
    ASSUME NEW k \in Nat, NEW symbol \in [Indices(k) -> Nat], DistinctSymbols(k, symbol)
    PROVE  /\ IsFiniteSet(Lost(k, symbol)) /\ IsFiniteSet(Repairs(k, symbol))
           /\ Cardinality(Lost(k, symbol)) = Cardinality(Repairs(k, symbol))
<1> DEFINE A == {symbol[i] : i \in Indices(k)}
           S == Indices(k)
<1>1. IsFiniteSet(S)
  BY FS_Interval DEF Indices
<1>2. symbol \in Surjection(S, A) /\ symbol \in Injection(S, A)
  BY DEF Surjection, Injection, IsInjective, DistinctSymbols
<1>3. IsFiniteSet(A) /\ Cardinality(A) = Cardinality(S)
  BY <1>1, <1>2, FS_Surjection
<1>4. Lost(k, symbol) = S \ A /\ Repairs(k, symbol) = A \ S
  BY DEF Lost, Repairs
<1> HIDE DEF A, S
<1>5. IsFiniteSet(S \ A) /\ Cardinality(S \ A) = Cardinality(S) - Cardinality(S \cap A)
  BY <1>1, FS_Difference
<1>6. IsFiniteSet(A \ S) /\ Cardinality(A \ S) = Cardinality(A) - Cardinality(A \cap S)
  BY <1>3, FS_Difference
<1>7. A \cap S = S \cap A
  OBVIOUS
<1> QED BY <1>3, <1>4, <1>5, <1>6, <1>7

(* So many numbers at equal distances. *)
Spaced(S, c, d) == \E first \in S : \A t \in 0..c - 1 : first + t * d \in S

(* Of four numbers in a row, any are equally spaced but the first, the last and one
   of the two between. *)
LEMMA SpacedInFour ==
    ASSUME NEW k \in Nat, NEW S \in SUBSET (k..k + 3), S # {}
    PROVE  \/ \E d \in 1..3 : Spaced(S, Cardinality(S), d) /\ (k + 3 \notin S => d <= 2)
           \/ Cardinality(S) = 3 /\ k \in S /\ (k + 1 \in S \/ k + 2 \in S) /\ k + 3 \in S
<1>1. IsFiniteSet(k..k + 3) /\ Cardinality(k..k + 3) = 4
  BY FS_Interval
<1>2. IsFiniteSet(S) /\ Cardinality(S) \in 1..4 /\ (Cardinality(S) = 4 => S = k..k + 3)
  <2>1. IsFiniteSet(S) /\ Cardinality(S) <= 4 /\ (4 = Cardinality(S) => k..k + 3 = S)
    BY <1>1, FS_Subset, ZenonT(40)
  <2>2. Cardinality(S) \in Nat /\ Cardinality(S) # 0
    BY <2>1, FS_EmptySet, FS_CardinalityType
  <2> QED BY <2>1, <2>2
<1>3. PICK c \in 1..4 : c = Cardinality(S)
  BY <1>2
<1>4. CASE c = 1
  <2>1. PICK a \in S : TRUE
    OBVIOUS
  <2>2. \A t \in 0..c - 1 : a + t * 1 \in S
    BY <1>4, <2>1
  <2> QED BY <1>3, <2>1, <2>2 DEF Spaced
<1>5. CASE c = 2
  <2>1. PICK a \in S : TRUE
    OBVIOUS
  <2>2. S \ {a} # {}
    <3>1. IsFiniteSet(S \ {a}) /\ Cardinality(S \ {a}) = 1
      <4>1. IsFiniteSet(S \ {a}) /\ Cardinality(S \ {a}) = Cardinality(S) - 1
        BY <1>2, <2>1, FS_RemoveElement
      <4> QED BY <1>3, <1>5, <4>1
    <3> QED BY <3>1, FS_EmptySet
  <2>3. PICK b \in S \ {a} : TRUE
    BY <2>2
  <2>4. PICK l \in S, h \in S : l < h
    BY <2>1, <2>3
  <2>5. PICK d \in 1..3 : d = h - l /\ (k + 3 \notin S => d <= 2)
    BY <2>4
  <2>6. \A t \in 0..c - 1 : l + t * d \in S
    <3>1. l + 0 * d = l /\ l + 1 * d = h
      BY <2>5
    <3> QED BY <1>5, <3>1
  <2> QED BY <1>3, <2>4, <2>5, <2>6 DEF Spaced
<1>6. CASE c = 3
  <2>1. PICK o : (k..k + 3) \ S = {o}
    <3>1. PICK U : U = k..k + 3
      OBVIOUS
    <3>2. IsFiniteSet(U \ S) /\ Cardinality(U \ S) = Cardinality(U) - Cardinality(U \cap S)
      BY <1>1, <3>1, FS_Difference
    <3>3. U \cap S = S
      BY <3>1
    <3>4. Cardinality(U \ S) = 1
      <4>1. Cardinality(U) = 4
        BY <1>1, <3>1
      <4>2. Cardinality(U \cap S) = 3
        BY <1>3, <1>6, <3>3
      <4> QED BY <3>2, <4>1, <4>2
    <3> QED BY <3>1, <3>2, <3>4, FS_Singleton
  <2>2. CASE o = k
    <3>1. k + 1 \in S /\ k + 2 \in S /\ k + 3 \in S
      BY <2>1, <2>2
    <3>2. \A t \in 0..c - 1 : (k + 1) + t * 1 \in S
      BY <1>6, <3>1
    <3> QED BY <1>3, <3>1, <3>2 DEF Spaced
  <2>3. CASE o = k + 3
    <3>1. k \in S /\ k + 1 \in S /\ k + 2 \in S
      BY <2>1, <2>3
    <3>2. \A t \in 0..c - 1 : k + t * 1 \in S
      BY <1>6, <3>1
    <3> QED BY <1>3, <3>1, <3>2 DEF Spaced
  <2>4. CASE o # k /\ o # k + 3
    <3>1. k \in S /\ k + 3 \in S /\ (k + 1 \in S \/ k + 2 \in S)
      BY <2>1, <2>4
    <3> QED BY <1>3, <1>6, <3>1
  <2> QED BY <2>2, <2>3, <2>4
<1>7. CASE c = 4
  <2>1. S = k..k + 3
    BY <1>2, <1>3, <1>7
  <2>2. \A t \in 0..c - 1 : k + t * 1 \in S
    BY <1>7, <2>1
  <2>3. k \in S /\ k + 3 \in S
    BY <2>1
  <2> QED BY <1>3, <2>2, <2>3 DEF Spaced
<1> QED BY <1>4, <1>5, <1>6, <1>7

(* Three lost symbols of a small block, and three repair symbols not equally
   spaced. *)
LEMMA ThreeLostGiveZero ==
    ASSUME NEW k \in 0..21, NEW s \in Nat, s >= k, NEW T \in SUBSET Indices(k),
           IsFiniteSet(T), Cardinality(T) = 3,
           NEW x \in Vector(k), Within(k, x, T), ThreeRepairs(k, s, x)
    PROVE  \A j \in Indices(k) : x[j] = Zero
<1>1. PICK a \in T, b \in T, c \in T : a # b /\ a # c /\ b # c /\ T = {a, b, c}
  <2>1. PICK a \in T : TRUE
    BY FS_EmptySet
  <2>2. IsFiniteSet(T \ {a}) /\ Cardinality(T \ {a}) = 2
    BY <2>1, FS_RemoveElement
  <2>3. PICK b \in T \ {a} : TRUE
    BY <2>2, FS_EmptySet
  <2>4. IsFiniteSet((T \ {a}) \ {b}) /\ Cardinality((T \ {a}) \ {b}) = 1
    <3>1. /\ IsFiniteSet((T \ {a}) \ {b})
          /\ Cardinality((T \ {a}) \ {b}) = Cardinality(T \ {a}) - 1
      BY <2>2, <2>3, FS_RemoveElement
    <3> QED BY <2>2, <3>1
  <2>5. PICK c : (T \ {a}) \ {b} = {c}
    BY <2>4, FS_Singleton
  <2> QED BY <2>1, <2>3, <2>5
<1>2. /\ a \in Indices(k) /\ b \in Indices(k) /\ c \in Indices(k)
      /\ a \in 0..20 /\ b \in 0..20 /\ c \in 0..20 /\ a <= 127 /\ b <= 127 /\ c <= 127
      /\ k \in Nat
  BY <1>1 DEF Indices
<1>3. Within(k, x, {a, b, c}) /\ Within(k, x, {a, c, b}) /\ Within(k, x, {b, a, c})
  <2>1. T = {a, c, b} /\ T = {b, a, c}
    BY <1>1
  <2> QED BY <1>1, <2>1
<1>4. x[b] = Zero
  <2>1. Apart(Power[a], Power[b], Power[c])
    BY <1>1, <1>2, ApartIfDistinct
  <2> QED BY <1>1, <1>2, <1>3, <2>1, ThreeColumns
<1>5. x[c] = Zero
  <2>1. Apart(Power[a], Power[c], Power[b])
    BY <1>1, <1>2, ApartIfDistinct
  <2> QED BY <1>1, <1>2, <1>3, <2>1, ThreeColumns
<1>6. x[a] = Zero
  <2>1. Apart(Power[b], Power[a], Power[c])
    BY <1>1, <1>2, ApartIfDistinct
  <2> QED BY <1>1, <1>2, <1>3, <2>1, ThreeColumns
<1> QED BY <1>1, <1>4, <1>5, <1>6 DEF Within

(* Blocks too small, or with too few repair symbols, for any K distinct symbols of
   which none is a fifth repair symbol to be without an inverse. *)
FewEnough(k, symbol) ==
    /\ \A i \in Indices(k) : symbol[i] <= k + 3
    /\ k <= 21 \/ (k <= 255 /\ \A i \in Indices(k) : symbol[i] < k + 3)

(* Any K distinct symbols restore a block of at most 21 source and 4 repair symbols,
   or of at most 3 repair symbols and as many source symbols as the field has room
   for. *)
THEOREM AnyKIsRegular ==
    ASSUME NEW k \in Nat, NEW symbol \in [Indices(k) -> Nat],
           DistinctSymbols(k, symbol), FewEnough(k, symbol)
    PROVE  Regular(k, ReceivedRows(k, symbol))
<1>1. PICK lost \in SUBSET Indices(k) : lost = Lost(k, symbol)
  BY DEF Lost
<1>2. PICK S \in SUBSET (k..k + 3) : S = Repairs(k, symbol)
  <2>1. \A i \in Indices(k) : symbol[i] \in Nat /\ symbol[i] <= k + 3
    BY DEF FewEnough
  <2>2. \A s \in Repairs(k, symbol) : s \in k..k + 3
    <3> SUFFICES ASSUME NEW s \in Repairs(k, symbol)
                 PROVE  s \in k..k + 3
      OBVIOUS
    <3>1. PICK i \in Indices(k) : s = symbol[i] /\ s \notin Indices(k)
      BY DEF Repairs
    <3> QED BY <2>1, <3>1 DEF Indices
  <2> QED BY <2>2
<1>3. IsFiniteSet(lost) /\ IsFiniteSet(S) /\ Cardinality(lost) = Cardinality(S)
  BY <1>1, <1>2, AsManyLostAsRepairs
<1>4. \A s \in Indices(k) \ lost : \E i \in Indices(k) : symbol[i] = s
  BY <1>1 DEF Lost
<1>5. \A s \in S : s \in Nat /\ s >= k /\ \E i \in Indices(k) : symbol[i] = s
  BY <1>2 DEF Repairs
<1>6. CASE S = {}
  <2>1. Cardinality(lost) = 0
    BY <1>3, <1>6, FS_EmptySet
  <2>2. LostRun(k, symbol, lost, 1)
    <3>1. k >= k /\ 0..Cardinality(lost) - 1 = {}
      BY <2>1
    <3> QED BY <1>4, <3>1 DEF LostRun
  <2>3. lost = {}
    BY <1>3, <2>1, FS_EmptySet
  <2>4. ToldApart(lost, 1)
    BY <2>3 DEF ToldApart
  <2> QED BY <2>2, <2>4, LostRunIsRegular
<1>7. CASE S # {} /\ \E d \in 1..3 : Spaced(S, Cardinality(S), d) /\ (k + 3 \notin S => d <= 2)
  <2>1. PICK d \in 1..3 : Spaced(S, Cardinality(S), d) /\ (k + 3 \notin S => d <= 2)
    BY <1>7
  <2>2. LostRun(k, symbol, lost, d)
    <3>1. PICK first \in S : \A t \in 0..Cardinality(lost) - 1 : first + t * d \in S
      BY <1>3, <2>1 DEF Spaced
    <3> QED BY <1>4, <1>5, <3>1 DEF LostRun
  <2>3. k <= 21 \/ (k <= 255 /\ d <= 2)
    <3>1. k <= 21 \/ (k <= 255 /\ k + 3 \notin S)
      BY <1>2 DEF FewEnough, Repairs
    <3> QED BY <2>1, <3>1
  <2>4. ASSUME NEW q1 \in lost, NEW q2 \in lost, q1 < q2
        PROVE  (d * (q2 - q1)) % 255 # 0
    <3>1. PICK e \in 1..254 : e = q2 - q1 /\ (e <= 20 \/ d <= 2)
      BY <2>3, <2>4 DEF Indices
    <3>2. CASE d = 1
      BY <3>1, <3>2
    <3>3. CASE d = 2
      BY <3>1, <3>3
    <3>4. CASE d = 3
      BY <3>1, <3>4
    <3> QED BY <3>2, <3>3, <3>4
  <2>5. ToldApart(lost, d)
    BY <2>4 DEF ToldApart
  <2> QED BY <2>2, <2>5, LostRunIsRegular
<1>8. CASE Cardinality(S) = 3 /\ k \in S /\ (k + 1 \in S \/ k + 2 \in S) /\ k + 3 \in S
  <2> SUFFICES ASSUME NEW x \in Vector(k), Kills(k, ReceivedRows(k, symbol), x)
               PROVE  \A j \in Indices(k) : x[j] = Zero
    BY DEF Regular
  <2>1. \A i \in Indices(k) : Dot(k, Row(symbol[i], k), x) = Zero
    BY DEF Kills, ReceivedRows
  <2>2. Within(k, x, lost)
    BY <1>4, <2>1, UnitRowGives DEF Within
  <2>3. ThreeRepairs(k, k, x)
    BY <1>5, <1>8, <2>1 DEF ThreeRepairs
  <2>4. k \in 0..21
    BY <1>2, <1>8 DEF FewEnough, Repairs
  <2>5. k >= k
    OBVIOUS
  <2> QED BY <1>3, <1>8, <2>2, <2>3, <2>4, <2>5, ThreeLostGiveZero
<1> QED BY <1>6, <1>7, <1>8, SpacedInFour

(* Four repair symbols make any K distinct symbols enough exactly when there are no
   more than 21 source symbols. *)
THEOREM AnyKExactlyUpTo21 ==
    ASSUME NEW k \in Nat
    PROVE  (\A symbol \in [Indices(k) -> 0..k + 3] :
               DistinctSymbols(k, symbol) => Regular(k, ReceivedRows(k, symbol)))
           <=> k <= 21
<1>1. ASSUME k <= 21, NEW symbol \in [Indices(k) -> 0..k + 3], DistinctSymbols(k, symbol)
      PROVE  Regular(k, ReceivedRows(k, symbol))
  <2>1. symbol \in [Indices(k) -> Nat] /\ FewEnough(k, symbol)
    <3>1. \A i \in Indices(k) : symbol[i] \in 0..k + 3
      OBVIOUS
    <3>2. \A i \in Indices(k) : symbol[i] \in Nat /\ symbol[i] <= k + 3
      BY <3>1
    <3> QED BY <1>1, <3>2 DEF FewEnough
  <2> QED BY <1>1, <2>1, AnyKIsRegular
<1>2. ASSUME k > 21
      PROVE  \E symbol \in [Indices(k) -> 0..k + 3] :
                DistinctSymbols(k, symbol) /\ ~Regular(k, ReceivedRows(k, symbol))
  <2> DEFINE symbol == [i \in Indices(k) |-> IF i = 0 THEN k ELSE IF i = 10 THEN k + 1
                                             ELSE IF i = 21 THEN k + 3 ELSE i]
  <2>1. symbol \in [Indices(k) -> 0..k + 3] /\ symbol \in [Indices(k) -> Nat]
    BY DEF Indices
  <2>2. DistinctSymbols(k, symbol)
    BY DEF DistinctSymbols, Indices
  <2>3. \A i \in Indices(k) : Masked(symbol[i], k, 0, k)
    BY <1>2 DEF Masked, Indices
  <2>4. 0 + 21 < k /\ k >= k /\ 0 \in Nat
    BY <1>2
  <2> HIDE DEF symbol
  <2>5. ~Regular(k, ReceivedRows(k, symbol))
    BY <2>1, <2>3, <2>4, MaskedIsSingular
  <2> QED BY <2>1, <2>2, <2>5
<1> QED BY <1>1, <1>2

(* So it is at the 20 % of repair symbols that turbolink_engine.cpp:32 asks for:
   blocks of 20 source symbols are the first to get four. *)
THEOREM AnyKAtTwentyPercent ==
    ASSUME RepairNum = 1, RepairDen = 5, NEW k \in Nat
    PROVE  (\A symbol \in [Indices(k) -> 0..k + RepairCount(k) - 1] :
               DistinctSymbols(k, symbol) => Regular(k, ReceivedRows(k, symbol)))
           <=> k <= 21
<1>1. PICK n \in Nat : n = k \div 5 /\ (k <= 21 => n <= 4) /\ (k > 21 => n >= 4)
  OBVIOUS
<1>2. RepairCount(k) \in {1, n} /\ RepairCount(k) >= n
  <2>1. k * 1 = k
    OBVIOUS
  <2>2. RepairCount(k) = Max({1, n})
    BY <1>1, <2>1 DEF RepairCount
  <2>3. \E m \in {1, n} : \A j \in {1, n} : m >= j
    <3>1. n >= 1 \/ 1 >= n
      OBVIOUS
    <3> QED BY <3>1
  <2> QED BY <2>2, <2>3 DEF Max
<1>3. PICK c \in Nat : c = RepairCount(k) /\ (k <= 21 => c <= 4) /\ (k > 21 => c >= 4)
  BY <1>1, <1>2
<1>4. ASSUME k <= 21, NEW symbol \in [Indices(k) -> 0..k + c - 1], DistinctSymbols(k, symbol)
      PROVE  Regular(k, ReceivedRows(k, symbol))
  <2>1. symbol \in [Indices(k) -> 0..k + 3]
    <3>1. 0..k + c - 1 \subseteq 0..k + 3
      BY <1>3, <1>4
    <3> QED BY <3>1
  <2> QED BY <1>4, <2>1, AnyKExactlyUpTo21
<1>5. ASSUME k > 21
      PROVE  \E symbol \in [Indices(k) -> 0..k + c - 1] :
                DistinctSymbols(k, symbol) /\ ~Regular(k, ReceivedRows(k, symbol))
  <2>1. PICK symbol \in [Indices(k) -> 0..k + 3] :
            DistinctSymbols(k, symbol) /\ ~Regular(k, ReceivedRows(k, symbol))
    <3>1. ~(k <= 21)
      BY <1>5
    <3> QED BY <3>1, AnyKExactlyUpTo21
  <2>2. symbol \in [Indices(k) -> 0..k + c - 1]
    <3>1. 0..k + 3 \subseteq 0..k + c - 1
      BY <1>3, <1>5
    <3> QED BY <3>1
  <2> QED BY <2>1, <2>2
<1> QED BY <1>3, <1>4, <1>5
=============================================================================
