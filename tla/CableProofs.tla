----------------------------- MODULE CableProofs ----------------------------
(***************************************************************************)
(* Proofs about the editor, for any number and length of rows, any file,   *)
(* any file name and any sequence of keys.                                 *)
(***************************************************************************)
EXTENDS Cable, BdxProofs, SequenceTheorems, FiniteSetTheorems, WellFoundedInduction, TLAPS

-----------------------------------------------------------------------------
(* The inductive invariant                                                 *)

Byte == Char \cup {Newline}
Columns == 0..(EDITOR_COLS - 1)

\* Row y of b holds the string s and zeros behind it.
Holds(b, y, s) ==
  /\ Len(s) <= EDITOR_COLS - 1
  /\ \A x \in Columns : b[Row(y) + x] = IF x < Len(s) THEN s[x + 1] ELSE Nul

CableTypeOK ==
  /\ mode \in {"shell", "edit", "astray"}
  /\ dirty \in BOOLEAN /\ exists \in BOOLEAN /\ typed \in Nat
  /\ cx \in Nat /\ cy \in Nat
  /\ buffer \in [Cell -> Char \cup {Nul}]
  /\ file \in Seq(Byte)

\* While text is given, it is what the rows hold.
RowsHoldText ==
  mode = "edit" /\ text # NothingExpected =>
    /\ text \in Seq(Seq(Char)) /\ Len(text) = EDITOR_ROWS
    /\ \A y \in Rows : Holds(buffer, y, text[y + 1])

CableInv == CableTypeOK /\ RowsAreZeroPadded /\ RowsHoldText

-----------------------------------------------------------------------------
(* Numbers and rows                                                        *)

\* Products, as far as the rows need them.
LEMMA RowArith ==
  ASSUME NEW w \in Nat, NEW h \in Nat, NEW y \in Nat, NEW z \in Nat
  PROVE  /\ y * w \in Nat /\ h * w \in Nat /\ (y + 1) * w = y * w + w
         /\ y < h => y * w + w <= h * w
         /\ y < z => y * w + w <= z * w
         /\ y <= h => (h - y) * w = h * w - y * w
<1>1. \A a, b \in Nat : a * b \in Nat
  OBVIOUS
<1>2. (y + 1) * w = y * w + w
  OBVIOUS
<1>3. \A a, b \in Nat : a < b => a * w + w <= b * w
  OBVIOUS
<1>4. y <= h => (h - y) * w = h * w - y * w
  OBVIOUS
<1> QED
  BY <1>1, <1>2, <1>3, <1>4

\* The rows lie in the array, behind each other.
LEMMA RowFacts ==
  ASSUME NEW y \in Rows
  PROVE  /\ Row(y) \in Nat /\ Row(y + 1) = Row(y) + EDITOR_COLS
         /\ Row(y) + EDITOR_COLS <= EDITOR_ROWS * EDITOR_COLS
         /\ \A x \in Columns : Row(y) + x \in Cell
         /\ \A z \in Nat : y < z => Row(y) + EDITOR_COLS <= Row(z)
<1>1. /\ EDITOR_COLS \in Nat /\ EDITOR_ROWS \in Nat /\ y \in Nat /\ y < EDITOR_ROWS
      /\ EDITOR_COLS >= 2
  BY CableSizes DEF Rows
<1>2. /\ y * EDITOR_COLS \in Nat /\ EDITOR_ROWS * EDITOR_COLS \in Nat
      /\ (y + 1) * EDITOR_COLS = y * EDITOR_COLS + EDITOR_COLS
      /\ y * EDITOR_COLS + EDITOR_COLS <= EDITOR_ROWS * EDITOR_COLS
  BY <1>1, RowArith
<1>3. \A z \in Nat : y < z => y * EDITOR_COLS + EDITOR_COLS <= z * EDITOR_COLS
  BY <1>1, RowArith
<1> DEFINE p == y * EDITOR_COLS
           n == EDITOR_ROWS * EDITOR_COLS
<1>4. \A x \in Columns : p + x \in 0..(n - 1)
  <2> p \in Nat /\ n \in Nat /\ p + EDITOR_COLS <= n
    BY <1>2
  <2> HIDE DEF p, n
  <2> QED
    BY <1>1 DEF Columns
<1> QED
  BY <1>2, <1>3, <1>4 DEF Row, Cell

\* Every cell is in a row.
LEMMA CellRow ==
  ASSUME NEW i \in Cell
  PROVE  \E y \in Rows : \E x \in Columns : i = Row(y) + x
<1> DEFINE w == EDITOR_COLS
           y == i \div w
           x == i % w
<1>1. w \in Nat \ {0} /\ EDITOR_ROWS \in Nat /\ i \in Nat
  BY CableSizes DEF Cell
<1>2. y \in Nat /\ x \in Nat /\ x < w /\ i = w * y + x
  BY <1>1
<1>3. w * y = y * w /\ y * w \in Nat
  BY <1>1, <1>2
<1>4. y < EDITOR_ROWS
  <2> SUFFICES ASSUME y >= EDITOR_ROWS PROVE FALSE
    BY <1>1, <1>2
  <2>1. EDITOR_ROWS * w <= y * w
    <3> \A a, b, d \in Nat : a <= b => a * d <= b * d
      OBVIOUS
    <3> QED
      BY <1>1, <1>2
  <2>2. i < EDITOR_ROWS * w /\ EDITOR_ROWS * w \in Nat
    BY <1>1 DEF Cell
  <2> QED
    BY <1>1, <1>2, <1>3, <2>1, <2>2
<1> HIDE DEF y, x
<1>5. y \in Rows /\ x \in Columns /\ i = Row(y) + x
  BY <1>1, <1>2, <1>3, <1>4 DEF Rows, Columns, Row
<1> QED
  BY <1>5

-----------------------------------------------------------------------------
(* Strings in the array                                                    *)

Bytes0 == Char \cup {Nul}
Array == [Cell -> Bytes0]

\* No character is a zero.
LEMMA NotNul == \A c \in Byte : c # Nul /\ c \in Nat
BY CableSizes DEF Byte, Nul, Newline

\* strlen() finds the first zero.
LEMMA StrlenIs ==
  ASSUME NEW b, NEW p \in Nat, NEW n \in Nat, p + n \in Cell, b[p + n] = Nul,
         \A k \in 0..(n - 1) : b[p + k] # Nul
  PROVE  IsString(b, p) /\ strlen(b, p) = n
<1>1. \A i \in Cell : i \in Nat
  BY CableSizes DEF Cell
<1>2. p + n \in Nuls(b, p)
  BY DEF Nuls
<1>3. ASSUME NEW i \in Nuls(b, p), i < p + n
      PROVE  FALSE
  <2>1. i \in Nat /\ i >= p /\ b[i] = Nul
    BY <1>1, <1>3 DEF Nuls
  <2>2. i - p \in 0..(n - 1) /\ p + (i - p) = i
    BY <2>1, <1>3
  <2> QED
    BY <2>1, <2>2
<1>4. \A i \in Nuls(b, p) : i \in Nat
  BY <1>1 DEF Nuls
<1>5. Min(Nuls(b, p)) = p + n
  <2>1. \A i \in Nuls(b, p) : p + n <= i
    BY <1>3, <1>4
  <2>2. \A i \in Nuls(b, p) : (\A j \in Nuls(b, p) : i <= j) => i = p + n
    BY <1>2, <1>4, <2>1
  <2> HIDE DEF Nuls
  <2> QED
    BY <1>2, <2>1, <2>2 DEF Min
<1> QED
  BY <1>2, <1>5 DEF IsString, strlen

\* A string ends inside the array, and has no zero in front of its end.
LEMMA StrlenResult ==
  ASSUME NEW b, NEW p \in Nat, IsString(b, p)
  PROVE  /\ strlen(b, p) \in Nat /\ p + strlen(b, p) \in Cell
         /\ b[p + strlen(b, p)] = Nul
         /\ \A i \in Cell : p <= i /\ i < p + strlen(b, p) => b[i] # Nul
<1>1. \A i \in Cell : i \in Nat
  BY CableSizes DEF Cell
<1>2. Nuls(b, p) \in SUBSET Nat /\ Nuls(b, p) # {}
  BY <1>1 DEF Nuls, IsString
<1>3. \E n \in Nuls(b, p) : \A m \in Nuls(b, p) : n <= m
  BY <1>2, LeastNat
<1>4. Min(Nuls(b, p)) \in Nuls(b, p) /\ \A m \in Nuls(b, p) : Min(Nuls(b, p)) <= m
  BY <1>3 DEF Min
<1> DEFINE z == Min(Nuls(b, p))
<1>5. z \in Cell /\ z >= p /\ b[z] = Nul
  BY <1>4 DEF Nuls
<1>6. z \in Nat
  BY <1>1, <1>5
<1>7. \A i \in Cell : p <= i /\ i < z => b[i] # Nul
  <2> SUFFICES ASSUME NEW i \in Cell, p <= i, i < z, b[i] = Nul
               PROVE  FALSE
    OBVIOUS
  <2>1. i \in Nuls(b, p)
    BY <1>1 DEF Nuls
  <2>2. z <= i
    BY <1>4, <2>1
  <2> HIDE DEF z
  <2> QED
    BY <1>1, <1>6, <2>2
<1> HIDE DEF z
<1>8. strlen(b, p) = z - p
  BY DEF strlen, z
<1>9. strlen(b, p) \in Nat /\ p + strlen(b, p) = z
  BY <1>5, <1>6, <1>8
<1> QED
  BY <1>5, <1>7, <1>9

\* A row that holds a string is read as that string.
LEMMA HoldsString ==
  ASSUME NEW b, NEW y \in Rows, NEW s \in Seq(Char), Holds(b, y, s)
  PROVE  /\ IsString(b, Row(y)) /\ strlen(b, Row(y)) = Len(s)
         /\ CString(b, Row(y)) = s
<1>1. Row(y) \in Nat /\ \A x \in Columns : Row(y) + x \in Cell
  BY RowFacts
<1>2. Len(s) \in Nat /\ Len(s) \in Columns
  BY CableSizes DEF Holds, Columns
<1>3. b[Row(y) + Len(s)] = Nul
  BY <1>2 DEF Holds
<1>4. ASSUME NEW k \in 0..(Len(s) - 1)
      PROVE  b[Row(y) + k] = s[k + 1] /\ b[Row(y) + k] # Nul
  <2>1. k \in Columns /\ k < Len(s) /\ k + 1 \in 1..Len(s)
    BY <1>2, CableSizes DEF Columns
  <2>2. s[k + 1] \in Char
    BY <2>1, ElementOfSeq
  <2> QED
    BY <2>1, <2>2, NotNul DEF Holds, Byte
<1>5. IsString(b, Row(y)) /\ strlen(b, Row(y)) = Len(s)
  <2>1. Row(y) + Len(s) \in Cell
    BY <1>1, <1>2
  <2>2. \A k \in 0..(Len(s) - 1) : b[Row(y) + k] # Nul
    BY <1>4
  <2> QED
    BY <1>1, <1>2, <1>3, <2>1, <2>2, StrlenIs
<1>6. CString(b, Row(y)) = [i \in 1..Len(s) |-> b[Row(y) + i - 1]]
  BY <1>5 DEF CString
<1>7. \A i \in 1..Len(s) : b[Row(y) + i - 1] = s[i]
  <2> SUFFICES ASSUME NEW i \in 1..Len(s) PROVE b[Row(y) + i - 1] = s[i]
    OBVIOUS
  <2>1. i - 1 \in 0..(Len(s) - 1) /\ Row(y) + (i - 1) = Row(y) + i - 1 /\ (i - 1) + 1 = i
    BY <1>1, <1>2
  <2> QED
    BY <1>4, <2>1
<1>8. s = [i \in 1..Len(s) |-> s[i]]
  OBVIOUS
<1> QED
  BY <1>5, <1>6, <1>7, <1>8

-----------------------------------------------------------------------------
(* Rows padded with zeros                                                  *)

Padded(b) ==
  \A y \in Rows : \A x, z \in Columns : x < z /\ b[Row(y) + x] = Nul => b[Row(y) + z] = Nul

\* RowsAreZeroPadded, by columns.
ZeroPadded(b) ==
  \A y \in Rows : \A i, j \in Row(y)..(Row(y) + EDITOR_COLS - 1) :
    i < j /\ b[i] = Nul => b[j] = Nul

\* Both say that no character of a row follows a terminator.
LEMMA PaddedMeans ==
  ASSUME NEW b
  PROVE  ZeroPadded(b) <=> Padded(b)
<1>1. ASSUME NEW y \in Rows
      PROVE  (\A i, j \in Row(y)..(Row(y) + EDITOR_COLS - 1) :
                i < j /\ b[i] = Nul => b[j] = Nul)
             <=> \A x, z \in Columns : x < z /\ b[Row(y) + x] = Nul => b[Row(y) + z] = Nul
  <2>1. Row(y) \in Nat /\ EDITOR_COLS \in Nat
    BY RowFacts, CableSizes
  <2>2. \A x \in Columns : Row(y) + x \in Row(y)..(Row(y) + EDITOR_COLS - 1)
    BY <2>1 DEF Columns
  <2>3. \A i \in Row(y)..(Row(y) + EDITOR_COLS - 1) : i - Row(y) \in Columns /\ Row(y) + (i - Row(y)) = i
    BY <2>1 DEF Columns
  <2>4. ASSUME \A i, j \in Row(y)..(Row(y) + EDITOR_COLS - 1) :
                 i < j /\ b[i] = Nul => b[j] = Nul,
               NEW x \in Columns, NEW z \in Columns, x < z, b[Row(y) + x] = Nul
        PROVE  b[Row(y) + z] = Nul
    <3>1. Row(y) + x < Row(y) + z
      BY <2>1, <2>4 DEF Columns
    <3> QED
      BY <2>2, <2>4, <3>1
  <2>5. ASSUME \A x, z \in Columns : x < z /\ b[Row(y) + x] = Nul => b[Row(y) + z] = Nul,
               NEW i \in Row(y)..(Row(y) + EDITOR_COLS - 1),
               NEW j \in Row(y)..(Row(y) + EDITOR_COLS - 1), i < j, b[i] = Nul
        PROVE  b[j] = Nul
    <3>1. i - Row(y) < j - Row(y)
      BY <2>1, <2>5
    <3> QED
      BY <2>3, <2>5, <3>1
  <2> QED
    BY <2>4, <2>5
<1> QED
  BY <1>1 DEF ZeroPadded, Padded

\* A string that ends inside its row is what the padded row holds.
LEMMA PaddedRow ==
  ASSUME NEW b \in Array, Padded(b), NEW y \in Rows, IsString(b, Row(y)),
         strlen(b, Row(y)) < EDITOR_COLS
  PROVE  Holds(b, y, CString(b, Row(y))) /\ CString(b, Row(y)) \in Seq(Char)
         /\ Len(CString(b, Row(y))) = strlen(b, Row(y))
<1> DEFINE n == strlen(b, Row(y))
           s == CString(b, Row(y))
<1>1. Row(y) \in Nat /\ \A x \in Columns : Row(y) + x \in Cell
  BY RowFacts
<1>2. /\ n \in Nat /\ b[Row(y) + n] = Nul
      /\ \A i \in Cell : Row(y) <= i /\ i < Row(y) + n => b[i] # Nul
  BY <1>1, StrlenResult
<1>3. n \in Columns
  BY <1>2, CableSizes DEF Columns
<1>4. s = [i \in 1..n |-> b[Row(y) + i - 1]]
  BY DEF CString
<1> HIDE DEF n, s
<1>5. ASSUME NEW i \in 1..n
      PROVE  b[Row(y) + i - 1] \in Char
  <2>1. i - 1 \in Columns /\ Row(y) + (i - 1) = Row(y) + i - 1
        /\ Row(y) <= Row(y) + i - 1 /\ Row(y) + i - 1 < Row(y) + n
    BY <1>1, <1>2, <1>3, CableSizes DEF Columns
  <2>2. Row(y) + i - 1 \in Cell
    BY <1>1, <2>1
  <2>3. b[Row(y) + i - 1] # Nul
    BY <1>2, <2>1, <2>2
  <2> QED
    BY <2>2, <2>3 DEF Array, Bytes0
<1>6. s \in Seq(Char) /\ Len(s) = n
  BY <1>2, <1>4, <1>5
<1>7. ASSUME NEW x \in Columns
      PROVE  b[Row(y) + x] = IF x < n THEN s[x + 1] ELSE Nul
  <2>0. x \in Nat /\ EDITOR_COLS \in Nat
    BY CableSizes DEF Columns
  <2>1. CASE x < n
    <3>1. x + 1 \in 1..n /\ Row(y) + (x + 1) - 1 = Row(y) + x
      BY <2>0, <2>1, <1>1, <1>2
    <3> QED
      BY <1>4, <2>1, <3>1
  <2>2. CASE x = n
    BY <1>2, <2>2
  <2>3. CASE x > n
    BY <1>2, <1>3, <2>3 DEF Padded
  <2> QED
    BY <1>2, <2>0, <2>1, <2>2, <2>3
<1>8. n <= EDITOR_COLS - 1
  BY <1>3, CableSizes DEF Columns
<1> QED
  BY <1>6, <1>7, <1>8 DEF Holds, n, s

-----------------------------------------------------------------------------
(* What inserting, deleting and joining do to the rows                     *)

\* A change that leaves no zero in the first m cells of row y, nor anything
\* changed outside them but a zero put in front of one, keeps rows padded.
LEMMA PaddedEdit ==
  ASSUME NEW b \in Array, NEW d \in Array, Padded(b), NEW y \in Rows, NEW m \in Nat,
         \A i \in Cell : i < Row(y) => d[i] = b[i],
         \A i \in Cell : Row(y) <= i /\ i < Row(y) + m => d[i] # Nul,
         \A i \in Cell : i > Row(y) + m => d[i] = b[i],
         Row(y) + m \in Cell => d[Row(y) + m] = b[Row(y) + m] \/ b[Row(y) + (m + 1)] = Nul
  PROVE  Padded(d)
<1> SUFFICES ASSUME NEW v \in Rows, NEW x \in Columns, NEW z \in Columns, x < z,
                    d[Row(v) + x] = Nul
             PROVE  d[Row(v) + z] = Nul
  BY DEF Padded
<1> DEFINE p == Row(y)
           i == Row(v) + x
           j == Row(v) + z
<1>1. p \in Nat /\ Row(v) \in Nat /\ i \in Cell /\ j \in Cell
  BY RowFacts
<1>2. x \in Nat /\ z \in Nat /\ EDITOR_COLS \in Nat /\ z < EDITOR_COLS /\ v \in Nat /\ y \in Nat
  BY CableSizes DEF Columns, Rows
<1>3. i \in Nat /\ j \in Nat /\ i < j
  BY <1>1, <1>2
<1>4. b[i] = Nul => b[j] = Nul
  BY DEF Padded
<1>5. CASE i < p
  <2>1. v < y
    <3> SUFFICES ASSUME y <= v PROVE FALSE
      BY <1>2
    <3>1. y = v \/ p + EDITOR_COLS <= Row(v)
      BY <1>2, RowFacts
    <3> HIDE DEF p
    <3> QED
      BY <1>1, <1>2, <1>5, <3>1 DEF p
  <2>2. Row(v) + EDITOR_COLS <= p
    BY <1>2, <2>1, RowFacts
  <2>3. j < p
    BY <1>1, <1>2, <2>2
  <2> QED
    BY <1>1, <1>4, <1>5, <2>3
<1>6. CASE p <= i /\ i < p + m
  BY <1>1, <1>6
<1>7. CASE i = p + m
  <2>1. j > p + m
    BY <1>1, <1>3, <1>7
  <2>2. d[j] = b[j]
    BY <1>1, <2>1
  <2>3. CASE b[i] = Nul
    BY <1>4, <2>2, <2>3
  <2>4. CASE b[p + (m + 1)] = Nul
    <3>1. x + 1 \in Columns /\ Row(v) + (x + 1) = p + (m + 1)
      BY <1>1, <1>2, <1>7 DEF Columns
    <3>2. x + 1 = z \/ x + 1 < z
      BY <1>2
    <3>3. b[Row(v) + (x + 1)] = Nul
      BY <2>4, <3>1
    <3>4. b[j] = Nul
      BY <3>1, <3>2, <3>3 DEF Padded
    <3> QED
      BY <2>2, <3>4
  <2> QED
    BY <1>1, <1>7, <2>3, <2>4
<1>8. CASE i > p + m
  <2>1. j > p + m
    BY <1>1, <1>3, <1>8
  <2> QED
    BY <1>1, <1>4, <1>8, <2>1
<1> QED
  BY <1>1, <1>3, <1>5, <1>6, <1>7, <1>8

\* c stored in cell a, and the cells from there up to e moved by one.
Inserted(b, a, e, c) == [memmove(b, a + 1, a, e - a) EXCEPT ![a] = c]

\* What editor_insert_char()'s memmove() and store leave in each cell.
LEMMA InsertCells ==
  ASSUME NEW b \in Array, NEW a \in Nat, NEW e \in Cell, a <= e, NEW c \in Char
  PROVE  /\ Inserted(b, a, e, c) \in Array
         /\ \A i \in Cell :
              Inserted(b, a, e, c)[i] =
                IF i = a THEN c ELSE IF a < i /\ i <= e THEN b[i - 1] ELSE b[i]
<1> DEFINE d == Inserted(b, a, e, c)
<1>1. \A i \in Cell : i \in Nat
  BY CableSizes DEF Cell
<1>4. d = [i \in Cell |-> d[i]]
  BY DEF memmove, Inserted
<1>2. ASSUME NEW i \in Cell
      PROVE  d[i] = IF i = a THEN c ELSE IF a < i /\ i <= e THEN b[i - 1] ELSE b[i]
  <2>1. d[i] = IF i = a THEN c
               ELSE IF a + 1 <= i /\ i < (a + 1) + (e - a) THEN b[a + (i - (a + 1))] ELSE b[i]
    BY DEF memmove, Inserted
  <2>2. a + (i - (a + 1)) = i - 1
        /\ ((a + 1 <= i /\ i < (a + 1) + (e - a)) <=> (a < i /\ i <= e))
    BY <1>1
  <2> QED
    BY <2>1, <2>2
<1> HIDE DEF d
<1>3. ASSUME NEW i \in Cell
      PROVE  d[i] \in Bytes0
  <2>1. ASSUME a < i, i <= e
        PROVE  b[i - 1] \in Bytes0
    <3>1. i - 1 \in Cell
      BY <1>1, <2>1, CableSizes DEF Cell
    <3> QED
      BY <3>1 DEF Array
  <2>2. c \in Bytes0 /\ b[i] \in Bytes0
    BY DEF Array, Bytes0
  <2> QED
    BY <1>2, <2>1, <2>2
<1> QED
  BY <1>2, <1>3, <1>4 DEF Array, d

\* The elements of a sequence put together from two.
LEMMA Joined ==
  ASSUME NEW C, NEW u \in Seq(C), NEW v \in Seq(C)
  PROVE  /\ u \o v \in Seq(C) /\ Len(u \o v) = Len(u) + Len(v)
         /\ \A k \in 1..(Len(u) + Len(v)) :
              (u \o v)[k] = IF k <= Len(u) THEN u[k] ELSE v[k - Len(u)]
BY ConcatProperties

\* InsertAt() and RemoveAt(), element by element.
LEMMA InsertAtResult ==
  ASSUME NEW s \in Seq(Char), NEW x \in 0..Len(s), NEW c \in Char
  PROVE  /\ InsertAt(s, x + 1, c) \in Seq(Char) /\ Len(InsertAt(s, x + 1, c)) = Len(s) + 1
         /\ \A k \in 1..(Len(s) + 1) :
              InsertAt(s, x + 1, c)[k] =
                IF k = x + 1 THEN c ELSE IF k > x + 1 THEN s[k - 1] ELSE s[k]
<1> DEFINE u == SubSeq(s, 1, x)
           v == SubSeq(s, x + 1, Len(s))
           w == u \o <<c>>
           r == w \o v
<1>1. Len(s) \in Nat /\ x \in Nat /\ x <= Len(s)
  OBVIOUS
<1>2. u \in Seq(Char) /\ Len(u) = x /\ \A k \in 1..x : u[k] = s[k]
  BY <1>1, SubSeqProperties
<1>3. v \in Seq(Char) /\ Len(v) = Len(s) - x /\ \A k \in 1..(Len(s) - x) : v[k] = s[x + k]
  BY <1>1, SubSeqProperties
<1>4. InsertAt(s, x + 1, c) = r
  <2>1. (x + 1) - 1 = x
    BY <1>1
  <2>2. InsertAt(s, x + 1, c) = SubSeq(s, 1, (x + 1) - 1) \o <<c>> \o v
    BY DEF InsertAt
  <2> QED
    BY <2>1, <2>2
<1> HIDE DEF u, v
<1>5. w \in Seq(Char) /\ Len(w) = x + 1 /\ w[x + 1] = c /\ \A k \in 1..x : w[k] = u[k]
  BY <1>1, <1>2
<1> HIDE DEF w
<1>6. r \in Seq(Char) /\ Len(r) = Len(w) + Len(v)
      /\ \A k \in 1..(Len(w) + Len(v)) : r[k] = IF k <= Len(w) THEN w[k] ELSE v[k - Len(w)]
  BY <1>3, <1>5, Joined
<1> HIDE DEF r
<1>7. Len(w) + Len(v) = Len(s) + 1
  BY <1>1, <1>3, <1>5
<1>8. ASSUME NEW k \in 1..(Len(s) + 1)
      PROVE  r[k] = IF k = x + 1 THEN c ELSE IF k > x + 1 THEN s[k - 1] ELSE s[k]
  <2>1. CASE k <= x + 1
    <3>1. r[k] = w[k]
      BY <1>5, <1>6, <1>7, <2>1
    <3> QED
      BY <1>1, <1>2, <1>5, <2>1, <3>1
  <2>2. CASE k > x + 1
    <3>1. r[k] = v[k - (x + 1)]
      BY <1>1, <1>5, <1>6, <1>7, <2>2
    <3>2. x + (k - (x + 1)) = k - 1 /\ k - (x + 1) \in 1..(Len(s) - x)
      BY <1>1, <2>2
    <3>3. v[k - (x + 1)] = s[k - 1]
      BY <1>3, <3>2
    <3> QED
      BY <1>1, <2>2, <3>1, <3>3
  <2> QED
    BY <1>1, <2>1, <2>2
<1> QED
  BY <1>4, <1>6, <1>7, <1>8

\* RemoveAt() keeps what is in front of x and moves the rest back by one.
LEMMA RemoveAtResult ==
  ASSUME NEW C, NEW s \in Seq(C), NEW x \in 1..Len(s)
  PROVE  /\ RemoveAt(s, x) \in Seq(C) /\ Len(RemoveAt(s, x)) = Len(s) - 1
         /\ \A k \in 1..(Len(s) - 1) : RemoveAt(s, x)[k] = IF k < x THEN s[k] ELSE s[k + 1]
<1> DEFINE u == SubSeq(s, 1, x - 1)
           v == SubSeq(s, x + 1, Len(s))
           r == u \o v
<1>1. Len(s) \in Nat /\ x \in Nat /\ x <= Len(s) /\ x >= 1
  OBVIOUS
<1>2. u \in Seq(C) /\ Len(u) = x - 1 /\ \A k \in 1..(x - 1) : u[k] = s[k]
  BY <1>1, SubSeqProperties
<1>3. v \in Seq(C) /\ Len(v) = Len(s) - x /\ \A k \in 1..(Len(s) - x) : v[k] = s[x + k]
  BY <1>1, SubSeqProperties
<1>4. RemoveAt(s, x) = r
  BY DEF RemoveAt
<1> HIDE DEF u, v
<1>5. r \in Seq(C) /\ Len(r) = Len(u) + Len(v)
      /\ \A k \in 1..(Len(u) + Len(v)) : r[k] = IF k <= Len(u) THEN u[k] ELSE v[k - Len(u)]
  BY <1>2, <1>3, Joined
<1> HIDE DEF r
<1>6. Len(u) + Len(v) = Len(s) - 1
  BY <1>1, <1>2, <1>3
<1>7. ASSUME NEW k \in 1..(Len(s) - 1)
      PROVE  r[k] = IF k < x THEN s[k] ELSE s[k + 1]
  <2>1. CASE k < x
    <3>1. k \in 1..(x - 1) /\ k <= Len(u)
      BY <1>1, <1>2, <2>1
    <3> QED
      BY <1>2, <1>5, <1>6, <2>1, <3>1
  <2>2. CASE k >= x
    <3>1. r[k] = v[k - (x - 1)]
      BY <1>1, <1>2, <1>5, <1>6, <2>2
    <3>2. x + (k - (x - 1)) = k + 1 /\ k - (x - 1) \in 1..(Len(s) - x)
      BY <1>1, <2>2
    <3>3. v[k - (x - 1)] = s[k + 1]
      BY <1>3, <3>2
    <3> QED
      BY <1>1, <2>2, <3>1, <3>3
  <2> QED
    BY <1>1, <2>1, <2>2
<1> QED
  BY <1>4, <1>5, <1>6, <1>7

\* editor_insert_char() keeps the rows padded, and puts the character where
\* the cursor is in the row's string.
LEMMA InsertRow ==
  ASSUME NEW b \in Array, Padded(b), NEW y \in Rows, NEW x \in Nat, NEW c \in Char,
         x < EDITOR_COLS - 1, IsString(b, Row(y)), x <= strlen(b, Row(y)), NEW d,
         d = [memmove(b, Row(y) + x + 1, Row(y) + x, strlen(b, Row(y)) - x)
                EXCEPT ![Row(y) + x] = c]
  PROVE  /\ d \in Array /\ Padded(d)
         /\ \A s \in Seq(Char) : Holds(b, y, s) /\ Len(s) < EDITOR_COLS - 1 =>
              /\ Holds(d, y, InsertAt(s, x + 1, c)) /\ InsertAt(s, x + 1, c) \in Seq(Char)
              /\ \A z \in Rows \ {y}, t \in Seq(Char) : Holds(b, z, t) => Holds(d, z, t)
<1> DEFINE p == Row(y)
           n == strlen(b, p)
<1>1. p \in Nat /\ \A k \in Columns : p + k \in Cell
  BY RowFacts
<1>2. /\ n \in Nat /\ p + n \in Cell /\ b[p + n] = Nul
      /\ \A i \in Cell : p <= i /\ i < p + n => b[i] # Nul
  BY <1>1, StrlenResult
<1>5. x <= n /\ d = [memmove(b, p + x + 1, p + x, n - x) EXCEPT ![p + x] = c]
  OBVIOUS
<1> HIDE DEF n, p
<1>3. /\ d \in Array
      /\ \A i \in Cell : d[i] = IF i = p + x THEN c
                                ELSE IF p + x < i /\ i <= p + n THEN b[i - 1] ELSE b[i]
  <2>a. PICK a \in Nat : a = p + x
    BY <1>1
  <2>e. PICK e \in Cell : e = p + n
    BY <1>2
  <2>1. a <= e /\ (p + x) + 1 = a + 1 /\ n - x = e - a
    BY <1>1, <1>2, <1>5, <2>a, <2>e
  <2>2. d = Inserted(b, a, e, c)
    BY <1>5, <2>1, <2>a, <2>e DEF Inserted
  <2>3. /\ d \in Array
        /\ \A i \in Cell : d[i] = IF i = a THEN c ELSE IF a < i /\ i <= e THEN b[i - 1] ELSE b[i]
    <3>0. a <= e
      BY <2>1
    <3>1. Inserted(b, a, e, c) \in Array
      BY <3>0, InsertCells
    <3>2. \A i \in Cell :
            Inserted(b, a, e, c)[i] =
                IF i = a THEN c ELSE IF a < i /\ i <= e THEN b[i - 1] ELSE b[i]
      BY <3>0, InsertCells
    <3> QED
      BY <2>2, <3>1, <3>2, Zenon
  <2> QED
    BY <2>3, <2>a, <2>e
<1>4. \A i \in Cell : i \in Nat
  BY CableSizes DEF Cell
<1>6. Padded(d)
  <2>1. \A i \in Cell : i < p => d[i] = b[i]
    BY <1>1, <1>2, <1>3, <1>4
  <2>2. ASSUME NEW i \in Cell, p <= i, i < p + (n + 1)
        PROVE  d[i] # Nul
    <3>1. i = p + x => d[i] = c
      BY <1>3
    <3>2. c # Nul
      BY NotNul DEF Byte
    <3>3. ASSUME p + x < i
          PROVE  d[i] # Nul
      <4>1. i <= p + n /\ i # p + x /\ p <= i - 1 /\ i - 1 < p + n
        BY <1>1, <1>2, <1>4, <2>2, <3>3
      <4>2. i - 1 \in Cell
        BY <1>1, <1>4, <4>1, CableSizes DEF Cell
      <4>3. b[i - 1] # Nul
        BY <1>2, <4>1, <4>2
      <4> QED
        BY <1>3, <3>3, <4>1, <4>3
    <3>4. ASSUME i < p + x
          PROVE  d[i] # Nul
      <4>1. i < p + n /\ i # p + x /\ ~(p + x < i)
        BY <1>1, <1>2, <1>4, <1>5, <3>4
      <4> QED
        BY <1>2, <1>3, <2>2, <4>1
    <3> QED
      BY <1>1, <1>4, <3>1, <3>2, <3>3, <3>4
  <2>3. \A i \in Cell : i > p + n => d[i] = b[i]
    <3> SUFFICES ASSUME NEW i \in Cell, i > p + n PROVE d[i] = b[i]
      OBVIOUS
    <3>1. i # p + x /\ ~(i <= p + n)
      BY <1>1, <1>2, <1>4, <1>5
    <3> QED
      BY <1>3, <3>1
  <2>4. \A i \in Cell : i > p + (n + 1) => d[i] = b[i]
    BY <1>1, <1>2, <1>4, <2>3
  <2>5. p + (n + 1) \in Cell => d[p + (n + 1)] = b[p + (n + 1)]
    <3>1. p + (n + 1) > p + n
      BY <1>1, <1>2
    <3> QED
      BY <2>3, <3>1
  <2> DEFINE m == n + 1
  <2>6. m \in Nat
    BY <1>2
  <2>7. \A i \in Cell : p <= i /\ i < p + m => d[i] # Nul
    BY <2>2
  <2>8. \A i \in Cell : i > p + m => d[i] = b[i]
    BY <2>4
  <2>9. p + m \in Cell => d[p + m] = b[p + m]
    BY <2>5
  <2> HIDE DEF m
  <2> QED
    BY <1>3, <2>1, <2>6, <2>7, <2>8, <2>9, PaddedEdit, ZenonT(60) DEF p

<1>7. ASSUME NEW s \in Seq(Char), Holds(b, y, s), Len(s) < EDITOR_COLS - 1
      PROVE  /\ Holds(d, y, InsertAt(s, x + 1, c)) /\ InsertAt(s, x + 1, c) \in Seq(Char)
             /\ \A z \in Rows \ {y}, t \in Seq(Char) : Holds(b, z, t) => Holds(d, z, t)
  <2>1. n = Len(s)
    BY <1>7, HoldsString DEF n, p
  <2>2. x \in 0..Len(s)
    BY <1>2, <1>5, <2>1
  <2> DEFINE r == InsertAt(s, x + 1, c)
  <2>3. /\ r \in Seq(Char) /\ Len(r) = n + 1
        /\ \A k \in 1..(n + 1) :
             r[k] = IF k = x + 1 THEN c ELSE IF k > x + 1 THEN s[k - 1] ELSE s[k]
    <3>1. /\ r \in Seq(Char) /\ Len(r) = Len(s) + 1
          /\ \A k \in 1..(Len(s) + 1) :
               r[k] = IF k = x + 1 THEN c ELSE IF k > x + 1 THEN s[k - 1] ELSE s[k]
      BY <2>2, InsertAtResult, ZenonT(60)
    <3> HIDE DEF r
    <3> QED
      BY <2>1, <3>1
  <2> HIDE DEF r
  <2>4. ASSUME NEW k \in Columns
        PROVE  b[p + k] = IF k < n THEN s[k + 1] ELSE Nul
    BY <1>7, <2>1 DEF Holds, p
  <2>5. ASSUME NEW k \in Columns
        PROVE  d[p + k] = IF k < n + 1 THEN r[k + 1] ELSE Nul
    <3>1. k \in Nat /\ p + k \in Cell
      BY <1>1, CableSizes DEF Columns
    <3>2. CASE k = x
      <4>1. k + 1 \in 1..(n + 1) /\ k + 1 = x + 1 /\ k < n + 1
        BY <1>2, <1>5, <3>1, <3>2
      <4> QED
        BY <1>3, <2>3, <3>1, <3>2, <4>1
    <3>3. CASE x < k /\ k <= n
      <4>1. k - 1 \in Columns /\ k - 1 < n /\ (k - 1) + 1 = k /\ p + (k - 1) = (p + k) - 1
        BY <1>1, <1>2, <3>1, <3>3, CableSizes DEF Columns
      <4>2. d[p + k] = b[(p + k) - 1]
        BY <1>1, <1>2, <1>3, <3>1, <3>3
      <4>3. b[p + (k - 1)] = s[k]
        BY <2>4, <4>1
      <4>4. d[p + k] = s[k]
        BY <4>1, <4>2, <4>3
      <4>5. k + 1 \in 1..(n + 1) /\ k + 1 > x + 1 /\ (k + 1) - 1 = k /\ k + 1 # x + 1 /\ k < n + 1
        BY <1>2, <3>1, <3>3
      <4>6. r[k + 1] = s[k]
        BY <2>3, <4>5
      <4> QED
        BY <4>4, <4>5, <4>6
    <3>4. CASE k < x
      <4>1. d[p + k] = b[p + k]
        BY <1>1, <1>3, <3>1, <3>4
      <4>2. k + 1 \in 1..(n + 1) /\ ~(k + 1 > x + 1) /\ k + 1 # x + 1 /\ k < n /\ k < n + 1
        BY <1>2, <1>5, <3>1, <3>4
      <4> QED
        BY <2>3, <2>4, <4>1, <4>2
    <3>5. CASE k > n
      <4>1. d[p + k] = b[p + k]
        BY <1>1, <1>2, <1>3, <1>5, <3>1, <3>5
      <4>2. ~(k < n) /\ ~(k < n + 1)
        BY <1>2, <3>1, <3>5
      <4> QED
        BY <2>4, <4>1, <4>2
    <3> QED
      BY <1>2, <3>1, <3>2, <3>3, <3>4, <3>5
  <2>6. Holds(d, y, r)
    <3>1. n + 1 <= EDITOR_COLS - 1
      BY <1>2, <1>7, <2>1, CableSizes
    <3> QED
      BY <2>3, <2>5, <3>1 DEF Holds, p
  <2>7. ASSUME NEW z \in Rows \ {y}, NEW k \in Columns
        PROVE  d[Row(z) + k] = b[Row(z) + k]
    <3>1. Row(z) \in Nat /\ Row(z) + k \in Cell /\ k \in Nat /\ k < EDITOR_COLS /\ EDITOR_COLS \in Nat
      BY <2>7, RowFacts, CableSizes DEF Columns
    <3>2. z \in Nat /\ y \in Nat /\ z # y
      BY <2>7, CableSizes DEF Rows
    <3>3. z < y => Row(z) + EDITOR_COLS <= p
      BY <2>7, <3>2, RowFacts DEF p
    <3>4. y < z => p + EDITOR_COLS <= Row(z)
      BY <3>2, RowFacts DEF p
    <3>5. n < EDITOR_COLS - 1
      BY <1>7, <2>1
    <3>6. Row(z) + k < p \/ Row(z) + k > p + n
      BY <1>1, <1>2, <3>1, <3>2, <3>3, <3>4, <3>5
    <3>7. Row(z) + k # p + x /\ ~(p + x < Row(z) + k /\ Row(z) + k <= p + n)
      BY <1>1, <1>2, <1>5, <3>1, <3>6
    <3> QED
      BY <1>3, <3>1, <3>7
  <2> QED
    BY <2>3, <2>6, <2>7 DEF Holds, r
<1> QED
  BY <1>3, <1>6, <1>7

\* The cells behind a moved back by one, up to e.
Deleted(b, a, e) == memmove(b, a, a + 1, e - a)

\* What editor_delete_char()'s memmove() leaves in each cell.
LEMMA DeleteCells ==
  ASSUME NEW b \in Array, NEW a \in Nat, NEW e \in Cell, a <= e
  PROVE  /\ Deleted(b, a, e) \in Array
         /\ \A i \in Cell :
              Deleted(b, a, e)[i] = IF a <= i /\ i < e THEN b[i + 1] ELSE b[i]
<1> DEFINE d == Deleted(b, a, e)
<1>1. \A i \in Cell : i \in Nat
  BY CableSizes DEF Cell
<1>2. d = [i \in Cell |-> d[i]]
  BY DEF memmove, Deleted
<1>3. ASSUME NEW i \in Cell
      PROVE  d[i] = IF a <= i /\ i < e THEN b[i + 1] ELSE b[i]
  <2>1. d[i] = IF a <= i /\ i < a + (e - a) THEN b[(a + 1) + (i - a)] ELSE b[i]
    BY DEF memmove, Deleted
  <2>2. (a + 1) + (i - a) = i + 1 /\ ((a <= i /\ i < a + (e - a)) <=> (a <= i /\ i < e))
    BY <1>1
  <2> QED
    BY <2>1, <2>2
<1> HIDE DEF d
<1>4. ASSUME NEW i \in Cell
      PROVE  d[i] \in Bytes0
  <2>1. ASSUME a <= i, i < e
        PROVE  b[i + 1] \in Bytes0
    <3>1. i + 1 \in Cell
      BY <1>1, <2>1, CableSizes DEF Cell
    <3> QED
      BY <3>1 DEF Array
  <2>2. b[i] \in Bytes0
    BY DEF Array
  <2> QED
    BY <1>3, <2>1, <2>2
<1> QED
  BY <1>2, <1>3, <1>4 DEF Array, d

\* editor_delete_char() inside a row keeps the rows padded, and takes the
\* character in front of the cursor out of the row's string.
LEMMA DeleteRow ==
  ASSUME NEW b \in Array, Padded(b), NEW y \in Rows, NEW x \in Nat, x >= 1,
         IsString(b, Row(y)), x - 1 <= strlen(b, Row(y)), NEW d,
         d = memmove(b, Row(y) + x - 1, Row(y) + x, strlen(b, Row(y)) - (x - 1))
  PROVE  /\ d \in Array /\ Padded(d)
         /\ x > strlen(b, Row(y)) => d = b
         /\ \A s \in Seq(Char) : Holds(b, y, s) /\ x <= Len(s) =>
              /\ Holds(d, y, RemoveAt(s, x)) /\ RemoveAt(s, x) \in Seq(Char)
              /\ \A z \in Rows \ {y}, t \in Seq(Char) : Holds(b, z, t) => Holds(d, z, t)
<1> DEFINE p == Row(y)
           n == strlen(b, p)
<1>1. p \in Nat /\ \A k \in Columns : p + k \in Cell
  BY RowFacts
<1>2. /\ n \in Nat /\ p + n \in Cell /\ b[p + n] = Nul
      /\ \A i \in Cell : p <= i /\ i < p + n => b[i] # Nul
  BY <1>1, StrlenResult
<1>5. x - 1 <= n /\ d = memmove(b, p + (x - 1), p + x, n - (x - 1))
  OBVIOUS
<1> HIDE DEF n, p
<1>3. /\ d \in Array
      /\ \A i \in Cell : d[i] = IF p + (x - 1) <= i /\ i < p + n THEN b[i + 1] ELSE b[i]
  <2>a. PICK a \in Nat : a = p + (x - 1)
    BY <1>1
  <2>e. PICK e \in Cell : e = p + n
    BY <1>2
  <2>1. a <= e /\ p + x = a + 1 /\ n - (x - 1) = e - a
    BY <1>1, <1>2, <1>5, <2>a, <2>e
  <2>2. d = Deleted(b, a, e)
    BY <1>5, <2>1, <2>a, <2>e DEF Deleted
  <2>3. Deleted(b, a, e) \in Array
    BY <2>1, DeleteCells
  <2>4. \A i \in Cell : Deleted(b, a, e)[i] = IF a <= i /\ i < e THEN b[i + 1] ELSE b[i]
    BY <2>1, DeleteCells
  <2>5. \A i \in Cell : d[i] = IF a <= i /\ i < e THEN b[i + 1] ELSE b[i]
    BY <2>2, <2>4, Zenon
  <2> QED
    BY <2>2, <2>3, <2>5, <2>a, <2>e
<1>4. \A i \in Cell : i \in Nat
  BY CableSizes DEF Cell
<1>6. x > n => d = b
  <2> SUFFICES ASSUME x > n PROVE d = b
    OBVIOUS
  <2>1. \A i \in Cell : d[i] = b[i]
    BY <1>1, <1>2, <1>3, <1>4
  <2>2. d = [i \in Cell |-> d[i]] /\ b = [i \in Cell |-> b[i]]
    BY <1>3 DEF Array
  <2> QED
    BY <2>1, <2>2
<1>7. Padded(d)
  <2>1. CASE x > n
    BY <1>6, <2>1
  <2>2. CASE x <= n
    <3>1. \A i \in Cell : i < p => d[i] = b[i]
      BY <1>1, <1>2, <1>3, <1>4
    <3>2. PICK m \in Nat : m = n - 1
      BY <1>2, <2>2
    <3>3. ASSUME NEW i \in Cell, p <= i, i < p + m
          PROVE  d[i] # Nul
      <4>1. i < p + n /\ i + 1 < p + n /\ p <= i + 1
        BY <1>1, <1>2, <1>4, <3>2, <3>3
      <4>2. i + 1 \in Cell
        BY <1>2, <1>4, <4>1, CableSizes DEF Cell
      <4>3. b[i] # Nul /\ b[i + 1] # Nul
        BY <1>2, <3>3, <4>1, <4>2
      <4> QED
        BY <1>3, <4>3
    <3>4. \A i \in Cell : i > p + m => d[i] = b[i]
      <4> SUFFICES ASSUME NEW i \in Cell, i > p + m PROVE d[i] = b[i]
        OBVIOUS
      <4>1. ~(i < p + n)
        BY <1>1, <1>2, <1>4, <3>2
      <4> QED
        BY <1>3, <4>1
    <3>5. b[p + (m + 1)] = Nul
      BY <1>2, <3>2
    <3> QED
      BY <1>3, <3>1, <3>3, <3>4, <3>5, PaddedEdit DEF p
  <2> QED
    BY <1>2, <2>1, <2>2
<1>8. ASSUME NEW s \in Seq(Char), Holds(b, y, s), x <= Len(s)
      PROVE  /\ Holds(d, y, RemoveAt(s, x)) /\ RemoveAt(s, x) \in Seq(Char)
             /\ \A z \in Rows \ {y}, t \in Seq(Char) : Holds(b, z, t) => Holds(d, z, t)
  <2>1. n = Len(s)
    BY <1>8, HoldsString DEF n, p
  <2>2. x \in 1..Len(s) /\ n <= EDITOR_COLS - 1
    BY <1>2, <1>8, <2>1 DEF Holds
  <2> DEFINE r == RemoveAt(s, x)
  <2>3. /\ r \in Seq(Char) /\ Len(r) = n - 1
        /\ \A k \in 1..(n - 1) : r[k] = IF k < x THEN s[k] ELSE s[k + 1]
    <3>1. /\ r \in Seq(Char) /\ Len(r) = Len(s) - 1
          /\ \A k \in 1..(Len(s) - 1) : r[k] = IF k < x THEN s[k] ELSE s[k + 1]
      BY <2>2, RemoveAtResult
    <3> HIDE DEF r
    <3> QED
      BY <2>1, <3>1
  <2> HIDE DEF r
  <2>4. ASSUME NEW k \in Columns
        PROVE  b[p + k] = IF k < n THEN s[k + 1] ELSE Nul
    BY <1>8, <2>1 DEF Holds, p
  <2>5. ASSUME NEW k \in Columns
        PROVE  d[p + k] = IF k < n - 1 THEN r[k + 1] ELSE Nul
    <3>1. k \in Nat /\ p + k \in Cell
      BY <1>1, CableSizes DEF Columns
    <3>2. CASE x - 1 <= k /\ k < n
      <4>1. k + 1 \in Columns /\ (p + k) + 1 = p + (k + 1) /\ p + (x - 1) <= p + k /\ p + k < p + n
        BY <1>1, <1>2, <2>2, <3>1, <3>2, CableSizes DEF Columns
      <4>2. d[p + k] = b[p + (k + 1)]
        BY <1>3, <3>1, <4>1
      <4>3. b[p + (k + 1)] = IF k + 1 < n THEN s[(k + 1) + 1] ELSE Nul
        BY <2>4, <4>1
      <4>4. ASSUME k < n - 1
            PROVE  r[k + 1] = s[(k + 1) + 1]
        <5>1. k + 1 \in 1..(n - 1) /\ ~(k + 1 < x)
          BY <1>2, <3>1, <3>2, <4>4
        <5> QED
          BY <2>3, <5>1
      <4>5. (k < n - 1) <=> (k + 1 < n)
        BY <1>2, <3>1
      <4> QED
        BY <4>2, <4>3, <4>4, <4>5
    <3>3. CASE k < x - 1
      <4>1. d[p + k] = b[p + k]
        BY <1>1, <1>3, <3>1, <3>3
      <4>2. k + 1 \in 1..(n - 1) /\ k + 1 < x /\ k < n /\ k < n - 1
        BY <1>2, <2>1, <2>2, <3>1, <3>3
      <4> QED
        BY <2>3, <2>4, <4>1, <4>2
    <3>4. CASE k >= n
      <4>1. d[p + k] = b[p + k]
        BY <1>1, <1>2, <1>3, <3>1, <3>4
      <4>2. ~(k < n) /\ ~(k < n - 1)
        BY <1>2, <3>1, <3>4
      <4> QED
        BY <2>4, <4>1, <4>2
    <3> QED
      BY <1>2, <3>1, <3>2, <3>3, <3>4
  <2>6. Holds(d, y, r)
    <3>1. n - 1 <= EDITOR_COLS - 1
      BY <1>2, <2>2, CableSizes
    <3> QED
      BY <2>3, <2>5, <3>1 DEF Holds, p
  <2>7. ASSUME NEW z \in Rows \ {y}, NEW k \in Columns
        PROVE  d[Row(z) + k] = b[Row(z) + k]
    <3>1. Row(z) \in Nat /\ Row(z) + k \in Cell /\ k \in Nat /\ k < EDITOR_COLS /\ EDITOR_COLS \in Nat
      BY <2>7, RowFacts, CableSizes DEF Columns
    <3>2. z \in Nat /\ y \in Nat /\ z # y
      BY <2>7, CableSizes DEF Rows
    <3>3. z < y => Row(z) + EDITOR_COLS <= p
      BY <2>7, <3>2, RowFacts DEF p
    <3>4. y < z => p + EDITOR_COLS <= Row(z)
      BY <3>2, RowFacts DEF p
    <3>6. Row(z) + k < p \/ Row(z) + k > p + n
      BY <1>1, <1>2, <2>2, <3>1, <3>2, <3>3, <3>4
    <3>7. ~(p + (x - 1) <= Row(z) + k /\ Row(z) + k < p + n)
      BY <1>1, <1>2, <3>1, <3>6
    <3> QED
      BY <1>3, <3>1, <3>7
  <2> QED
    BY <2>3, <2>6, <2>7 DEF Holds, r
<1> QED
  BY <1>3, <1>6, <1>7, <1>8 DEF n, p

\* The rows after a join of row y with the one above: both strings in one,
\* the rows below moved up, and the last one still there.
LEMMA JoinCells ==
  ASSUME NEW b \in Array, Padded(b), NEW y \in Rows, y >= 1, NEW q \in Nat, q = Row(y - 1),
         NEW n \in Nat, NEW m \in Nat, n + m < EDITOR_COLS - 1,
         strlen(b, q) = n, strlen(b, Row(y)) = m, NEW d,
         d = memmove(strcat(b, q, Row(y)), Row(y), Row(y + 1), (EDITOR_ROWS - y - 1) * EDITOR_COLS)
  PROVE  /\ d \in Array
         /\ \A x \in Columns : d[q + x] = IF n <= x /\ x <= n + m THEN b[Row(y) + (x - n)] ELSE b[q + x]
         /\ \A z \in Rows, x \in Columns :
              /\ z < y - 1 \/ z = EDITOR_ROWS - 1 => d[Row(z) + x] = b[Row(z) + x]
              /\ y <= z /\ z < EDITOR_ROWS - 1 => d[Row(z) + x] = b[Row(z + 1) + x]
<1> DEFINE p == Row(y)
           last == Row(EDITOR_ROWS - 1)
           a == strcat(b, q, p)
<1>1. /\ y \in Nat /\ EDITOR_ROWS \in Nat /\ EDITOR_COLS \in Nat /\ y <= EDITOR_ROWS - 1
      /\ y - 1 \in Rows /\ EDITOR_ROWS - 1 \in Rows /\ EDITOR_ROWS - 1 \in Nat /\ (y - 1) + 1 = y
  BY CableSizes DEF Rows
<1>2. /\ p \in Nat /\ Row(y + 1) = p + EDITOR_COLS /\ last \in Nat
      /\ p = q + EDITOR_COLS
  BY <1>1, RowFacts
<1>3. \A i \in Cell : i \in Nat
  BY CableSizes DEF Cell
<1>4. p + (EDITOR_ROWS - y - 1) * EDITOR_COLS = last
  <2>1. EDITOR_ROWS - y - 1 = (EDITOR_ROWS - 1) - y
    BY <1>1
  <2>2. ((EDITOR_ROWS - 1) - y) * EDITOR_COLS = (EDITOR_ROWS - 1) * EDITOR_COLS - y * EDITOR_COLS
    BY <1>1, RowArith
  <2>3. y * EDITOR_COLS \in Nat /\ (EDITOR_ROWS - 1) * EDITOR_COLS \in Nat
    BY <1>1, RowArith
  <2> QED
    BY <2>1, <2>2, <2>3 DEF Row
<1>5. a = [i \in Cell |-> IF q + n <= i /\ i < (q + n) + (m + 1) THEN b[p + (i - (q + n))] ELSE b[i]]
  BY DEF strcat, memmove
<1>6. d = [i \in Cell |-> IF p <= i /\ i < last THEN a[(p + EDITOR_COLS) + (i - p)] ELSE a[i]]
  <2>1. d = [i \in Cell |-> IF p <= i /\ i < p + (EDITOR_ROWS - y - 1) * EDITOR_COLS
                            THEN a[Row(y + 1) + (i - p)] ELSE a[i]]
    BY DEF memmove
  <2> HIDE DEF p, last, a
  <2> QED
    BY <1>2, <1>4, <2>1
<1> HIDE DEF p, last, a
<1>7. \A i \in Cell : i >= p => a[i] = b[i]
  BY <1>1, <1>2, <1>3, <1>5
<1>8. ASSUME NEW x \in Columns
      PROVE  /\ q + x \in Cell
             /\ d[q + x] = IF n <= x /\ x <= n + m THEN b[p + (x - n)] ELSE b[q + x]
  <2>1. q + x \in Cell /\ x \in Nat /\ x < EDITOR_COLS
    BY <1>1, RowFacts, CableSizes DEF Columns
  <2>2. ~(p <= q + x)
    BY <1>1, <1>2, <2>1
  <2>3. d[q + x] = a[q + x]
    BY <1>6, <2>1, <2>2
  <2>4. /\ (q + n <= q + x /\ q + x < (q + n) + (m + 1)) <=> (n <= x /\ x <= n + m)
        /\ (q + x) - (q + n) = x - n
    BY <2>1
  <2>5. a[q + x] = IF q + n <= q + x /\ q + x < (q + n) + (m + 1)
                   THEN b[p + ((q + x) - (q + n))] ELSE b[q + x]
    BY <1>5, <2>1
  <2> QED
    BY <2>1, <2>3, <2>4, <2>5
<1>9. ASSUME NEW z \in Rows, NEW x \in Columns
      PROVE  /\ Row(z) + x \in Cell
             /\ z < y - 1 \/ z = EDITOR_ROWS - 1 => d[Row(z) + x] = b[Row(z) + x]
             /\ y <= z /\ z < EDITOR_ROWS - 1 => d[Row(z) + x] = b[Row(z + 1) + x]
  <2>1. Row(z) \in Nat /\ Row(z) + x \in Cell /\ x \in Nat /\ x < EDITOR_COLS /\ z \in Nat
    BY <1>1, RowFacts, CableSizes DEF Columns, Rows
  <2>2. PICK i \in Cell : i = Row(z) + x
    BY <2>1
  <2>3. ASSUME z < y - 1
        PROVE  d[i] = b[i]
    <3>1. Row(z) + EDITOR_COLS <= q
      BY <1>1, <2>1, <2>3, RowFacts
    <3>2. i < q /\ ~(p <= i) /\ ~(q + n <= i)
      BY <1>1, <1>2, <2>1, <2>2, <3>1
    <3> QED
      BY <1>5, <1>6, <3>2
  <2>4. ASSUME z = EDITOR_ROWS - 1
        PROVE  d[i] = b[i]
    <3>1. Row(z) = last
      BY <2>4 DEF last
    <3>2. last >= p
      <4>1. y = z \/ (y < z /\ p + EDITOR_COLS <= Row(z))
        BY <1>1, <2>1, <2>4, RowFacts DEF p
      <4> QED
        BY <1>1, <1>2, <3>1, <4>1 DEF p
    <3>3. ~(i < last) /\ i >= p
      BY <1>2, <2>1, <2>2, <3>1, <3>2
    <3> QED
      BY <1>6, <1>7, <3>3
  <2>5. ASSUME y <= z, z < EDITOR_ROWS - 1
        PROVE  d[i] = b[Row(z + 1) + x]
    <3>1. Row(z) + EDITOR_COLS <= last /\ Row(z + 1) = Row(z) + EDITOR_COLS
      BY <1>1, <2>1, <2>5, RowFacts DEF last
    <3>2. Row(z) >= p
      <4>1. y = z \/ (y < z /\ p + EDITOR_COLS <= Row(z))
        BY <1>1, <2>1, <2>5, RowFacts DEF p
      <4> QED
        BY <1>1, <1>2, <2>1, <4>1 DEF p
    <3>3. p <= i /\ i < last
      BY <1>1, <1>2, <2>1, <2>2, <3>1, <3>2
    <3>4. d[i] = a[(p + EDITOR_COLS) + (i - p)]
      BY <1>6, <3>3
    <3>5. (p + EDITOR_COLS) + (i - p) = Row(z + 1) + x
      BY <1>1, <1>2, <2>1, <2>2, <3>1
    <3>6. Row(z + 1) + x \in Cell /\ Row(z + 1) + x >= p
      <4>1. z + 1 \in Rows
        BY <1>1, <2>1, <2>5 DEF Rows
      <4>2. Row(z + 1) + x \in Cell
        BY <4>1, RowFacts
      <4> QED
        BY <1>1, <1>2, <2>1, <3>1, <3>2, <4>2
    <3> QED
      BY <1>7, <3>4, <3>5, <3>6
  <2> QED
    BY <2>1, <2>2, <2>3, <2>4, <2>5
<1>10. ASSUME NEW i \in Cell
       PROVE  d[i] \in Bytes0
  <2>1. PICK z \in Rows, x \in Columns : i = Row(z) + x
    BY CellRow
  <2>2. z \in Nat /\ x \in Nat
    BY <1>1 DEF Rows, Columns
  <2>3. \A k \in Cell : b[k] \in Bytes0
    BY DEF Array
  <2>4. CASE z = y - 1
    <3>1. i = q + x
      BY <2>1, <2>4
    <3>2. ASSUME n <= x, x <= n + m
          PROVE  p + (x - n) \in Cell
      <4>1. x - n \in Columns
        BY <1>1, <2>2, <3>2 DEF Columns
      <4> QED
        BY <4>1, RowFacts DEF p
    <3> QED
      BY <1>8, <2>3, <3>1, <3>2
  <2>5. CASE z < y - 1 \/ z = EDITOR_ROWS - 1
    BY <1>9, <2>1, <2>3, <2>5
  <2>6. CASE y <= z /\ z < EDITOR_ROWS - 1
    <3>1. z + 1 \in Rows
      BY <1>1, <2>2, <2>6 DEF Rows
    <3>2. Row(z + 1) + x \in Cell
      BY <3>1, RowFacts
    <3> QED
      BY <1>9, <2>1, <2>3, <2>6, <3>2
  <2>7. z < EDITOR_ROWS
    BY <1>1 DEF Rows
  <2> QED
    BY <1>1, <2>2, <2>4, <2>5, <2>6, <2>7
<1>11. d = [i \in Cell |-> d[i]]
  BY <1>6
<1>12. d \in Array
  BY <1>10, <1>11 DEF Array
<1> QED
  BY <1>8, <1>9, <1>12 DEF p

\* A row that holds a string is padded.
LEMMA HoldsPadded ==
  ASSUME NEW b, NEW y \in Rows, NEW s \in Seq(Char), Holds(b, y, s),
         NEW x \in Columns, NEW z \in Columns, x < z, b[Row(y) + x] = Nul
  PROVE  b[Row(y) + z] = Nul
<1>1. x \in Nat /\ z \in Nat /\ Len(s) \in Nat
  BY CableSizes DEF Columns
<1>2. x < Len(s) => s[x + 1] \in Char
  BY <1>1, ElementOfSeq
<1>3. ~(x < Len(s))
  BY <1>2, NotNul DEF Holds, Byte
<1>4. ~(z < Len(s))
  BY <1>1, <1>3
<1> QED
  BY <1>4 DEF Holds

\* Row v of d is that of b, with m bytes of row y and a zero put behind n bytes.
BehindOther(d, b, v, y, n, m) ==
  \A x \in Columns : d[Row(v) + x] =
     IF n <= x /\ x <= n + m THEN b[Row(y) + (x - n)] ELSE b[Row(v) + x]

\* The joined row holds both strings.
LEMMA JoinedRow ==
  ASSUME NEW b, NEW d, NEW y \in Rows, NEW v \in Rows, NEW s \in Seq(Char), NEW t \in Seq(Char),
         Holds(b, v, s), Holds(b, y, t), Len(s) + Len(t) < EDITOR_COLS - 1,
         BehindOther(d, b, v, y, Len(s), Len(t))
  PROVE  Holds(d, v, s \o t) /\ s \o t \in Seq(Char)
<1> DEFINE r == s \o t
<1>1. Len(s) \in Nat /\ Len(t) \in Nat /\ EDITOR_COLS \in Nat
  BY CableSizes
<1>2. /\ r \in Seq(Char) /\ Len(r) = Len(s) + Len(t)
      /\ \A k \in 1..(Len(s) + Len(t)) : r[k] = IF k <= Len(s) THEN s[k] ELSE t[k - Len(s)]
  BY Joined
<1> HIDE DEF r
<1>3. ASSUME NEW x \in Columns
      PROVE  d[Row(v) + x] = IF x < Len(r) THEN r[x + 1] ELSE Nul
  <2>1. x \in Nat
    BY DEF Columns
  <2>2. b[Row(v) + x] = IF x < Len(s) THEN s[x + 1] ELSE Nul
    BY DEF Holds
  <2>3. CASE x < Len(s)
    <3>1. x + 1 \in 1..(Len(s) + Len(t)) /\ x + 1 <= Len(s) /\ x < Len(r)
          /\ ~(Len(s) <= x)
      BY <1>1, <1>2, <2>1, <2>3
    <3> QED
      BY <1>2, <2>2, <2>3, <3>1 DEF BehindOther
  <2>4. CASE Len(s) <= x /\ x <= Len(s) + Len(t)
    <3>1. x - Len(s) \in Columns
      BY <1>1, <2>1, <2>4 DEF Columns
    <3>2. d[Row(v) + x] = IF x - Len(s) < Len(t) THEN t[(x - Len(s)) + 1] ELSE Nul
      BY <2>4, <3>1 DEF Holds, BehindOther
    <3>3. (x - Len(s) < Len(t)) <=> (x < Len(r))
      BY <1>1, <1>2, <2>1
    <3>4. ASSUME x < Len(r)
          PROVE  r[x + 1] = t[(x - Len(s)) + 1]
      <4>1. x + 1 \in 1..(Len(s) + Len(t)) /\ ~(x + 1 <= Len(s))
            /\ (x + 1) - Len(s) = (x - Len(s)) + 1
        BY <1>1, <1>2, <2>1, <2>4, <3>4
      <4> QED
        BY <1>2, <4>1
    <3> QED
      BY <3>2, <3>3, <3>4
  <2>5. CASE x > Len(s) + Len(t)
    <3>1. ~(x < Len(s)) /\ ~(x < Len(r)) /\ ~(x <= Len(s) + Len(t))
      BY <1>1, <1>2, <2>1, <2>5
    <3> QED
      BY <2>2, <3>1 DEF BehindOther
  <2> QED
    BY <1>1, <2>1, <2>3, <2>4, <2>5
<1>4. Len(r) <= EDITOR_COLS - 1
  BY <1>1, <1>2
<1> QED
  BY <1>2, <1>3, <1>4 DEF Holds, r

\* The rows expected after the join of row y with the one above.
JoinedText(t, y) == Append(RemoveAt([t EXCEPT ![y] = @ \o t[y + 1]], y + 1), <<>>)

\* JoinedText() row by row: the two rows in one, those below moved up, and an
\* empty row at the end.
LEMMA JoinedTextResult ==
  ASSUME NEW t \in Seq(Seq(Char)), NEW y \in 1..(Len(t) - 1)
  PROVE  /\ JoinedText(t, y) \in Seq(Seq(Char)) /\ Len(JoinedText(t, y)) = Len(t)
         /\ JoinedText(t, y)[y] = t[y] \o t[y + 1]
         /\ JoinedText(t, y)[Len(t)] = <<>>
         /\ \A k \in 1..(Len(t) - 1) :
              k # y => JoinedText(t, y)[k] = IF k < y THEN t[k] ELSE t[k + 1]
<1> DEFINE u == [t EXCEPT ![y] = @ \o t[y + 1]]
           v == RemoveAt(u, y + 1)
           w == Append(v, <<>>)
<1>1. Len(t) \in Nat /\ y \in Nat /\ y \in 1..Len(t) /\ y + 1 \in 1..Len(t)
  OBVIOUS
<1>2. t[y] \in Seq(Char) /\ t[y + 1] \in Seq(Char)
  BY <1>1, ElementOfSeq
<1>3. t[y] \o t[y + 1] \in Seq(Char)
  BY <1>2, Joined
<1>4. /\ u \in Seq(Seq(Char)) /\ Len(u) = Len(t) /\ u[y] = t[y] \o t[y + 1]
      /\ \A k \in 1..Len(t) : k # y => u[k] = t[k]
  <2> DEFINE j == t[y] \o t[y + 1]
  <2>1. j \in Seq(Char)
    BY <1>3
  <2> HIDE DEF j
  <2>2. u = [t EXCEPT ![y] = j]
    BY DEF j
  <2>3. \A k \in 1..Len(t) : t[k] \in Seq(Char)
    BY ElementOfSeq
  <2>4. /\ [t EXCEPT ![y] = j] \in Seq(Seq(Char)) /\ Len([t EXCEPT ![y] = j]) = Len(t)
        /\ [t EXCEPT ![y] = j][y] = j
        /\ \A k \in 1..Len(t) : k # y => [t EXCEPT ![y] = j][k] = t[k]
    BY <1>1, <2>1, <2>3, ExceptSeq
  <2> QED
    BY <2>2, <2>4 DEF j
<1> HIDE DEF u
<1>5. /\ v \in Seq(Seq(Char)) /\ Len(v) = Len(t) - 1
      /\ \A k \in 1..(Len(t) - 1) : v[k] = IF k < y + 1 THEN u[k] ELSE u[k + 1]
  <2>1. PICK z \in 1..Len(u) : z = y + 1
    BY <1>1, <1>4
  <2>2. /\ RemoveAt(u, z) \in Seq(Seq(Char)) /\ Len(RemoveAt(u, z)) = Len(u) - 1
        /\ \A k \in 1..(Len(u) - 1) : RemoveAt(u, z)[k] = IF k < z THEN u[k] ELSE u[k + 1]
    BY <1>4, RemoveAtResult
  <2> QED
    BY <1>4, <2>1, <2>2
<1> HIDE DEF v
<1>6. <<>> \in Seq(Char)
  OBVIOUS
<1>7. /\ w \in Seq(Seq(Char)) /\ Len(w) = Len(t) /\ w[Len(t)] = <<>>
      /\ \A k \in 1..(Len(t) - 1) : w[k] = v[k]
  BY <1>1, <1>5, <1>6, AppendProperties
<1>8. JoinedText(t, y) = w
  BY DEF JoinedText, w, v, u
<1> HIDE DEF w
<1>9. w[y] = t[y] \o t[y + 1]
  <2>1. y \in 1..(Len(t) - 1) /\ y < y + 1
    BY <1>1
  <2> QED
    BY <1>4, <1>5, <1>7, <2>1
<1>10. ASSUME NEW k \in 1..(Len(t) - 1), k # y
       PROVE  w[k] = IF k < y THEN t[k] ELSE t[k + 1]
  <2>1. w[k] = IF k < y + 1 THEN u[k] ELSE u[k + 1]
    BY <1>5, <1>7
  <2>2. k \in 1..Len(t) /\ k + 1 \in 1..Len(t) /\ ((k < y + 1) <=> (k < y)) /\ (~(k < y) => k + 1 # y)
    BY <1>1, <1>10
  <2> QED
    BY <1>4, <1>10, <2>1, <2>2
<1> QED
  BY <1>7, <1>8, <1>9, <1>10

\* editor_delete_char() at the start of row y: the rows stay padded, and are
\* as expected if the last one was empty.
LEMMA JoinRow ==
  ASSUME NEW b \in Array, Padded(b), NEW y \in Rows, y >= 1,
         IsString(b, Row(y - 1)), IsString(b, Row(y)),
         strlen(b, Row(y - 1)) + strlen(b, Row(y)) < EDITOR_COLS - 1, NEW d,
         d = memmove(strcat(b, Row(y - 1), Row(y)), Row(y), Row(y + 1),
                     (EDITOR_ROWS - y - 1) * EDITOR_COLS)
  PROVE  /\ d \in Array /\ Padded(d)
         /\ \A t \in Seq(Seq(Char)) :
              /\ Len(t) = EDITOR_ROWS /\ t[EDITOR_ROWS] = <<>>
              /\ \A z \in Rows : Holds(b, z, t[z + 1])
              => \A z \in Rows : Holds(d, z, JoinedText(t, y)[z + 1])
<1> DEFINE s == CString(b, Row(y - 1))
           u == CString(b, Row(y))
<1>1. /\ y \in Nat /\ EDITOR_ROWS \in Nat /\ EDITOR_COLS \in Nat /\ y <= EDITOR_ROWS - 1
      /\ y - 1 \in Rows /\ (y - 1) + 1 = y
  BY CableSizes DEF Rows
<1>2. Row(y - 1) \in Nat /\ Row(y) \in Nat
  BY <1>1, RowFacts
<1>3. strlen(b, Row(y - 1)) \in Nat /\ strlen(b, Row(y)) \in Nat
  BY <1>2, StrlenResult
<1>4. strlen(b, Row(y - 1)) < EDITOR_COLS /\ strlen(b, Row(y)) < EDITOR_COLS
  BY <1>1, <1>3
<1>5. /\ Holds(b, y - 1, s) /\ s \in Seq(Char) /\ Len(s) = strlen(b, Row(y - 1))
      /\ Holds(b, y, u) /\ u \in Seq(Char) /\ Len(u) = strlen(b, Row(y))
  BY <1>1, <1>4, PaddedRow
<1> HIDE DEF s, u
<1>6. PICK q \in Nat : q = Row(y - 1)
  BY <1>2
<1>7. PICK n \in Nat : n = strlen(b, q)
  BY <1>3, <1>6
<1>8. PICK m \in Nat : m = strlen(b, Row(y))
  BY <1>3
<1>9. /\ d \in Array
      /\ \A x \in Columns : d[q + x] = IF n <= x /\ x <= n + m THEN b[Row(y) + (x - n)] ELSE b[q + x]
      /\ \A z \in Rows, x \in Columns :
           /\ z < y - 1 \/ z = EDITOR_ROWS - 1 => d[Row(z) + x] = b[Row(z) + x]
           /\ y <= z /\ z < EDITOR_ROWS - 1 => d[Row(z) + x] = b[Row(z + 1) + x]
  <2>1. n + m < EDITOR_COLS - 1
    BY <1>6, <1>7, <1>8
  <2>2. d = memmove(strcat(b, q, Row(y)), Row(y), Row(y + 1), (EDITOR_ROWS - y - 1) * EDITOR_COLS)
    BY <1>6
  <2> QED
    BY <1>6, <1>7, <1>8, <2>1, <2>2, JoinCells
<1>10. Holds(d, y - 1, s \o u) /\ s \o u \in Seq(Char)
  <2>1. \A x \in Columns : d[Row(y - 1) + x] =
          IF Len(s) <= x /\ x <= Len(s) + Len(u) THEN b[Row(y) + (x - Len(s))] ELSE b[Row(y - 1) + x]
    BY <1>5, <1>6, <1>7, <1>8, <1>9
  <2>2. Len(s) + Len(u) < EDITOR_COLS - 1
    BY <1>5
  <2>3. PICK v \in Rows : v = y - 1
    BY <1>1
  <2>4. BehindOther(d, b, v, y, Len(s), Len(u))
    BY <2>1, <2>3 DEF BehindOther
  <2>5. Holds(b, v, s)
    BY <1>5, <2>3
  <2>6. Holds(d, v, s \o u) /\ s \o u \in Seq(Char)
    <3>1. Holds(b, y, u) /\ s \in Seq(Char) /\ u \in Seq(Char)
      BY <1>5
    <3> QED
      BY <2>2, <2>4, <2>5, <3>1, JoinedRow, ZenonT(30)
  <2> QED
    BY <2>3, <2>6
<1>11. ASSUME NEW z \in Rows, z # y - 1
       PROVE  \E v \in Rows : /\ v = IF y <= z /\ z < EDITOR_ROWS - 1 THEN z + 1 ELSE z
                              /\ \A x \in Columns : d[Row(z) + x] = b[Row(v) + x]
  <2>1. z \in Nat /\ z < EDITOR_ROWS
    BY <1>1 DEF Rows
  <2>2. CASE y <= z /\ z < EDITOR_ROWS - 1
    <3>1. z + 1 \in Rows
      BY <1>1, <2>1, <2>2 DEF Rows
    <3> QED
      BY <1>9, <2>2, <3>1
  <2>3. CASE ~(y <= z /\ z < EDITOR_ROWS - 1)
    <3>1. z < y - 1 \/ z = EDITOR_ROWS - 1
      BY <1>1, <1>11, <2>1, <2>3
    <3> QED
      BY <1>9, <2>3, <3>1
  <2> QED
    BY <2>2, <2>3
<1>12. Padded(d)
  <2> SUFFICES ASSUME NEW z \in Rows, NEW x \in Columns, NEW k \in Columns, x < k,
                      d[Row(z) + x] = Nul
               PROVE  d[Row(z) + k] = Nul
    BY DEF Padded
  <2>1. CASE z = y - 1
    BY <1>10, <2>1, HoldsPadded
  <2>2. CASE z # y - 1
    <3>1. PICK v \in Rows : \A i \in Columns : d[Row(z) + i] = b[Row(v) + i]
      BY <1>11, <2>2
    <3> QED
      BY <3>1 DEF Padded
  <2> QED
    BY <2>1, <2>2
<1>13. ASSUME NEW t \in Seq(Seq(Char)), Len(t) = EDITOR_ROWS, t[EDITOR_ROWS] = <<>>,
              \A z \in Rows : Holds(b, z, t[z + 1]),
              NEW z \in Rows
       PROVE  Holds(d, z, JoinedText(t, y)[z + 1])
  <2> DEFINE w == JoinedText(t, y)
  <2>1. y \in 1..(Len(t) - 1) /\ y - 1 + 1 = y
    BY <1>1, <1>13
  <2>2. /\ w[y] = t[y] \o t[y + 1] /\ w[EDITOR_ROWS] = <<>>
        /\ \A k \in 1..(EDITOR_ROWS - 1) : k # y => w[k] = IF k < y THEN t[k] ELSE t[k + 1]
    <3>1. /\ w[y] = t[y] \o t[y + 1] /\ w[Len(t)] = <<>>
          /\ \A k \in 1..(Len(t) - 1) : k # y => w[k] = IF k < y THEN t[k] ELSE t[k + 1]
      BY <2>1, JoinedTextResult
    <3> HIDE DEF w
    <3> QED
      BY <1>13, <3>1
  <2> HIDE DEF w
  <2>3. \A k \in 1..EDITOR_ROWS : t[k] \in Seq(Char)
    BY <1>13, ElementOfSeq
  <2>4. z \in Nat /\ z < EDITOR_ROWS /\ z + 1 \in 1..EDITOR_ROWS
    BY <1>1 DEF Rows
  <2>5. CASE z = y - 1
    <3>1. t[y] = s /\ t[y + 1] = u
      <4>1. y \in 1..EDITOR_ROWS /\ y + 1 \in 1..EDITOR_ROWS
        BY <1>1
      <4>2. CString(b, Row(y - 1)) = t[y]
        BY <1>1, <1>13, <2>3, <4>1, HoldsString
      <4>3. CString(b, Row(y)) = t[y + 1]
        BY <1>1, <1>13, <2>3, <4>1, HoldsString
      <4> QED
        BY <4>2, <4>3 DEF s, u
    <3>2. z + 1 = y
      BY <1>1, <2>5
    <3>3. w[z + 1] = s \o u
      BY <2>2, <3>1, <3>2
    <3> QED
      BY <1>10, <2>5, <3>3 DEF w
  <2>6. CASE z # y - 1
    <3>1. PICK v \in Rows : /\ v = IF y <= z /\ z < EDITOR_ROWS - 1 THEN z + 1 ELSE z
                            /\ \A x \in Columns : d[Row(z) + x] = b[Row(v) + x]
      BY <1>11, <2>6
    <3>2. w[z + 1] = t[v + 1]
      <4>1. CASE z = EDITOR_ROWS - 1
        <5>1. v = z /\ z + 1 = EDITOR_ROWS
          BY <1>1, <2>4, <3>1, <4>1
        <5> QED
          BY <1>13, <2>2, <5>1
      <4>2. CASE z # EDITOR_ROWS - 1
        <5>1. z + 1 \in 1..(EDITOR_ROWS - 1) /\ z + 1 # y /\ z < EDITOR_ROWS - 1
              /\ (z + 1 < y <=> ~(y <= z))
          BY <1>1, <2>4, <2>6, <4>2
        <5>2. w[z + 1] = IF z + 1 < y THEN t[z + 1] ELSE t[(z + 1) + 1]
          BY <2>2, <5>1
        <5> QED
          BY <3>1, <5>1, <5>2
      <4> QED
        BY <4>1, <4>2
    <3>3. Holds(b, v, t[v + 1])
      BY <1>13
    <3>4. Holds(d, z, t[v + 1])
      BY <3>1, <3>3 DEF Holds
    <3> QED
      BY <3>2, <3>4 DEF w
  <2> QED
    BY <2>5, <2>6
<1> QED
  BY <1>9, <1>12, <1>13

-----------------------------------------------------------------------------
(* Loading a file                                                          *)

LoadState == [b : Array, row : 0..EDITOR_ROWS, col : Columns]
LoadStart == [b |-> EmptyBuffer, row |-> 0, col |-> 0]

\* f is the states of editor_init()'s loop on the first n bytes of s.
Loads(f, s, n) ==
  /\ f \in [0..n -> LoadState]
  /\ f[0] = LoadStart
  /\ \A k \in 1..n : f[k] = LoadByte(f[k - 1], s[k])

\* The loop starts with empty rows and keeps its position inside the array.
LEMMA LoadStartState == LoadStart \in LoadState
<1>1. EmptyBuffer \in Array
  BY DEF EmptyBuffer, Array, Bytes0
<1>2. 0 \in 0..EDITOR_ROWS /\ 0 \in Columns
  BY CableSizes DEF Columns
<1> QED
  BY <1>1, <1>2 DEF LoadStart, LoadState

\* So does each iteration of editor_init()'s loop, on any byte.
LEMMA LoadByteState ==
  ASSUME NEW e \in LoadState, NEW c \in Byte
  PROVE  LoadByte(e, c) \in LoadState
<1>1. /\ e.b \in Array /\ e.row \in 0..EDITOR_ROWS /\ e.col \in Columns
      /\ EDITOR_ROWS \in Nat /\ EDITOR_COLS \in Nat /\ EDITOR_COLS >= 2
  BY CableSizes DEF LoadState
<1>2. CASE e.row >= EDITOR_ROWS
  BY <1>2 DEF LoadByte
<1>3. CASE ~(e.row >= EDITOR_ROWS) /\ c = Newline
  <2>1. LoadByte(e, c) = [e EXCEPT !.row = e.row + 1, !.col = 0]
    BY <1>3 DEF LoadByte
  <2>2. e.row + 1 \in 0..EDITOR_ROWS /\ 0 \in Columns
    BY <1>1, <1>3 DEF Columns
  <2> QED
    BY <2>1, <2>2 DEF LoadState
<1>4. CASE ~(e.row >= EDITOR_ROWS) /\ c # Newline /\ e.col >= EDITOR_COLS - 1
  BY <1>4 DEF LoadByte
<1>5. CASE ~(e.row >= EDITOR_ROWS) /\ c # Newline /\ ~(e.col >= EDITOR_COLS - 1)
  <2> DEFINE d == [e.b EXCEPT ![Row(e.row) + e.col] = c]
  <2>1. LoadByte(e, c) = [e EXCEPT !.b = d, !.col = e.col + 1]
    BY <1>5 DEF LoadByte
  <2>2. d \in Array
    <3>1. c \in Bytes0
      BY <1>5 DEF Byte, Bytes0
    <3> QED
      BY <1>1, <3>1 DEF Array
  <2>3. e.col + 1 \in Columns
    BY <1>1, <1>5 DEF Columns
  <2> HIDE DEF d
  <2> QED
    BY <2>1, <2>2, <2>3 DEF LoadState
<1> QED
  BY <1>2, <1>3, <1>4, <1>5

\* Every file has such states.
LEMMA LoadsExist ==
  ASSUME NEW s \in Seq(Byte), NEW n \in 0..Len(s)
  PROVE  \E f : Loads(f, s, n)
<1> DEFINE S == {m \in 0..Len(s) : ~\E f : Loads(f, s, m)}
<1>0. Len(s) \in Nat
  OBVIOUS
<1> SUFFICES ASSUME S # {}
             PROVE  FALSE
  OBVIOUS
<1>1. PICK m \in S : \A k \in S : m <= k
  <2> S \in SUBSET Nat
    BY <1>0
  <2> HIDE DEF S
  <2> QED
    BY LeastNat
<1>2. CASE m = 0
  <2> DEFINE g == [k \in 0..0 |-> LoadStart]
  <2>1. Loads(g, s, 0)
    BY LoadStartState DEF Loads
  <2> QED
    BY <1>2, <2>1
<1>3. CASE m # 0
  <2>1. m - 1 \in 0..Len(s) /\ m - 1 \notin S /\ m \in 1..Len(s)
    BY <1>0, <1>1, <1>3
  <2>2. PICK f : Loads(f, s, m - 1)
    BY <2>1
  <2> DEFINE g == [k \in 0..m |-> IF k = m THEN LoadByte(f[m - 1], s[m]) ELSE f[k]]
  <2>3. f \in [0..(m - 1) -> LoadState] /\ f[0] = LoadStart
    BY <2>2 DEF Loads
  <2>4. g \in [0..m -> LoadState]
    <3> SUFFICES ASSUME NEW k \in 0..m
                 PROVE  (IF k = m THEN LoadByte(f[m - 1], s[m]) ELSE f[k]) \in LoadState
      OBVIOUS
    <3>1. f[m - 1] \in LoadState
      BY <2>1, <2>3
    <3>2. k # m => f[k] \in LoadState
      BY <2>1, <2>3
    <3>3. s[m] \in Byte
      BY <2>1, ElementOfSeq
    <3> QED
      BY <3>1, <3>2, <3>3, LoadByteState
  <2>5. g[0] = LoadStart
    BY <2>1, <2>3, <1>3
  <2>6. ASSUME NEW k \in 1..m
        PROVE  g[k] = LoadByte(g[k - 1], s[k])
    <3>1. g[k - 1] = f[k - 1]
      BY <2>1
    <3>2. k # m => g[k] = f[k] /\ f[k] = LoadByte(f[k - 1], s[k])
      BY <2>1, <2>2 DEF Loads
    <3> QED
      BY <3>1, <3>2
  <2>7. Loads(g, s, m)
    BY <2>4, <2>5, <2>6 DEF Loads
  <2> QED
    BY <2>7
<1> QED
  BY <1>2, <1>3

\* Loaded() is the last of them.
LEMMA LoadedIs ==
  ASSUME NEW s \in Seq(Byte)
  PROVE  \E f : Loads(f, s, Len(s)) /\ Loaded(s) = f[Len(s)]
<1> DEFINE Rec(f) == [k \in 0..Len(s) |->
                        IF k = 0 THEN LoadStart ELSE LoadByte(f[k - 1], s[k])]
<1>1. Len(s) \in Nat
  OBVIOUS
<1>2. PICK f : Loads(f, s, Len(s))
  BY <1>1, LoadsExist
<1>3. f = Rec(f)
  BY <1>1, <1>2 DEF Loads
<1> DEFINE g == CHOOSE h : h = Rec(h)
<1>4. Loaded(s) = g[Len(s)]
  BY DEF Loaded, LoadStart
<1>5. g = Rec(g)
  <2> HIDE DEF Rec
  <2> QED
    BY <1>3
<1>6. g[0] = LoadStart
  <2> HIDE DEF g
  <2> QED
    BY <1>1, <1>5
<1>7. ASSUME NEW k \in 1..Len(s)
      PROVE  g[k] = LoadByte(g[k - 1], s[k])
  <2> HIDE DEF g
  <2>1. k \in 0..Len(s) /\ k # 0
    BY <1>1
  <2>2. Rec(g)[k] = LoadByte(g[k - 1], s[k])
    BY <2>1
  <2> HIDE DEF Rec
  <2> QED
    BY <1>5, <2>2
<1>8. ASSUME NEW k \in 0..Len(s), g[k] \notin LoadState
      PROVE  FALSE
  <2> DEFINE S == {j \in 0..Len(s) : g[j] \notin LoadState}
  <2> HIDE DEF g
  <2>1. S \in SUBSET Nat /\ S # {}
    BY <1>1, <1>8
  <2>2. PICK j \in S : \A i \in S : j <= i
    <3> HIDE DEF S
    <3> QED
      BY <2>1, LeastNat
  <2>3. j # 0
    BY <1>6, LoadStartState
  <2>4. j - 1 \in 0..Len(s) /\ j - 1 \notin S /\ j \in 1..Len(s)
    BY <1>1, <2>2, <2>3
  <2>5. g[j - 1] \in LoadState /\ s[j] \in Byte
    BY <2>4, ElementOfSeq
  <2> QED
    BY <1>7, <2>4, <2>5, LoadByteState
<1>9. g = [k \in 0..Len(s) |-> g[k]]
  <2> HIDE DEF g
  <2> QED
    BY <1>5
<1> HIDE DEF g
<1>10. g \in [0..Len(s) -> LoadState]
  BY <1>8, <1>9
<1>11. Loads(g, s, Len(s))
  BY <1>6, <1>7, <1>10 DEF Loads
<1> QED
  BY <1>4, <1>11

\* How many of the first k bytes end a line.
Newlines(s, k) == Cardinality({q \in 1..k : s[q] = Newline})

\* Every newline adds one to it, so it only grows.
LEMMA NewlinesStep ==
  ASSUME NEW s, NEW k \in Nat
  PROVE  /\ Newlines(s, k) \in Nat
         /\ Newlines(s, k + 1) = IF s[k + 1] = Newline THEN Newlines(s, k) + 1 ELSE Newlines(s, k)
         /\ Newlines(s, 0) = 0
         /\ \A j \in 0..k : Newlines(s, j) <= Newlines(s, k)
<1> DEFINE N(j) == {q \in 1..j : s[q] = Newline}
<1>1. ASSUME NEW j \in Nat
      PROVE  IsFiniteSet(N(j)) /\ Cardinality(N(j)) \in Nat
  <2>1. IsFiniteSet(1..j) /\ N(j) \in SUBSET (1..j)
    BY FS_Interval
  <2>2. IsFiniteSet(N(j))
    BY <2>1, FS_Subset
  <2> QED
    BY <2>2, FS_CardinalityType
<1>2. N(k + 1) = IF s[k + 1] = Newline THEN N(k) \cup {k + 1} ELSE N(k)
  <2>1. 1..(k + 1) = (1..k) \cup {k + 1}
    OBVIOUS
  <2> QED
    BY <2>1
<1>3. k + 1 \notin N(k)
  OBVIOUS
<1>4. N(0) = {}
  OBVIOUS
<1>5. ASSUME NEW j \in 0..k
      PROVE  Cardinality(N(j)) <= Cardinality(N(k))
  <2>1. N(j) \in SUBSET N(k)
    OBVIOUS
  <2> QED
    BY <1>1, <2>1, FS_Subset
<1>6. s[k + 1] = Newline => Cardinality(N(k + 1)) = Cardinality(N(k)) + 1
  <2> HIDE DEF N
  <2> QED
    BY <1>1, <1>2, <1>3, FS_AddElement
<1>7. s[k + 1] # Newline => Cardinality(N(k + 1)) = Cardinality(N(k))
  <2> HIDE DEF N
  <2> QED
    BY <1>2
<1>8. Cardinality(N(0)) = 0
  BY <1>4, FS_EmptySet
<1> QED
  BY <1>1, <1>5, <1>6, <1>7, <1>8 DEF Newlines

\* No fewer lines end in a longer part of the file.
LEMMA NewlinesGrow ==
  ASSUME NEW s, NEW j \in Nat, NEW k \in Nat, j <= k
  PROVE  /\ Newlines(s, j) \in Nat /\ Newlines(s, k) \in Nat
         /\ Newlines(s, j) <= Newlines(s, k)
<1>1. j \in 0..k
  OBVIOUS
<1> QED
  BY <1>1, NewlinesStep

\* A line is cut to what a row holds in front of its terminator.
Cut(n) == IF n < EDITOR_COLS - 1 THEN n ELSE EDITOR_COLS - 1

\* The places of line y + 1 of s.
Places(s, y) == {p \in 1..Len(s) : s[p] # Newline /\ Newlines(s, p) = y}

\* Line(), where the places are an interval.
LEMMA LineIs ==
  ASSUME NEW s \in Seq(Byte), NEW y \in Nat, NEW a \in 1..(Len(s) + 1), NEW z \in 0..Len(s),
         a <= z + 1, Places(s, y) = a..z
  PROVE  /\ Line(s, y + 1) \in Seq(Char) /\ Len(Line(s, y + 1)) = Cut((z + 1) - a)
         /\ \A k \in 1..Cut((z + 1) - a) : Line(s, y + 1)[k] = s[a + (k - 1)]
<1> DEFINE at == Places(s, y)
           r == SubSeq(s, Min(at), Min({Max(at), Min(at) + EDITOR_COLS - 2}))
<1>1. Len(s) \in Nat /\ a \in Nat /\ z \in Nat /\ EDITOR_COLS \in Nat /\ EDITOR_COLS >= 2
  BY CableSizes
<1>2. Line(s, y + 1) = IF at = {} THEN <<>> ELSE r
  <2>1. (y + 1) - 1 = y
    OBVIOUS
  <2> QED
    BY <2>1 DEF Line, Places, Newlines
<1>3. CASE a = z + 1
  <2>1. at = {}
    BY <1>1, <1>3
  <2>2. Cut((z + 1) - a) = 0
    BY <1>1, <1>3 DEF Cut
  <2>3. Line(s, y + 1) = <<>>
    BY <1>2, <2>1
  <2>4. 1..0 = {} /\ Len(<<>>) = 0
    OBVIOUS
  <2>5. <<>> \in Seq(Char)
    OBVIOUS
  <2> HIDE DEF at, r
  <2> QED
    BY <2>2, <2>3, <2>4, <2>5
<1>4. CASE a # z + 1
  <2>1. a <= z /\ at = a..z
    BY <1>1, <1>4
  <2>2. Min(at) = a
    <3>1. a \in at /\ \A i \in at : a <= i
      BY <1>1, <2>1
    <3>2. \A i \in at : (\A j \in at : i <= j) => i = a
      BY <1>1, <2>1
    <3> HIDE DEF at
    <3> QED
      BY <3>1, <3>2 DEF Min
  <2>3. Max(at) = z
    <3>1. z \in at /\ \A i \in at : z >= i
      BY <1>1, <2>1
    <3>2. \A i \in at : (\A j \in at : i >= j) => i = z
      <4>1. \A i \in at : i \in Int
        BY <2>1
      <4> HIDE DEF at
      <4> QED
        BY <1>1, <3>1, <4>1
    <3> HIDE DEF at
    <3> QED
      BY <3>1, <3>2 DEF Max
  <2> DEFINE m == a + EDITOR_COLS - 2
             e == IF z <= m THEN z ELSE m
  <2>4. Min({z, m}) = e
    <3>1. m \in Int /\ z \in Int
      BY <1>1
    <3>2. e \in {z, m} /\ \A i \in {z, m} : e <= i
      BY <3>1
    <3>3. \A i \in {z, m} : (\A j \in {z, m} : i <= j) => i = e
      BY <3>1
    <3> HIDE DEF m, e
    <3> QED
      BY <3>2, <3>3 DEF Min
  <2>5. e \in Nat /\ a <= e /\ e <= z /\ (e - a) + 1 = Cut((z + 1) - a) /\ e \in 1..Len(s)
    BY <1>1, <2>1 DEF Cut
  <2>6. Line(s, y + 1) = SubSeq(s, a, e)
    <3>1. at # {}
      <4>1. z \in a..z
        BY <1>1, <2>1
      <4> HIDE DEF at
      <4> QED
        BY <2>1, <4>1
    <3>2. r = SubSeq(s, a, Min({z, m}))
      BY <2>2, <2>3
    <3> QED
      BY <1>2, <2>4, <3>1, <3>2
  <2> HIDE DEF at, r, m, e
  <2>7. /\ Len(SubSeq(s, a, e)) = (e - a) + 1
        /\ SubSeq(s, a, e) = [i \in 1..((e - a) + 1) |-> s[a + (i - 1)]]
    <3>1. SubSeq(s, a, e) = [i \in 1..((e - a) + 1) |-> s[a + (i - 1)]]
      BY <1>1, <2>5
    <3>2. (e - a) + 1 \in Nat
      BY <1>1, <2>5
    <3> QED
      BY <3>1, <3>2
  <2>8. ASSUME NEW i \in 1..((e - a) + 1)
        PROVE  s[a + (i - 1)] \in Char
    <3>1. a + (i - 1) \in 1..Len(s) /\ a + (i - 1) \in a..z
      BY <1>1, <2>5
    <3>2. s[a + (i - 1)] # Newline
      BY <2>1, <3>1 DEF at, Places
    <3>3. s[a + (i - 1)] \in Byte
      BY <3>1, ElementOfSeq
    <3> QED
      BY <3>2, <3>3 DEF Byte
  <2>9. SubSeq(s, a, e) \in Seq(Char)
    <3>1. PICK n \in Nat : n = (e - a) + 1
      BY <1>1, <2>5
    <3>2. \A i \in 1..n : s[a + (i - 1)] \in Char
      BY <2>8, <3>1
    <3>3. [i \in 1..n |-> s[a + (i - 1)]] \in Seq(Char)
      BY <3>2
    <3> QED
      BY <2>7, <3>1, <3>3
  <2> QED
    BY <2>5, <2>6, <2>7, <2>9
<1> QED
  BY <1>3, <1>4

\* Row y of b has the line of s that starts at a, cut to n characters.
RowHas(b, y, s, a, n) ==
  \A x \in Columns : b[Row(y) + x] = IF x < n THEN s[a + x] ELSE Nul

LineDone(b, y, s) == Line(s, y + 1) \in Seq(Char) /\ Holds(b, y, Line(s, y + 1))

\* Then the row holds the line.
LEMMA LineHeld ==
  ASSUME NEW s \in Seq(Byte), NEW y \in Nat, NEW a \in 1..(Len(s) + 1), NEW z \in 0..Len(s),
         a <= z + 1, Places(s, y) = a..z, NEW b, RowHas(b, y, s, a, Cut((z + 1) - a))
  PROVE  LineDone(b, y, s)
<1> DEFINE n == Cut((z + 1) - a)
           r == Line(s, y + 1)
<1>1. r \in Seq(Char) /\ Len(r) = n /\ \A k \in 1..n : r[k] = s[a + (k - 1)]
  BY LineIs
<1>2. a \in Nat /\ Len(s) \in Nat /\ EDITOR_COLS \in Nat /\ EDITOR_COLS >= 2
  BY CableSizes
<1>3. n \in Nat /\ n <= EDITOR_COLS - 1
  BY <1>2 DEF Cut
<1> HIDE DEF n, r
<1>4. ASSUME NEW x \in Columns
      PROVE  b[Row(y) + x] = IF x < Len(r) THEN r[x + 1] ELSE Nul
  <2>1. x \in Nat
    BY <1>2 DEF Columns
  <2>2. b[Row(y) + x] = IF x < n THEN s[a + x] ELSE Nul
    BY DEF RowHas, n
  <2>3. ASSUME x < n
        PROVE  r[x + 1] = s[a + x]
    <3>1. PICK k \in Nat : k = x + 1
      BY <2>1
    <3>2. k \in 1..n /\ a + (k - 1) = a + x
      BY <1>2, <1>3, <2>1, <2>3, <3>1
    <3> QED
      BY <1>1, <3>1, <3>2
  <2> QED
    BY <1>1, <2>2, <2>3
<1> QED
  BY <1>1, <1>3, <1>4 DEF LineDone, Holds, r

\* Line n + 1 of s starts at a, as far as its first k bytes tell.
LineAt(s, k, n, a) ==
  /\ a \in 1..(k + 1)
  /\ \A p \in a..k : s[p] # Newline /\ Newlines(s, p) = n
  /\ \A p \in 1..(a - 1) : s[p] = Newline \/ Newlines(s, p) < n

RowEmpty(b, y) == \A x \in Columns : b[Row(y) + x] = Nul

\* The loop has loaded that far: whole lines, then the one that starts at a,
\* then empty rows.
RowsAt(s, k, n, e, a) ==
  /\ IF n < EDITOR_ROWS THEN e.row = n /\ e.col = Cut((k + 1) - a) ELSE e.row = EDITOR_ROWS
  /\ \A y \in Rows : y < n => LineDone(e.b, y, s)
  /\ \A y \in Rows : y = n => RowHas(e.b, y, s, a, Cut((k + 1) - a))
  /\ \A y \in Rows : y > n => RowEmpty(e.b, y)

\* A byte that ends a line.
LEMMA LoadNewline ==
  ASSUME NEW s \in Seq(Byte), NEW k \in Nat, NEW j \in Nat, k = j + 1, k <= Len(s),
         NEW n \in Nat, n = Newlines(s, j), NEW e \in LoadState, NEW a \in Nat,
         LineAt(s, j, n, a), RowsAt(s, j, n, e, a), s[k] = Newline
  PROVE  LineAt(s, k, n + 1, k + 1) /\ RowsAt(s, k, n + 1, LoadByte(e, s[k]), k + 1)
<1>1. /\ Len(s) \in Nat /\ EDITOR_ROWS \in Nat /\ EDITOR_COLS \in Nat /\ EDITOR_COLS >= 2
      /\ e.row \in 0..EDITOR_ROWS /\ a \in 1..(j + 1) /\ Len(s) + 1 \in Nat
  BY CableSizes DEF LoadState, LineAt
<1>2. Newlines(s, k) = n + 1
  BY NewlinesStep
<1>3. \A p \in Nat : p <= j => Newlines(s, p) <= n /\ Newlines(s, p) \in Nat
  BY NewlinesGrow
<1>4. ASSUME NEW p \in Nat, p >= k
      PROVE  Newlines(s, p) >= n + 1 /\ Newlines(s, p) \in Nat
  <2>1. Newlines(s, k) <= Newlines(s, p) /\ Newlines(s, p) \in Nat
    BY <1>4, NewlinesGrow
  <2> QED
    BY <1>2, <2>1
<1>5. LineAt(s, k, n + 1, k + 1)
  <2>1. k + 1 \in 1..(k + 1) /\ (k + 1)..k = {} /\ (k + 1) - 1 = k
    OBVIOUS
  <2>2. ASSUME NEW p \in 1..k
        PROVE  s[p] = Newline \/ Newlines(s, p) < n + 1
    <3>1. p = k \/ p <= j
      OBVIOUS
    <3> QED
      BY <1>3, <3>1
  <2> QED
    BY <2>1, <2>2 DEF LineAt
<1>6. Places(s, n) = a..j
  <2>1. ASSUME NEW p \in Places(s, n)
        PROVE  p \in a..j
    <3>1. p \in 1..Len(s) /\ s[p] # Newline /\ Newlines(s, p) = n /\ p \in Nat
      BY DEF Places
    <3>2. ~(p >= k)
      BY <1>4, <3>1
    <3>3. ~(p \in 1..(a - 1))
      BY <3>1 DEF LineAt
    <3> QED
      BY <1>1, <3>1, <3>2, <3>3
  <2>2. ASSUME NEW p \in a..j
        PROVE  p \in Places(s, n)
    <3>1. p \in 1..Len(s)
      BY <1>1
    <3>2. s[p] # Newline /\ Newlines(s, p) = n
      BY DEF LineAt
    <3> QED
      BY <3>1, <3>2 DEF Places
  <2> QED
    BY <2>1, <2>2
<1> DEFINE f == LoadByte(e, s[k])
<1>7. f.b = e.b /\ (n < EDITOR_ROWS => f.row = n + 1 /\ f.col = 0)
      /\ (~(n < EDITOR_ROWS) => f.row = EDITOR_ROWS)
  <2>1. CASE e.row >= EDITOR_ROWS
    <3>1. f = e
      BY <2>1 DEF LoadByte
    <3>2. ~(n < EDITOR_ROWS)
      BY <1>1, <2>1 DEF RowsAt
    <3> QED
      BY <1>1, <2>1, <3>1, <3>2
  <2>2. CASE ~(e.row >= EDITOR_ROWS)
    <3>1. f = [e EXCEPT !.row = e.row + 1, !.col = 0]
      BY <2>2 DEF LoadByte
    <3>2. n < EDITOR_ROWS /\ e.row = n
      BY <1>1, <2>2 DEF RowsAt
    <3>3. f.b = e.b /\ f.row = e.row + 1 /\ f.col = 0
      BY <3>1 DEF LoadState
    <3> QED
      BY <3>2, <3>3
  <2> QED
    BY <2>1, <2>2
<1> HIDE DEF f
<1>8. RowsAt(s, k, n + 1, f, k + 1)
  <2>1. Cut((k + 1) - (k + 1)) = 0
    BY <1>1 DEF Cut
  <2>2. IF n + 1 < EDITOR_ROWS THEN f.row = n + 1 /\ f.col = 0 ELSE f.row = EDITOR_ROWS
    BY <1>1, <1>7
  <2>3. ASSUME NEW y \in Rows, y < n + 1
        PROVE  LineDone(f.b, y, s)
    <3>1. y < n \/ y = n
      BY <2>3 DEF Rows
    <3>2. CASE y < n
      BY <1>7, <3>2 DEF RowsAt
    <3>3. CASE y = n
      <4>1. RowHas(f.b, y, s, a, Cut((j + 1) - a))
        BY <1>7, <3>3 DEF RowsAt
      <4>2. y \in Nat /\ a \in 1..(Len(s) + 1) /\ j \in 0..Len(s) /\ a <= j + 1
        BY <1>1, <3>3
      <4> QED
        BY <1>6, <3>3, <4>1, <4>2, LineHeld
    <3> QED
      BY <3>1, <3>2, <3>3
  <2>4. ASSUME NEW y \in Rows, y = n + 1
        PROVE  RowHas(f.b, y, s, k + 1, 0)
    <3>1. RowEmpty(f.b, y)
      <4>1. y > n
        BY <2>4
      <4> QED
        BY <1>7, <4>1 DEF RowsAt
    <3>2. \A x \in Columns : ~(x < 0)
      BY <1>1 DEF Columns
    <3> QED
      BY <3>1, <3>2 DEF RowHas, RowEmpty
  <2>5. ASSUME NEW y \in Rows, y > n + 1
        PROVE  RowEmpty(f.b, y)
    <3>1. y > n
      BY <2>5 DEF Rows
    <3> QED
      BY <1>7, <3>1 DEF RowsAt
  <2> QED
    BY <2>1, <2>2, <2>3, <2>4, <2>5 DEF RowsAt
<1> QED
  BY <1>5, <1>8 DEF f

\* Any other byte.
LEMMA LoadCharacter ==
  ASSUME NEW s \in Seq(Byte), NEW k \in Nat, NEW j \in Nat, k = j + 1, k <= Len(s),
         NEW n \in Nat, n = Newlines(s, j), NEW e \in LoadState, NEW a \in Nat,
         LineAt(s, j, n, a), RowsAt(s, j, n, e, a), s[k] # Newline
  PROVE  LineAt(s, k, n, a) /\ RowsAt(s, k, n, LoadByte(e, s[k]), a)
<1>1. /\ Len(s) \in Nat /\ EDITOR_ROWS \in Nat /\ EDITOR_COLS \in Nat /\ EDITOR_COLS >= 2
      /\ e.row \in 0..EDITOR_ROWS /\ a \in 1..(j + 1) /\ e.b \in Array /\ e.col \in Columns
  BY CableSizes DEF LoadState, LineAt
<1>2. Newlines(s, k) = n
  BY NewlinesStep
<1>3. LineAt(s, k, n, a)
  <2>1. a \in 1..(k + 1)
    BY <1>1
  <2>2. ASSUME NEW p \in a..k
        PROVE  s[p] # Newline /\ Newlines(s, p) = n
    <3>1. p = k \/ p \in a..j
      BY <1>1
    <3> QED
      BY <1>2, <3>1 DEF LineAt
  <2> QED
    BY <2>1, <2>2 DEF LineAt
<1> DEFINE f == LoadByte(e, s[k])
<1>4. PICK m \in Nat : m = (j + 1) - a /\ (k + 1) - a = m + 1 /\ a + m = k
  BY <1>1
<1>5. n < EDITOR_ROWS => e.row = n /\ e.col = Cut(m)
  BY <1>4 DEF RowsAt
<1>6. ~(n < EDITOR_ROWS) => e.row = EDITOR_ROWS
  BY DEF RowsAt
<1>7. CASE ~(n < EDITOR_ROWS)
  <2>1. f = e
    <3>1. e.row >= EDITOR_ROWS
      BY <1>1, <1>6, <1>7
    <3> QED
      BY <3>1 DEF LoadByte
  <2>2. \A y \in Rows : y < n
    BY <1>1, <1>7 DEF Rows
  <2>3. \A y \in Rows : ~(y = n) /\ ~(y > n)
    BY <1>1, <1>7 DEF Rows
  <2> QED
    BY <1>3, <1>6, <1>7, <2>1, <2>2, <2>3 DEF RowsAt
<1>8. CASE n < EDITOR_ROWS /\ ~(m < EDITOR_COLS - 1)
  <2>1. Cut(m) = EDITOR_COLS - 1 /\ Cut(m + 1) = EDITOR_COLS - 1
    BY <1>1, <1>4, <1>8 DEF Cut
  <2>2. f = e
    <3>1. e.row = n /\ e.col >= EDITOR_COLS - 1
      BY <1>1, <1>5, <1>8, <2>1
    <3>2. ~(e.row >= EDITOR_ROWS)
      BY <1>1, <1>8, <3>1
    <3> QED
      BY <3>1, <3>2 DEF LoadByte
  <2>3. \A y \in Rows : y = n => RowHas(e.b, y, s, a, Cut(m))
    BY <1>4 DEF RowsAt
  <2> QED
    BY <1>3, <1>4, <1>5, <1>8, <2>1, <2>2, <2>3 DEF RowsAt
<1>9. CASE n < EDITOR_ROWS /\ m < EDITOR_COLS - 1
  <2>1. Cut(m) = m /\ Cut(m + 1) = m + 1 /\ m \in Columns /\ n \in Rows
    <3>1. Cut(m) = m /\ m \in Columns
      BY <1>1, <1>9 DEF Cut, Columns
    <3>2. Cut(m + 1) = m + 1
      <4>1. m + 1 < EDITOR_COLS - 1 \/ m + 1 = EDITOR_COLS - 1
        BY <1>1, <1>9
      <4> QED
        BY <4>1 DEF Cut
    <3>3. n \in Rows
      BY <1>1, <1>9 DEF Rows
    <3> QED
      BY <3>1, <3>2, <3>3
  <2> DEFINE d == [e.b EXCEPT ![Row(n) + m] = s[k]]
  <2>2. f = [e EXCEPT !.b = d, !.col = e.col + 1]
    <3>1. e.row = n /\ e.col = m
      BY <1>5, <1>9, <2>1
    <3>2. ~(e.row >= EDITOR_ROWS) /\ ~(e.col >= EDITOR_COLS - 1)
      BY <1>1, <1>9, <3>1
    <3>3. LoadByte(e, s[k]) = [e EXCEPT !.b[Row(e.row) + e.col] = s[k], !.col = @ + 1]
      BY <3>2 DEF LoadByte
    <3> QED
      BY <3>1, <3>3
  <2>3. f.b = d /\ f.row = n /\ f.col = m + 1
    BY <1>5, <1>9, <2>1, <2>2 DEF LoadState
  <2>4. ASSUME NEW y \in Rows, NEW x \in Columns
        PROVE  d[Row(y) + x] = IF y = n /\ x = m THEN s[k] ELSE e.b[Row(y) + x]
    <3>1. Row(y) + x \in Cell /\ Row(n) + m \in Cell
      BY <2>1, RowFacts
    <3>2. Row(y) + x = Row(n) + m => y = n /\ x = m
      <4>1. Row(y) \in Nat /\ Row(n) \in Nat /\ y \in Nat
        BY <2>1, RowFacts DEF Rows
      <4>2. x \in Nat /\ x < EDITOR_COLS /\ m < EDITOR_COLS
        BY <1>1, <2>1 DEF Columns
      <4>3. /\ y < n => Row(y) + EDITOR_COLS <= Row(n)
            /\ n < y => Row(n) + EDITOR_COLS <= Row(y)
        BY <2>1, <4>1, RowFacts
      <4>4. y < n \/ y = n \/ n < y
        BY <4>1
      <4>5. ASSUME NEW u \in Nat, NEW v \in Nat, NEW w \in Nat, NEW c \in Nat,
                   c < w, m < w, u + w <= v
            PROVE  u + c # v + m /\ u + m # v + c
        BY <4>5
      <4>6. y # n => Row(y) + x # Row(n) + m
        BY <1>1, <4>1, <4>2, <4>3, <4>4, <4>5
      <4>7. y = n => (Row(y) + x = Row(n) + m => x = m)
        BY <4>1, <4>2
      <4> QED
        BY <4>6, <4>7
    <3> QED
      BY <1>1, <3>1, <3>2 DEF Array
  <2> HIDE DEF d, f
  <2>5. ASSUME NEW y \in Rows, y # n
        PROVE  \A x \in Columns : d[Row(y) + x] = e.b[Row(y) + x]
    BY <2>4, <2>5
  <2>6. ASSUME NEW y \in Rows, y < n
        PROVE  LineDone(d, y, s)
    <3>1. LineDone(e.b, y, s)
      BY <2>6 DEF RowsAt
    <3>2. y # n
      BY <2>6 DEF Rows
    <3> QED
      BY <2>5, <3>1, <3>2 DEF LineDone, Holds
  <2>7. ASSUME NEW y \in Rows, y = n
        PROVE  RowHas(d, y, s, a, m + 1)
    <3>1. RowHas(e.b, n, s, a, m)
      BY <1>4, <2>1 DEF RowsAt
    <3>2. ASSUME NEW x \in Columns
          PROVE  d[Row(n) + x] = IF x < m + 1 THEN s[a + x] ELSE Nul
      <4>1. x \in Nat
        BY <1>1 DEF Columns
      <4>2. d[Row(n) + x] = IF x = m THEN s[k] ELSE e.b[Row(n) + x]
        BY <2>1, <2>4
      <4>3. e.b[Row(n) + x] = IF x < m THEN s[a + x] ELSE Nul
        BY <3>1 DEF RowHas
      <4>4. x = m \/ (x < m /\ x < m + 1 /\ x # m) \/ (~(x < m + 1) /\ ~(x < m) /\ x # m)
        BY <1>4, <4>1
      <4>5. x = m => x < m + 1 /\ s[a + x] = s[k]
        BY <1>4
      <4> QED
        BY <4>2, <4>3, <4>4, <4>5
    <3> QED
      BY <2>7, <3>2 DEF RowHas
  <2>8. ASSUME NEW y \in Rows, y > n
        PROVE  RowEmpty(d, y)
    <3>1. RowEmpty(e.b, y)
      BY <2>8 DEF RowsAt
    <3>2. y # n
      BY <2>8 DEF Rows
    <3> QED
      BY <2>5, <3>1, <3>2 DEF RowEmpty
  <2>9. RowsAt(s, k, n, f, a)
    <3> QED
      BY <1>4, <1>9, <2>1, <2>3, <2>6, <2>7, <2>8 DEF RowsAt
  <2> QED
    BY <1>3, <2>9 DEF f
<1> QED
  BY <1>7, <1>8, <1>9

\* The rows a file is loaded into hold its lines.
LEMMA LoadedRows ==
  ASSUME NEW s \in Seq(Byte)
  PROVE  /\ Loaded(s) \in LoadState
         /\ \A y \in Rows : LineDone(Loaded(s).b, y, s)
<1>1. PICK f : Loads(f, s, Len(s)) /\ Loaded(s) = f[Len(s)]
  BY LoadedIs
<1>2. Len(s) \in Nat /\ EDITOR_ROWS \in Nat /\ EDITOR_COLS \in Nat /\ EDITOR_COLS >= 2
  BY CableSizes
<1> DEFINE Good(k) == \E a \in Nat : LineAt(s, k, Newlines(s, k), a)
                                      /\ RowsAt(s, k, Newlines(s, k), f[k], a)
<1>3. ASSUME NEW i \in 0..Len(s), ~Good(i)
      PROVE  FALSE
  <2> DEFINE S == {k \in 0..Len(s) : ~Good(k)}
  <2>1. S \in SUBSET Nat /\ S # {}
    BY <1>2, <1>3
  <2>2. PICK k \in S : \A i2 \in S : k <= i2
    <3> HIDE DEF S
    <3> QED
      BY <2>1, LeastNat
  <2>3. CASE k = 0
    <3>1. Newlines(s, 0) = 0 /\ f[0] = LoadStart
      BY <1>1, NewlinesStep DEF Loads
    <3>2. LineAt(s, 0, 0, 1)
      BY DEF LineAt
    <3>3. RowsAt(s, 0, 0, LoadStart, 1)
      <4>1. Cut((0 + 1) - 1) = 0 /\ 0 < EDITOR_ROWS
        BY CableSizes DEF Cut
      <4>2. \A y \in Rows : ~(y < 0)
        BY <1>2 DEF Rows
      <4>3. ASSUME NEW y \in Rows
            PROVE  RowEmpty(EmptyBuffer, y) /\ RowHas(EmptyBuffer, y, s, 1, 0)
        <5>1. ASSUME NEW x \in Columns
              PROVE  EmptyBuffer[Row(y) + x] = Nul /\ ~(x < 0)
          <6>1. Row(y) + x \in Cell
            BY RowFacts
          <6>2. ~(x < 0)
            BY <1>2 DEF Columns
          <6> QED
            BY <6>1, <6>2 DEF EmptyBuffer
        <5> QED
          BY <5>1 DEF RowEmpty, RowHas
      <4>4. LoadStart.b = EmptyBuffer /\ LoadStart.row = 0 /\ LoadStart.col = 0
        BY DEF LoadStart
      <4> QED
        BY <4>1, <4>2, <4>3, <4>4 DEF RowsAt
    <3>4. Good(0)
      BY <3>1, <3>2, <3>3
    <3> QED
      BY <2>3, <3>4
  <2>4. CASE k # 0
    <3>1. PICK j \in Nat : k = j + 1 /\ j \in 0..Len(s) /\ k \in 1..Len(s) /\ k \in Nat /\ k - 1 = j
      <4>1. k \in Nat /\ k <= Len(s)
        BY <1>2
      <4>2. k - 1 \in Nat /\ k = (k - 1) + 1 /\ k - 1 <= Len(s)
        BY <1>2, <2>4, <4>1
      <4> QED
        BY <1>2, <2>4, <4>1, <4>2
    <3>2. j \notin S
      BY <2>2, <3>1
    <3>3. PICK a \in Nat : /\ LineAt(s, j, Newlines(s, j), a)
                           /\ RowsAt(s, j, Newlines(s, j), f[j], a)
      BY <3>1, <3>2
    <3>4. f[k] = LoadByte(f[j], s[k]) /\ f[j] \in LoadState
      BY <1>1, <3>1 DEF Loads
    <3>5. PICK n \in Nat : n = Newlines(s, j)
      BY <3>1, NewlinesStep
    <3>6. k <= Len(s)
      BY <1>2, <3>1
    <3> HIDE DEF S
    <3>7. CASE s[k] = Newline
      <4>1. LineAt(s, k, n + 1, k + 1) /\ RowsAt(s, k, n + 1, LoadByte(f[j], s[k]), k + 1)
        BY <3>1, <3>3, <3>4, <3>5, <3>6, <3>7, LoadNewline
      <4>2. Newlines(s, k) = n + 1
        BY <3>1, <3>5, <3>7, NewlinesStep
      <4>4. k + 1 \in Nat
        BY <3>1
      <4>3. Good(k)
        BY <3>4, <4>1, <4>2, <4>4
      <4> QED
        BY <4>3 DEF S
    <3>8. CASE s[k] # Newline
      <4>1. LineAt(s, k, n, a) /\ RowsAt(s, k, n, LoadByte(f[j], s[k]), a)
        BY <3>1, <3>3, <3>4, <3>5, <3>6, <3>8, LoadCharacter
      <4>2. Newlines(s, k) = n
        BY <3>1, <3>5, <3>8, NewlinesStep
      <4>3. Good(k)
        BY <3>4, <4>1, <4>2
      <4> QED
        BY <4>3 DEF S
    <3> QED
      BY <3>7, <3>8
  <2> QED
    BY <2>3, <2>4
<1> DEFINE z == Len(s)
           e == f[z]
<1>4. PICK a \in Nat : LineAt(s, z, Newlines(s, z), a) /\ RowsAt(s, z, Newlines(s, z), e, a)
  <2>1. Len(s) \in 0..Len(s)
    BY <1>2
  <2>2. Good(Len(s))
    <3> HIDE DEF Good
    <3> QED
      BY <1>3, <2>1
  <2> QED
    BY <2>2
<1>5. PICK n \in Nat : n = Newlines(s, z)
  BY <1>2, NewlinesStep
<1>6. e \in LoadState /\ e = Loaded(s)
  BY <1>1, <1>2 DEF Loads
<1>7. \A p \in Nat : p <= z => Newlines(s, p) <= n /\ Newlines(s, p) \in Nat
  BY <1>2, <1>5, NewlinesGrow
<1> HIDE DEF e
<1>8. ASSUME NEW y \in Rows
      PROVE  LineDone(e.b, y, s)
  <2>1. y \in Nat
    BY <1>2 DEF Rows
  <2>2. CASE y < n
    BY <1>4, <1>5, <2>2 DEF RowsAt
  <2>3. CASE y = n
    <3>1. RowHas(e.b, y, s, a, Cut((z + 1) - a)) /\ a \in 1..(z + 1)
      BY <1>4, <1>5, <2>3 DEF RowsAt, LineAt
    <3>2. Places(s, y) = a..z
      <4>1. \A p \in Places(s, y) : p \in 1..z /\ ~(p \in 1..(a - 1)) /\ p \in Nat
        BY <1>4, <1>5, <2>3 DEF Places, LineAt
      <4>2. \A p \in a..z : p \in Places(s, y)
        BY <1>2, <1>4, <1>5, <2>3, <3>1 DEF Places, LineAt
      <4>3. \A p \in Places(s, y) : p \in a..z
        BY <1>2, <3>1, <4>1
      <4> QED
        BY <4>2, <4>3
    <3>3. z \in 0..Len(s) /\ a <= z + 1
      BY <1>2, <3>1
    <3> QED
      BY <2>1, <3>1, <3>2, <3>3, LineHeld
  <2>4. CASE y > n
    <3>1. RowEmpty(e.b, y)
      BY <1>4, <1>5, <2>4 DEF RowsAt
    <3>2. PICK c \in Nat : c = z + 1
      BY <1>2
    <3>3. Places(s, y) = c..z
      <4>1. \A p \in 1..z : Newlines(s, p) # y
        BY <1>2, <1>7, <2>1, <2>4
      <4>2. c..z = {}
        BY <1>2, <3>2
      <4> QED
        BY <4>1, <4>2 DEF Places
    <3>4. Cut((z + 1) - c) = 0 /\ c \in 1..(Len(s) + 1) /\ z \in 0..Len(s) /\ c <= z + 1
      BY <1>2, <3>2 DEF Cut
    <3>5. RowHas(e.b, y, s, c, Cut((z + 1) - c))
      <4>1. \A x \in Columns : ~(x < 0)
        BY <1>2 DEF Columns
      <4> QED
        BY <3>1, <3>4, <4>1 DEF RowHas, RowEmpty
    <3> QED
      BY <2>1, <3>3, <3>4, <3>5, LineHeld
  <2> QED
    BY <2>1, <2>2, <2>3, <2>4
<1> QED
  BY <1>6, <1>8

-----------------------------------------------------------------------------
(* Saving                                                                  *)

\* A row is read as a string of characters, even if it goes on in the next.
LEMMA StringOfChars ==
  ASSUME NEW b \in Array, NEW y \in Rows, IsString(b, Row(y))
  PROVE  CString(b, Row(y)) \in Seq(Char) /\ Len(CString(b, Row(y))) = strlen(b, Row(y))
<1> DEFINE n == strlen(b, Row(y))
           s == CString(b, Row(y))
<1>1. Row(y) \in Nat
  BY RowFacts
<1>2. /\ n \in Nat /\ Row(y) + n \in Cell
      /\ \A i \in Cell : Row(y) <= i /\ i < Row(y) + n => b[i] # Nul
  BY <1>1, StrlenResult
<1>3. s = [i \in 1..n |-> b[Row(y) + i - 1]]
  BY DEF CString
<1> HIDE DEF n, s
<1>4. ASSUME NEW i \in 1..n
      PROVE  b[Row(y) + i - 1] \in Char
  <2>1. PICK p \in Nat : p = Row(y) + i - 1
    BY <1>1, <1>2
  <2>2. Row(y) <= p /\ p < Row(y) + n
    BY <1>1, <1>2, <2>1
  <2>3. p \in Cell
    BY <1>1, <1>2, <2>2, CableSizes DEF Cell
  <2> QED
    BY <1>2, <2>1, <2>2, <2>3 DEF Array, Bytes0
<1>5. s \in Seq(Char) /\ Len(s) = n
  BY <1>2, <1>3, <1>4
<1> QED
  BY <1>5 DEF n, s

\* f is the first n sequences of q flattened, up to each of them.
Flattens(f, q, C, n) ==
  /\ f \in [1..n -> Seq(C)]
  /\ f[1] = q[1]
  /\ \A i \in 2..n : f[i] = f[i - 1] \o q[i]

\* FlattenSeq() is the last of them.
LEMMA FlattenSeqIs ==
  ASSUME NEW C, NEW q \in Seq(Seq(C)), Len(q) >= 1
  PROVE  \E f : Flattens(f, q, C, Len(q)) /\ FlattenSeq(q) = f[Len(q)]
<1> DEFINE N == Len(q)
           Rec(f) == [i \in 1..N |-> IF i = 1 THEN q[i] ELSE f[i - 1] \o q[i]]
           S == {n \in 1..N : ~\E f : Flattens(f, q, C, n)}
<1>1. N \in Nat /\ N >= 1
  OBVIOUS
<1>2. \A i \in 1..N : q[i] \in Seq(C)
  BY ElementOfSeq
<1> HIDE DEF N
<1>3. S = {}
  <2> SUFFICES ASSUME S # {}
               PROVE  FALSE
    OBVIOUS
  <2>1. PICK n \in S : \A m \in S : n <= m
    <3> S \in SUBSET Nat
      BY <1>1
    <3> HIDE DEF S
    <3> QED
      BY LeastNat
  <2>2. CASE n = 1
    <3> DEFINE g == [i \in 1..1 |-> q[1]]
    <3>1. g \in [1..1 -> Seq(C)] /\ g[1] = q[1] /\ 2..1 = {}
      BY <1>1, <1>2
    <3>2. Flattens(g, q, C, 1)
      BY <3>1 DEF Flattens
    <3> QED
      BY <2>2, <3>2
  <2>3. CASE n # 1
    <3>1. PICK m \in Nat : n = m + 1 /\ m \in 1..N /\ n \in 1..N /\ n - 1 = m /\ m >= 1
      BY <1>1, <2>3
    <3>2. m \notin S
      BY <2>1, <3>1
    <3>3. PICK f : Flattens(f, q, C, m)
      BY <3>1, <3>2
    <3> DEFINE g == [i \in 1..n |-> IF i = n THEN f[m] \o q[n] ELSE f[i]]
    <3>4. f \in [1..m -> Seq(C)] /\ f[m] \in Seq(C) /\ q[n] \in Seq(C)
      BY <1>2, <3>1, <3>3 DEF Flattens
    <3>5. f[m] \o q[n] \in Seq(C)
      BY <3>4, Joined
    <3>6. g \in [1..n -> Seq(C)]
      <4>1. \A i \in 1..n : i = n \/ i \in 1..m
        BY <3>1
      <4> QED
        BY <3>4, <3>5, <4>1
    <3>7. g[1] = q[1]
      BY <2>3, <3>1, <3>3 DEF Flattens
    <3>8. ASSUME NEW i \in 2..n
          PROVE  g[i] = g[i - 1] \o q[i]
      <4>1. i - 1 \in 1..n /\ i - 1 # n /\ i \in 1..n
        BY <3>1
      <4>2. g[i - 1] = f[i - 1]
        BY <4>1
      <4>3. CASE i = n
        <5>1. g[i] = f[m] \o q[n]
          BY <4>1, <4>3
        <5> HIDE DEF g
        <5> QED
          BY <3>1, <4>2, <4>3, <5>1
      <4>4. CASE i # n
        <5>1. i \in 2..m
          BY <3>1, <4>4
        <5>2. g[i] = f[i]
          BY <4>1, <4>4
        <5>3. f[i] = f[i - 1] \o q[i]
          BY <3>3, <5>1 DEF Flattens
        <5> HIDE DEF g
        <5> QED
          BY <4>2, <5>2, <5>3
      <4> QED
        BY <4>3, <4>4
    <3> HIDE DEF g
    <3>9. Flattens(g, q, C, n)
      BY <3>6, <3>7, <3>8 DEF Flattens
    <3> QED
      BY <3>9
  <2> QED
    BY <2>2, <2>3
<1>4. PICK f : Flattens(f, q, C, N)
  <2>1. N \in 1..N
    BY <1>1
  <2>2. N \notin S
    BY <1>3
  <2> QED
    BY <2>1, <2>2
<1>5. f = Rec(f)
  <2>1. f = [i \in 1..N |-> f[i]]
    BY <1>4 DEF Flattens
  <2>2. \A i \in 1..N : i = 1 \/ i \in 2..N
    BY <1>1
  <2> QED
    BY <1>4, <2>1, <2>2 DEF Flattens
<1> DEFINE g == CHOOSE h : h = Rec(h)
<1>6. FlattenSeq(q) = g[N]
  BY <1>1 DEF FlattenSeq, N
<1>7. g = Rec(g)
  <2> HIDE DEF Rec
  <2> QED
    BY <1>5
<1> HIDE DEF g
<1>8. g[1] = q[1]
  BY <1>1, <1>7
<1>9. ASSUME NEW i \in 2..N
      PROVE  g[i] = g[i - 1] \o q[i]
  <2>1. i \in 1..N /\ i # 1
    BY <1>1
  <2>2. Rec(g)[i] = g[i - 1] \o q[i]
    BY <2>1
  <2> HIDE DEF Rec
  <2> QED
    BY <1>7, <2>2
<1>10. g = [i \in 1..N |-> g[i]]
  BY <1>7
<1>11. ASSUME NEW k \in 1..N, g[k] \notin Seq(C)
       PROVE  FALSE
  <2> DEFINE T == {j \in 1..N : g[j] \notin Seq(C)}
  <2>1. T \in SUBSET Nat /\ T # {}
    BY <1>1, <1>11
  <2>2. PICK j \in T : \A i \in T : j <= i
    <3> HIDE DEF T
    <3> QED
      BY <2>1, LeastNat
  <2>3. j # 1
    BY <1>1, <1>2, <1>8
  <2>4. j - 1 \in 1..N /\ j - 1 \notin T /\ j \in 2..N /\ j \in 1..N
    BY <1>1, <2>2, <2>3
  <2>5. g[j - 1] \in Seq(C) /\ q[j] \in Seq(C)
    BY <1>2, <2>4
  <2>6. g[j - 1] \o q[j] \in Seq(C)
    BY <2>5, Joined
  <2> QED
    BY <1>9, <2>4, <2>6
<1>12. g \in [1..N -> Seq(C)]
  BY <1>10, <1>11
<1>13. Flattens(g, q, C, N)
  BY <1>8, <1>9, <1>12 DEF Flattens, N
<1> QED
  BY <1>6, <1>13 DEF N

\* What is saved is bytes.
LEMMA SavedBytes ==
  ASSUME NEW b \in Array, \A y \in Rows : IsString(b, Row(y))
  PROVE  Saved(b) \in Seq(Byte)
<1> DEFINE q == [i \in 1..EDITOR_ROWS |-> SavedRow(b, i - 1)]
<1>1. EDITOR_ROWS \in Nat /\ EDITOR_ROWS >= 1
  BY CableSizes
<1>2. ASSUME NEW y \in Rows
      PROVE  SavedRow(b, y) \in Seq(Byte)
  <2> DEFINE u == CString(b, Row(y))
  <2>1. u \in Seq(Byte)
    <3>1. u \in Seq(Char)
      BY StringOfChars
    <3> HIDE DEF u
    <3> QED
      BY <3>1, SeqMonotonic DEF Byte
  <2>2. <<Newline>> \in Seq(Byte) /\ <<>> \in Seq(Byte)
    BY DEF Byte
  <2>3. u \o <<Newline>> \in Seq(Byte) /\ u \o <<>> \in Seq(Byte)
    <3> HIDE DEF u
    <3> QED
      BY <2>1, <2>2, Joined
  <2> QED
    BY <2>2, <2>3 DEF SavedRow
<1>3. \A i \in 1..EDITOR_ROWS : SavedRow(b, i - 1) \in Seq(Byte)
  <2> SUFFICES ASSUME NEW i \in 1..EDITOR_ROWS
               PROVE  SavedRow(b, i - 1) \in Seq(Byte)
    OBVIOUS
  <2>1. PICK y \in Rows : y = i - 1
    BY <1>1 DEF Rows
  <2> QED
    BY <1>2, <2>1
<1>4. q \in Seq(Seq(Byte)) /\ Len(q) = EDITOR_ROWS
  BY <1>1, <1>3
<1>5. Saved(b) = FlattenSeq(q)
  BY DEF Saved
<1> HIDE DEF q
<1>6. PICK f : Flattens(f, q, Byte, Len(q)) /\ FlattenSeq(q) = f[Len(q)]
  BY <1>1, <1>4, FlattenSeqIs
<1>7. f[Len(q)] \in Seq(Byte)
  BY <1>1, <1>4, <1>6 DEF Flattens
<1> QED
  BY <1>5, <1>6, <1>7

-----------------------------------------------------------------------------
(* The program that a save assembles, and its interpreter                  *)

\* A uint32_t comes back from memory.
LEMMA EncodeDecode ==
  ASSUME NEW n \in Nat, n < 256 * 256 * 256 * 127
  PROVE  /\ Encode(n) \in Seq(Nat) /\ Len(Encode(n)) = 4
         /\ Encode(n)[1] + 256 * (Encode(n)[2] + 256 * (Encode(n)[3] + 256 * Encode(n)[4])) = n
<1> DEFINE Rest(m) == m \div 256
<1>1. ASSUME NEW m \in Nat
      PROVE  /\ Rest(m) \in Nat /\ m % 256 \in Nat /\ (m % 256) + 256 * Rest(m) = m
             /\ m < 256 => m % 256 = m
  OBVIOUS
<1>2. \A m, k \in Nat : m < 256 * k => Rest(m) < k
  OBVIOUS
<1> HIDE DEF Rest
<1>3. PICK n1 \in Nat : n1 = Rest(n)
  BY <1>1
<1>4. PICK n2 \in Nat : n2 = Rest(n1)
  BY <1>1
<1>5. PICK n3 \in Nat : n3 = Rest(n2)
  BY <1>1
<1>6. n3 < 256
  <2>1. n1 < 256 * 256 * 127
    BY <1>2, <1>3
  <2>2. n2 < 256 * 127
    BY <1>2, <1>4, <2>1
  <2>3. n3 < 127
    BY <1>2, <1>5, <2>2
  <2> QED
    BY <2>3
<1>7. Encode(n) = <<n % 256, n1 % 256, n2 % 256, n3 % 256>>
  BY <1>3, <1>4, <1>5 DEF Encode, Rest
<1>8. n % 256 \in Nat /\ n1 % 256 \in Nat /\ n2 % 256 \in Nat /\ n3 % 256 \in Nat
  BY <1>1
<1>9. /\ (n % 256) + 256 * n1 = n /\ (n1 % 256) + 256 * n2 = n1
      /\ (n2 % 256) + 256 * n3 = n2 /\ n3 % 256 = n3
  <2>1. (n % 256) + 256 * n1 = n
    BY <1>1, <1>3
  <2>2. (n1 % 256) + 256 * n2 = n1
    BY <1>1, <1>4
  <2>3. (n2 % 256) + 256 * n3 = n2
    BY <1>1, <1>5
  <2>4. n3 % 256 = n3
    BY <1>1, <1>6
  <2> QED
    BY <2>1, <2>2, <2>3, <2>4
<1>10. (n % 256) + 256 * ((n1 % 256) + 256 * ((n2 % 256) + 256 * (n3 % 256))) = n
  BY <1>9
<1> QED
  BY <1>7, <1>8, <1>10

\* v behind u, in w.
Laid(w, u, v, m, n) ==
  /\ w \in Seq(Nat) /\ Len(w) = m + n
  /\ \A i \in 1..m : w[i] = u[i]
  /\ \A i \in 1..n : w[m + i] = v[i]

\* One sequence behind another.
LEMMA Behind ==
  ASSUME NEW u \in Seq(Nat), NEW v \in Seq(Nat), NEW m \in Nat, Len(u) = m,
         NEW n \in Nat, Len(v) = n
  PROVE  Laid(u \o v, u, v, m, n)
<1> DEFINE w == u \o v
<1>1. /\ w \in Seq(Nat) /\ Len(w) = m + n
      /\ \A k \in 1..(m + n) : w[k] = IF k <= m THEN u[k] ELSE v[k - m]
  BY Joined
<1> HIDE DEF w
<1>2. ASSUME NEW i \in 1..m
      PROVE  w[i] = u[i]
  <2>1. i \in 1..(m + n) /\ i <= m
    OBVIOUS
  <2> QED
    BY <1>1, <2>1
<1>3. ASSUME NEW i \in 1..n
      PROVE  w[m + i] = v[i]
  <2>1. PICK k \in Nat : k = m + i
    OBVIOUS
  <2>2. k \in 1..(m + n) /\ ~(k <= m) /\ k - m = i
    BY <2>1
  <2> QED
    BY <1>1, <2>1, <2>2
<1> QED
  BY <1>1, <1>2, <1>3 DEF w, Laid

\* The bytes of a program that writes data to path.
IsProgram(code, path, data, w, n) ==
  /\ code \in Seq(Nat) /\ Len(code) = w + n + 7 /\ code[1] = OPCODE_SYSCALL_WRITE
  /\ \A i \in 1..w : code[i + 1] = path[i]
  /\ code[w + 2] = 0
  /\ \A i \in 1..4 : code[w + 2 + i] = Encode(n)[i]
  /\ \A i \in 1..n : code[w + 6 + i] = data[i]
  /\ code[w + 7 + n] = OPCODE_EXIT

\* WriteProgram(), byte by byte.
LEMMA ProgramBytes ==
  ASSUME NEW path \in Seq(Char), NEW data \in Seq(Byte), Len(data) < 256 * 256 * 256 * 127,
         NEW code, code = WriteProgram(path, data), NEW w \in Nat, w = Len(path),
         NEW n \in Nat, n = Len(data)
  PROVE  IsProgram(code, path, data, w, n)
<1> DEFINE e == Encode(n)
           c1 == <<OPCODE_SYSCALL_WRITE>> \o path
           c2 == c1 \o <<0>>
           c3 == c2 \o e
           c4 == c3 \o data
           c5 == c4 \o <<OPCODE_EXIT>>
<1>1. code = c5
  BY DEF WriteProgram
<1>2. path \in Seq(Nat) /\ data \in Seq(Nat)
  BY NotNul, SeqMonotonic DEF Byte
<1>3. e \in Seq(Nat) /\ Len(e) = 4
  BY EncodeDecode
<1>4. \A o \in Nat : <<o>> \in Seq(Nat) /\ Len(<<o>>) = 1 /\ <<o>>[1] = o
  OBVIOUS
<1>5. OPCODE_SYSCALL_WRITE \in Nat /\ OPCODE_EXIT \in Nat
  BY DEF OPCODE_SYSCALL_WRITE, OPCODE_EXIT
<1> HIDE DEF e
<1>6. PICK w1 \in Nat : w1 = 1 + w
  OBVIOUS
<1>7. PICK w2 \in Nat : w2 = w1 + 1
  OBVIOUS
<1>8. PICK w6 \in Nat : w6 = w2 + 4
  OBVIOUS
<1>9. PICK wn \in Nat : wn = w6 + n
  OBVIOUS
<1>10. w2 = w + 2 /\ w6 = w + 6 /\ wn + 1 = w + 7 + n /\ wn + 1 = w + n + 7
  BY <1>6, <1>7, <1>8, <1>9
<1>11. /\ c1 \in Seq(Nat) /\ Len(c1) = w1
       /\ \A i \in 1..1 : c1[i] = <<OPCODE_SYSCALL_WRITE>>[i]
       /\ \A i \in 1..w : c1[1 + i] = path[i]
  <2>1. Laid(c1, <<OPCODE_SYSCALL_WRITE>>, path, 1, w)
    BY <1>2, <1>4, <1>5, Behind
  <2> HIDE DEF c1
  <2> QED
    BY <1>6, <2>1 DEF Laid
<1> HIDE DEF c1
<1>12. /\ c2 \in Seq(Nat) /\ Len(c2) = w2
       /\ \A i \in 1..w1 : c2[i] = c1[i]
       /\ \A i \in 1..1 : c2[w1 + i] = <<0>>[i]
  <2>1. Laid(c2, c1, <<0>>, w1, 1)
    BY <1>4, <1>11, Behind
  <2> HIDE DEF c2
  <2> QED
    BY <1>7, <2>1 DEF Laid
<1> HIDE DEF c2
<1>13. /\ c3 \in Seq(Nat) /\ Len(c3) = w6
       /\ \A i \in 1..w2 : c3[i] = c2[i]
       /\ \A i \in 1..4 : c3[w2 + i] = e[i]
  <2>1. Laid(c3, c2, e, w2, 4)
    BY <1>3, <1>12, Behind
  <2> HIDE DEF c3
  <2> QED
    BY <1>8, <2>1 DEF Laid
<1> HIDE DEF c3
<1>14. /\ c4 \in Seq(Nat) /\ Len(c4) = wn
       /\ \A i \in 1..w6 : c4[i] = c3[i]
       /\ \A i \in 1..n : c4[w6 + i] = data[i]
  <2>1. Laid(c4, c3, data, w6, n)
    BY <1>2, <1>13, Behind
  <2> HIDE DEF c4
  <2> QED
    BY <1>9, <2>1 DEF Laid
<1> HIDE DEF c4
<1>15. /\ c5 \in Seq(Nat) /\ Len(c5) = wn + 1
       /\ \A i \in 1..wn : c5[i] = c4[i]
       /\ \A i \in 1..1 : c5[wn + i] = <<OPCODE_EXIT>>[i]
  <2>1. Laid(c5, c4, <<OPCODE_EXIT>>, wn, 1)
    BY <1>4, <1>5, <1>14, Behind
  <2> HIDE DEF c5
  <2> QED
    BY <2>1 DEF Laid
<1> HIDE DEF c5
<1>16. ASSUME NEW i \in 1..w
       PROVE  c5[i + 1] = path[i]
  <2>1. PICK k \in Nat : k = 1 + i
    OBVIOUS
  <2>2. k \in 1..w1 /\ k \in 1..w2 /\ k \in 1..w6 /\ k \in 1..wn /\ i + 1 = k
    BY <1>6, <1>7, <1>8, <1>9, <2>1
  <2>3. c1[k] = path[i]
    BY <1>11, <2>1
  <2> QED
    BY <1>12, <1>13, <1>14, <1>15, <2>2, <2>3
<1>17. c5[1] = OPCODE_SYSCALL_WRITE
  <2>1. 1 \in 1..1 /\ 1 \in 1..w1 /\ 1 \in 1..w2 /\ 1 \in 1..w6 /\ 1 \in 1..wn
    BY <1>6, <1>7, <1>8, <1>9
  <2>2. c1[1] = OPCODE_SYSCALL_WRITE
    BY <1>4, <1>5, <1>11, <2>1
  <2>3. c2[1] = c1[1] /\ c3[1] = c2[1]
    BY <1>12, <1>13, <2>1
  <2>4. c4[1] = c3[1] /\ c5[1] = c4[1]
    BY <1>14, <1>15, <2>1
  <2> QED
    BY <2>2, <2>3, <2>4
<1>18. c5[w + 2] = 0
  <2>1. w2 \in 1..w2 /\ w2 \in 1..w6 /\ w2 \in 1..wn /\ 1 \in 1..1
    BY <1>6, <1>7, <1>8, <1>9
  <2>2. c2[w2] = 0
    BY <1>4, <1>7, <1>12, <2>1
  <2> QED
    BY <1>10, <1>13, <1>14, <1>15, <2>1, <2>2
<1>19. ASSUME NEW i \in 1..4
       PROVE  c5[w + 2 + i] = e[i]
  <2>1. PICK k \in Nat : k = w2 + i
    OBVIOUS
  <2>2. k \in 1..w6 /\ k \in 1..wn /\ w + 2 + i = k
    BY <1>8, <1>9, <1>10, <2>1
  <2>3. c3[k] = e[i]
    BY <1>13, <2>1
  <2> QED
    BY <1>14, <1>15, <2>2, <2>3
<1>20. ASSUME NEW i \in 1..n
       PROVE  c5[w + 6 + i] = data[i]
  <2>1. PICK k \in Nat : k = w6 + i
    OBVIOUS
  <2>2. k \in 1..wn /\ w + 6 + i = k
    BY <1>9, <1>10, <2>1
  <2>3. c4[k] = data[i]
    BY <1>14, <2>1
  <2> QED
    BY <1>15, <2>2, <2>3
<1>21. c5[w + 7 + n] = OPCODE_EXIT /\ Len(c5) = w + n + 7
  <2>1. 1 \in 1..1 /\ wn + 1 = w + 7 + n
    BY <1>10
  <2>2. c5[wn + 1] = OPCODE_EXIT
    BY <1>4, <1>5, <1>15, <2>1
  <2> QED
    BY <1>10, <1>15, <2>2
<1>22. c5 \in Seq(Nat)
  BY <1>15
<1> QED
  BY <1>1, <1>16, <1>17, <1>18, <1>19, <1>20, <1>21, <1>22 DEF e, IsProgram

\* The interpreter makes of the program the one call it was assembled for,
\* and comes to its end.
LEMMA ProgramRuns ==
  ASSUME NEW path \in Seq(Char), NEW data \in Seq(Byte), Len(data) < 256 * 256 * 256 * 127
  PROVE  interpret_bdx(WriteProgram(path, data)) =
           [calls |-> << [name |-> "bdfs_write_file", path |-> path, data |-> data] >>,
            end |-> "returned"]
<1>1. PICK w \in Nat : w = Len(path)
  OBVIOUS
<1>2. PICK n \in Nat : n = Len(data)
  OBVIOUS
<1>3. PICK code : code = WriteProgram(path, data)
  OBVIOUS
<1>4. /\ code \in Seq(Nat) /\ Len(code) = w + n + 7 /\ code[1] = OPCODE_SYSCALL_WRITE
      /\ \A i \in 1..w : code[i + 1] = path[i]
      /\ code[w + 2] = 0
      /\ \A i \in 1..4 : code[w + 2 + i] = Encode(n)[i]
      /\ \A i \in 1..n : code[w + 6 + i] = data[i]
      /\ code[w + 7 + n] = OPCODE_EXIT
  <2>1. IsProgram(code, path, data, w, n)
    BY <1>1, <1>2, <1>3, ProgramBytes
  <2> QED
    BY <2>1 DEF IsProgram
<1>5. PICK z \in Nat : z = w + 1
  OBVIOUS
<1>6. z \in Ends(code, 1) /\ \A i \in Ends(code, 1) : z <= i
  <2>1. z \in Ends(code, 1)
    <3>1. z \in 1..(Len(code) - 1) /\ z + 1 = w + 2
      BY <1>4, <1>5
    <3> QED
      BY <1>4, <3>1 DEF Ends
  <2>2. ASSUME NEW i \in Ends(code, 1), ~(z <= i)
        PROVE  FALSE
    <3>1. i \in 1..(Len(code) - 1) /\ code[i + 1] = 0
      BY DEF Ends
    <3>2. i \in 1..w
      BY <1>4, <1>5, <2>2, <3>1
    <3>3. code[i + 1] = path[i] /\ path[i] \in Char
      BY <1>1, <1>4, <3>2, ElementOfSeq
    <3> QED
      BY <3>1, <3>3, NotNul DEF Byte, Nul
  <2> QED
    BY <2>1, <2>2
<1>7. /\ StringAt(code, 1) = SubSeq(code, 1 + 1, z) /\ BehindString(code, 1) = z + 1
      /\ z < Len(code)
  <2>1. PICK p \in Nat : p = 1
    OBVIOUS
  <2>2. z \in Ends(code, p) /\ \A i \in Ends(code, p) : z <= i
    BY <1>6, <2>1
  <2>3. /\ StringAt(code, p) = SubSeq(code, p + 1, z) /\ BehindString(code, p) = z + 1
        /\ z < Len(code)
    <3>1. code \in Seq(Nat)
      BY <1>4
    <3> QED
      BY <2>2, <3>1, StringEnds
  <2> QED
    BY <2>1, <2>3
<1>8. SubSeq(code, 1 + 1, z) = path
  <2>1. SubSeq(code, 1 + 1, z) = [i \in 1..w |-> code[i + 1]]
    <3>1. Len(code) \in Nat /\ z <= Len(code)
      BY <1>4, <1>7
    <3>2. (z - 2) + 1 = w /\ \A i \in 1..w : (2 + i) - 1 = i + 1
      BY <1>5
    <3>3. SubSeq(code, 2, z) = [i \in 1..((z - 2) + 1) |-> code[(2 + i) - 1]]
      BY <1>4, <1>5, <3>1
    <3> QED
      BY <3>2, <3>3
  <2>2. path = [i \in 1..w |-> path[i]]
    BY <1>1
  <2> QED
    BY <1>4, <2>1, <2>2
<1>9. DataAt(code, 1) = w + 6
  BY <1>5, <1>7 DEF DataAt, SizeofUint
<1>10. DataLength(code, 1) = n
  <2>1. DataLength(code, 1) = Decode(code, w + 2)
    BY <1>5, <1>7 DEF DataLength
  <2>2. /\ code[w + 2 + 1] = Encode(n)[1] /\ code[w + 2 + 2] = Encode(n)[2]
        /\ code[w + 2 + 3] = Encode(n)[3] /\ code[w + 2 + 4] = Encode(n)[4]
    BY <1>4
  <2>3. Decode(code, w + 2) = Encode(n)[1] + 256 * (Encode(n)[2]
                                 + 256 * (Encode(n)[3] + 256 * Encode(n)[4]))
    BY <2>2 DEF Decode
  <2>4. Encode(n)[1] + 256 * (Encode(n)[2] + 256 * (Encode(n)[3] + 256 * Encode(n)[4])) = n
    BY <1>2, EncodeDecode
  <2> QED
    BY <2>1, <2>3, <2>4
<1>11. DataEnd(code, 1) = (w + 6) + n
  BY <1>9, <1>10 DEF DataEnd
<1>12. Complete(code, 1)
  <2>1. w + 6 <= Len(code) /\ (w + 6) + n <= Len(code)
    BY <1>4
  <2> QED
    BY <1>6, <1>9, <1>10, <2>1 DEF Complete
<1>13. SubSeq(code, (w + 6) + 1, (w + 6) + n) = data
  <2>1. PICK a \in Nat : a = (w + 6) + 1
    OBVIOUS
  <2>2. PICK e \in Nat : e = (w + 6) + n
    OBVIOUS
  <2>3. (e - a) + 1 = n /\ e <= Len(code) /\ Len(code) \in Nat
        /\ \A i \in 1..n : (a + i) - 1 = w + 6 + i
    BY <1>4, <2>1, <2>2
  <2>4. SubSeq(code, a, e) = [i \in 1..((e - a) + 1) |-> code[(a + i) - 1]]
    BY <1>4, <2>1, <2>3
  <2>5. SubSeq(code, a, e) = [i \in 1..n |-> code[w + 6 + i]]
    BY <2>3, <2>4
  <2>6. data = [i \in 1..n |-> data[i]]
    BY <1>2
  <2> QED
    BY <1>4, <2>1, <2>2, <2>5, <2>6
<1>14. PICK f : RunsFrom(f, code, 0) /\ interpret_bdx(code) = f[0]
  BY <1>4, InterpretIs
<1> DEFINE call == [name |-> "bdfs_write_file", path |-> path, data |-> data]
<1>15. f[(w + 6) + n] = [calls |-> <<>>, end |-> "returned"]
  <2>1. PICK e \in Nat : e = (w + 6) + n
    OBVIOUS
  <2>2. e \in 0..Len(code) /\ e < Len(code) /\ e + 1 = w + 7 + n
    BY <1>4, <2>1
  <2>3. f[e] = Instruction(f, code, e)
    BY <1>14, <2>2 DEF RunsFrom
  <2>4. Opcode(code, e) = OPCODE_EXIT
    BY <1>4, <2>2 DEF Opcode
  <2>5. /\ OPCODE_EXIT # OPCODE_SYSCALL_PRINT /\ OPCODE_EXIT # OPCODE_SYSCALL_WRITE
        /\ OPCODE_EXIT # -1
    BY DEF OPCODE_EXIT, OPCODE_SYSCALL_WRITE, OPCODE_SYSCALL_PRINT
  <2>6. Instruction(f, code, e) = [calls |-> <<>>, end |-> "returned"]
    BY <2>4, <2>5 DEF Instruction
  <2> QED
    BY <2>1, <2>3, <2>6
<1>16. f[0] = Then(call, f[(w + 6) + n])
  <2>1. 0 \in 0..Len(code) /\ 0 < Len(code)
    BY <1>4
  <2>2. f[0] = Instruction(f, code, 0)
    BY <1>14, <2>1 DEF RunsFrom
  <2>3. Opcode(code, 0) = OPCODE_SYSCALL_WRITE
    BY <1>4, <2>1 DEF Opcode
  <2>5. Instruction(f, code, 0) = Then(WriteCall(code, 1), f[DataEnd(code, 1)])
    <3>1. Complete(code, 0 + 1)
      BY <1>12
    <3>2. Instruction(f, code, 0) = Then(WriteCall(code, 0 + 1), f[DataEnd(code, 0 + 1)])
      BY <2>3, <3>1, WriteInstruction
    <3>3. 0 + 1 = 1
      OBVIOUS
    <3> QED
      BY <3>2, <3>3
  <2>6. WriteCall(code, 1) = call
    BY <1>7, <1>8, <1>9, <1>11, <1>13 DEF WriteCall
  <2> QED
    BY <1>11, <2>2, <2>5, <2>6
<1>17. Then(call, [calls |-> <<>>, end |-> "returned"])
         = [calls |-> <<call>>, end |-> "returned"]
  <2>1. <<call>> \o <<>> = <<call>>
    <3> DEFINE u == <<call>>
    <3>1. u \in Seq({call})
      OBVIOUS
    <3> HIDE DEF u
    <3>2. u \o <<>> = u
      BY <3>1, ConcatEmptySeq
    <3> QED
      BY <3>2 DEF u
  <2> HIDE DEF call
  <2> QED
    BY <2>1 DEF Then
<1> QED
  BY <1>3, <1>14, <1>15, <1>16, <1>17

\* So a save that fits is a write of the saved bytes to the file.
LEMMA SaveWrites ==
  ASSUME NEW data \in Seq(Byte), Len(WriteProgram(FileName, data)) <= CodeSize,
         syscall_write(data)
  PROVE  bdfs_write_file(data)
<1>1. Len(data) < 256 * 256 * 256 * 127
  <2> DEFINE e == Encode(Len(data))
             c1 == <<OPCODE_SYSCALL_WRITE>> \o FileName
             c2 == c1 \o <<0>>
             c3 == c2 \o e
             c4 == c3 \o data
             c5 == c4 \o <<OPCODE_EXIT>>
  <2>1. FileName \in Seq(Nat) /\ data \in Seq(Nat)
    BY CableTexts, NotNul, SeqMonotonic DEF Byte
  <2>2. e \in Seq(Nat)
    <3>1. \A m \in Nat : m \div 256 \in Nat /\ m % 256 \in Nat
      OBVIOUS
    <3>2. PICK n \in Nat : n = Len(data)
      OBVIOUS
    <3>3. Encode(n) \in Seq(Nat)
      BY <3>1 DEF Encode
    <3> QED
      BY <3>2, <3>3
  <2>3. /\ <<OPCODE_SYSCALL_WRITE>> \in Seq(Nat) /\ <<0>> \in Seq(Nat)
        /\ <<OPCODE_EXIT>> \in Seq(Nat)
    BY DEF OPCODE_SYSCALL_WRITE, OPCODE_EXIT
  <2> HIDE DEF e
  <2>4. c1 \in Seq(Nat)
    BY <2>1, <2>3, Joined
  <2> HIDE DEF c1
  <2>5. c2 \in Seq(Nat)
    BY <2>3, <2>4, Joined
  <2> HIDE DEF c2
  <2>6. c3 \in Seq(Nat)
    BY <2>2, <2>5, Joined
  <2> HIDE DEF c3
  <2>7. c4 \in Seq(Nat) /\ Len(c4) = Len(c3) + Len(data)
    BY <2>1, <2>6, Joined
  <2> HIDE DEF c4
  <2>8. Len(c5) = Len(c4) + Len(<<OPCODE_EXIT>>)
    BY <2>3, <2>7, Joined
  <2>9. Len(c3) \in Nat /\ Len(<<OPCODE_EXIT>>) \in Nat /\ Len(data) \in Nat
    BY <2>3, <2>6
  <2>10. WriteProgram(FileName, data) = c5
    BY DEF WriteProgram, e, c1, c2, c3, c4
  <2> HIDE DEF c5
  <2>11. Len(data) <= CodeSize
    BY <2>7, <2>8, <2>9, <2>10, CableSizes
  <2> QED
    BY <2>9, <2>11, CableSizes
<1> DEFINE call == [name |-> "bdfs_write_file", path |-> FileName, data |-> data]
           calls == interpret_bdx(WriteProgram(FileName, data)).calls
           writes == {k \in 1..Len(calls) : calls[k].path = FileName}
<1>2. calls = <<call>>
  BY <1>1, CableTexts, ProgramRuns
<1>3. syscall_write(data) =
        IF writes = {} THEN UNCHANGED file ELSE bdfs_write_file(calls[Max(writes)].data)
  BY DEF syscall_write
<1> HIDE DEF calls
<1>4. writes = {1}
  <2>1. Len(<<call>>) = 1 /\ <<call>>[1].path = FileName
    OBVIOUS
  <2> HIDE DEF call
  <2>2. 1..1 = {1}
    OBVIOUS
  <2> QED
    BY <1>2, <2>1, <2>2
<1>5. Max({1}) = 1
  BY DEF Max
<1>6. calls[1].data = data
  BY <1>2
<1> HIDE DEF writes
<1>7. writes # {}
  BY <1>4
<1>8. bdfs_write_file(calls[Max(writes)].data)
  BY <1>3, <1>7
<1> QED
  BY <1>4, <1>5, <1>6, <1>8

-----------------------------------------------------------------------------
(* The invariant                                                           *)

\* The invariant in the terms of the lemmas, before and after a step.
TextHeld(m, t, b) ==
  m = "edit" /\ t # NothingExpected =>
    /\ t \in Seq(Seq(Char)) /\ Len(t) = EDITOR_ROWS
    /\ \A y \in Rows : Holds(b, y, t[y + 1])

\* CableInv gives these terms, and they give CableInv after a step.
LEMMA InvMeans ==
  /\ CableInv => /\ buffer \in Array /\ Padded(buffer) /\ TextHeld(mode, text, buffer)
                 /\ cx \in Nat /\ cy \in Nat
  /\ CableTypeOK' /\ buffer' \in Array /\ Padded(buffer') /\ TextHeld(mode', text', buffer')
       => CableInv'
<1>1. Padded(buffer) <=> RowsAreZeroPadded
  BY PaddedMeans DEF ZeroPadded, RowsAreZeroPadded
<1>2. Padded(buffer') <=> RowsAreZeroPadded'
  BY PaddedMeans DEF ZeroPadded, RowsAreZeroPadded
<1>3. CableInv => buffer \in Array /\ TextHeld(mode, text, buffer) /\ cx \in Nat /\ cy \in Nat
  BY DEF CableInv, CableTypeOK, RowsHoldText, TextHeld, Array, Bytes0
<1>4. TextHeld(mode', text', buffer') => RowsHoldText'
  BY DEF RowsHoldText, TextHeld
<1> QED
  BY <1>1, <1>2, <1>3, <1>4 DEF CableInv

\* The editor starts with an empty array.
LEMMA InitInv == CableInit => CableInv
<1> SUFFICES ASSUME CableInit PROVE CableInv
  OBVIOUS
<1>1. CableTypeOK
  <2>1. EmptyBuffer \in [Cell -> Char \cup {Nul}]
    BY DEF EmptyBuffer
  <2>2. <<>> \in Seq(Byte)
    OBVIOUS
  <2>3. 0 \in Nat
    OBVIOUS
  <2> HIDE DEF EmptyBuffer
  <2> QED
    BY <2>1, <2>2, <2>3 DEF CableInit, CableTypeOK
<1>2. RowsAreZeroPadded
  <2>1. Padded(buffer)
    <3>1. \A y \in Rows, x \in Columns : buffer[Row(y) + x] = Nul
      BY RowFacts DEF CableInit, EmptyBuffer
    <3> QED
      BY <3>1 DEF Padded
  <2> QED
    BY <2>1, PaddedMeans DEF ZeroPadded, RowsAreZeroPadded
<1>3. RowsHoldText
  BY DEF CableInit, RowsHoldText
<1> QED
  BY <1>1, <1>2, <1>3 DEF CableInv

\* Steps that leave the array alone, and what is expected of it.
LEMMA KeepInv ==
  ASSUME CableInv, CableTypeOK', buffer' = buffer, mode' = "edit" => mode = "edit" /\ text' = text
  PROVE  CableInv'
<1>1. buffer \in Array /\ Padded(buffer) /\ TextHeld(mode, text, buffer)
  BY InvMeans
<1>2. TextHeld(mode', text', buffer')
  BY <1>1 DEF TextHeld
<1> QED
  BY <1>1, <1>2, InvMeans

\* Opening a file.
LEMMA OpenInv ==
  ASSUME CableInv, editor_init
  PROVE  CableInv'
<1> DEFINE s == IF exists THEN file ELSE <<>>
           e == Loaded(s)
<1>1. s \in Seq(Byte)
  <2>1. file \in Seq(Byte) /\ <<>> \in Seq(Byte)
    BY DEF CableInv, CableTypeOK
  <2> QED
    BY <2>1
<1>2. buffer' = e.b /\ cx' = e.col /\ cy' = e.row /\ text' = Lines(s)
  BY DEF editor_init
<1>3. mode' = "edit" /\ dirty' = FALSE /\ UNCHANGED <<exists, file, typed>>
  BY DEF editor_init
<1> HIDE DEF s
<1>4. e \in LoadState /\ \A y \in Rows : LineDone(e.b, y, s)
  BY <1>1, LoadedRows
<1> HIDE DEF e
<1>5. e.b \in Array /\ e.col \in Nat /\ e.row \in Nat
  BY <1>4, CableSizes DEF LoadState, Columns
<1>6. Padded(e.b)
  <2> SUFFICES ASSUME NEW y \in Rows, NEW x \in Columns, NEW z \in Columns, x < z,
                      e.b[Row(y) + x] = Nul
               PROVE  e.b[Row(y) + z] = Nul
    BY DEF Padded
  <2>1. Line(s, y + 1) \in Seq(Char) /\ Holds(e.b, y, Line(s, y + 1))
    BY <1>4 DEF LineDone
  <2> QED
    BY <2>1, HoldsPadded
<1>7. TextHeld("edit", Lines(s), e.b)
  <2> DEFINE t == Lines(s)
  <2>1. EDITOR_ROWS \in Nat /\ t = [k \in 1..EDITOR_ROWS |-> Line(s, k)]
    BY CableSizes DEF Lines
  <2>2. ASSUME NEW k \in 1..EDITOR_ROWS
        PROVE  Line(s, k) \in Seq(Char)
    <3>1. PICK y \in Rows : k = y + 1
      <4>1. k - 1 \in Rows /\ k = (k - 1) + 1
        BY <2>1 DEF Rows
      <4> QED
        BY <4>1
    <3> QED
      BY <1>4, <3>1 DEF LineDone
  <2>3. t \in Seq(Seq(Char)) /\ Len(t) = EDITOR_ROWS
    BY <2>1, <2>2
  <2> HIDE DEF t
  <2>4. ASSUME NEW y \in Rows
        PROVE  Holds(e.b, y, t[y + 1])
    <3>1. y + 1 \in 1..EDITOR_ROWS
      BY <2>1 DEF Rows
    <3>2. t[y + 1] = Line(s, y + 1)
      BY <2>1, <3>1
    <3> QED
      BY <1>4, <3>2 DEF LineDone
  <2> QED
    BY <2>3, <2>4 DEF TextHeld, t
<1>8. CableTypeOK'
  BY <1>2, <1>3, <1>5 DEF CableInv, CableTypeOK, Array, Bytes0
<1> QED
  BY <1>2, <1>3, <1>5, <1>6, <1>7, <1>8, InvMeans

\* A row that is reached is one of the editor's.
LEMMA ReachedRow ==
  ASSUME CableInv, NEW x \in Int, NEW y \in Nat, Reaches(x, y)
  PROVE  y \in Rows /\ IsString(buffer, Row(y)) /\ strlen(buffer, Row(y)) \in Nat
         /\ x <= strlen(buffer, Row(y))
<1>1. y \in Rows
  BY CableSizes DEF Reaches, Rows
<1>2. Row(y) \in Nat
  BY <1>1, RowFacts
<1>3. strlen(buffer, Row(y)) \in Nat
  BY <1>2, StrlenResult DEF Reaches
<1> QED
  BY <1>1, <1>3 DEF Reaches

\* A step out of the model.
LEMMA AstrayInv ==
  ASSUME CableInv, GoAstray, file' \in Seq(Byte), typed' \in Nat, UNCHANGED exists
  PROVE  CableInv'
<1>1. CableTypeOK'
  BY DEF CableInv, CableTypeOK, GoAstray
<1> QED
  BY <1>1, KeepInv DEF GoAstray

\* Typing a character.
LEMMA TypeInv ==
  ASSUME CableInv, NEW c \in Char, Type(c)
  PROVE  CableInv'
<1>1. /\ buffer \in Array /\ Padded(buffer) /\ TextHeld(mode, text, buffer)
      /\ cx \in Nat /\ cy \in Nat
  BY InvMeans
<1>2. mode = "edit" /\ typed' \in Nat /\ UNCHANGED <<exists, file>> /\ file' \in Seq(Byte)
  BY DEF Type, CableInv, CableTypeOK
<1>3. CASE cx >= EDITOR_COLS - 1 /\ UNCHANGED <<mode, cx, cy, buffer, dirty, text>>
  <2>1. CableTypeOK'
    BY <1>2, <1>3 DEF CableInv, CableTypeOK
  <2> QED
    BY <1>3, <2>1, KeepInv
<1>4. CASE cx < EDITOR_COLS - 1 /\ ~Reaches(cx, cy) /\ GoAstray
  BY <1>2, <1>4, AstrayInv
<1>5. CASE /\ cx < EDITOR_COLS - 1 /\ Reaches(cx, cy)
           /\ buffer' = [memmove(buffer, Row(cy) + cx + 1, Row(cy) + cx,
                                 strlen(buffer, Row(cy)) - cx) EXCEPT ![Row(cy) + cx] = c]
           /\ cx' = cx + 1
           /\ dirty' = TRUE
           /\ text' = ExpectInsert(c)
           /\ UNCHANGED <<mode, cy>>
  <2>1. PICK x \in Nat : x = cx
    BY <1>1
  <2>2. PICK y \in Nat : y = cy
    BY <1>1
  <2>3. y \in Rows /\ IsString(buffer, Row(y)) /\ x <= strlen(buffer, Row(y))
    BY <1>5, <2>1, <2>2, ReachedRow
  <2>4. PICK d : d = buffer'
    OBVIOUS
  <2>5. d = [memmove(buffer, Row(y) + x + 1, Row(y) + x, strlen(buffer, Row(y)) - x)
               EXCEPT ![Row(y) + x] = c]
    BY <1>5, <2>1, <2>2, <2>4
  <2>6. x < EDITOR_COLS - 1
    BY <1>5, <2>1
  <2>7. /\ d \in Array /\ Padded(d)
        /\ \A s \in Seq(Char) : Holds(buffer, y, s) /\ Len(s) < EDITOR_COLS - 1 =>
             /\ Holds(d, y, InsertAt(s, x + 1, c)) /\ InsertAt(s, x + 1, c) \in Seq(Char)
             /\ \A z \in Rows \ {y}, t \in Seq(Char) : Holds(buffer, z, t) => Holds(d, z, t)
    BY <1>1, <2>3, <2>5, <2>6, InsertRow, SMTT(60)
  <2>8. TextHeld(mode', text', buffer')
    <3> SUFFICES ASSUME text' # NothingExpected
                 PROVE  /\ text' \in Seq(Seq(Char)) /\ Len(text') = EDITOR_ROWS
                        /\ \A z \in Rows : Holds(buffer', z, text'[z + 1])
      BY DEF TextHeld
    <3>1. PICK t : t = text
      OBVIOUS
    <3>2. PICK k \in Nat : k = y + 1
      OBVIOUS
    <3>3. /\ t # NothingExpected /\ ~(Len(t[k]) >= EDITOR_COLS - 1)
          /\ text' = [t EXCEPT ![k] = InsertAt(t[k], x + 1, c)]
      BY <1>5, <2>1, <2>2, <3>1, <3>2 DEF ExpectInsert
    <3>4. /\ t \in Seq(Seq(Char)) /\ Len(t) = EDITOR_ROWS
          /\ \A z \in Rows : Holds(buffer, z, t[z + 1])
      BY <1>1, <1>2, <3>1, <3>3 DEF TextHeld
    <3>5. k \in 1..EDITOR_ROWS /\ EDITOR_ROWS \in Nat
      BY <2>3, <3>2, CableSizes DEF Rows
    <3>6. t[k] \in Seq(Char) /\ Holds(buffer, y, t[k])
      BY <2>3, <3>2, <3>4, <3>5, ElementOfSeq
    <3>7. Len(t[k]) < EDITOR_COLS - 1
      BY <3>3, <3>6, CableSizes
    <3>8. PICK r : r = InsertAt(t[k], x + 1, c)
      OBVIOUS
    <3>9. /\ Holds(d, y, r) /\ r \in Seq(Char)
          /\ \A z \in Rows \ {y}, u \in Seq(Char) : Holds(buffer, z, u) => Holds(d, z, u)
      BY <2>7, <3>6, <3>7, <3>8
    <3>10. PICK v : v = [t EXCEPT ![k] = r]
      OBVIOUS
    <3>11. v \in Seq(Seq(Char)) /\ Len(v) = EDITOR_ROWS
           /\ \A i \in 1..EDITOR_ROWS : v[i] = IF i = k THEN r ELSE t[i]
      BY <3>4, <3>5, <3>9, <3>10, ExceptSeq
    <3>12. ASSUME NEW z \in Rows
           PROVE  Holds(d, z, v[z + 1])
      <4>1. PICK i \in Nat : i = z + 1 /\ i \in 1..EDITOR_ROWS /\ (i = k <=> z = y)
        <5>1. z \in Nat /\ z < EDITOR_ROWS
          BY <3>5 DEF Rows
        <5>2. z + 1 \in Nat /\ z + 1 \in 1..EDITOR_ROWS /\ (z + 1 = k <=> z = y)
          BY <2>2, <3>2, <3>5, <5>1
        <5> QED
          BY <5>2
      <4>2. CASE z = y
        BY <3>9, <3>11, <4>1, <4>2
      <4>3. CASE z # y
        <5>1. v[z + 1] = t[i] /\ t[i] \in Seq(Char) /\ Holds(buffer, z, t[i])
          BY <3>4, <3>11, <4>1, <4>3, ElementOfSeq
        <5> QED
          BY <3>9, <4>3, <5>1
      <4> QED
        BY <4>2, <4>3
    <3>13. text' = v /\ buffer' = d
      BY <2>4, <3>3, <3>8, <3>10
    <3> QED
      BY <3>11, <3>12, <3>13
  <2>9. CableTypeOK'
    BY <1>2, <1>5, <2>1, <2>4, <2>7 DEF CableInv, CableTypeOK, Array, Bytes0
  <2> QED
    BY <2>4, <2>7, <2>8, <2>9, InvMeans
<1> QED
  BY <1>3, <1>4, <1>5 DEF Type, editor_insert_char

\* Backspace inside a row.
LEMMA DeleteInv ==
  ASSUME CableInv, mode = "edit", DeleteInRow, UNCHANGED <<exists, file, typed>>
  PROVE  CableInv'
<1>1. /\ buffer \in Array /\ Padded(buffer) /\ TextHeld(mode, text, buffer)
      /\ cx \in Nat /\ cy \in Nat
  BY InvMeans
<1>2. file' \in Seq(Byte) /\ typed' \in Nat /\ exists' \in BOOLEAN
  BY DEF CableInv, CableTypeOK
<1>3. CASE ~Reaches(cx - 1, cy) /\ GoAstray
  BY <1>2, <1>3, AstrayInv
<1>4. CASE /\ cx > 0 /\ Reaches(cx - 1, cy)
           /\ buffer' = memmove(buffer, Row(cy) + cx - 1, Row(cy) + cx,
                                strlen(buffer, Row(cy)) - (cx - 1))
           /\ cx' = cx - 1
           /\ dirty' = TRUE
           /\ text' = ExpectDelete
           /\ UNCHANGED <<mode, cy>>
  <2>1. PICK x \in Nat : x = cx
    BY <1>1
  <2>2. PICK y \in Nat : y = cy
    BY <1>1
  <2>3. y \in Rows /\ IsString(buffer, Row(y)) /\ x - 1 <= strlen(buffer, Row(y)) /\ x >= 1
        /\ x - 1 \in Nat
    <3>1. PICK a \in Int : a = x - 1
      OBVIOUS
    <3>2. Reaches(a, y)
      BY <1>4, <2>1, <2>2, <3>1
    <3>3. y \in Rows /\ IsString(buffer, Row(y)) /\ a <= strlen(buffer, Row(y))
      BY <3>2, ReachedRow
    <3>4. x >= 1 /\ x - 1 \in Nat
      BY <1>4, <2>1
    <3> QED
      BY <3>1, <3>3, <3>4
  <2>4. PICK d : d = buffer'
    OBVIOUS
  <2>5. d = memmove(buffer, Row(y) + x - 1, Row(y) + x, strlen(buffer, Row(y)) - (x - 1))
    BY <1>4, <2>1, <2>2, <2>4
  <2>6. /\ d \in Array /\ Padded(d)
        /\ x > strlen(buffer, Row(y)) => d = buffer
        /\ \A s \in Seq(Char) : Holds(buffer, y, s) /\ x <= Len(s) =>
             /\ Holds(d, y, RemoveAt(s, x)) /\ RemoveAt(s, x) \in Seq(Char)
             /\ \A z \in Rows \ {y}, t \in Seq(Char) : Holds(buffer, z, t) => Holds(d, z, t)
    BY <1>1, <2>3, <2>5, DeleteRow
  <2>7. TextHeld(mode', text', buffer')
    <3> SUFFICES ASSUME text' # NothingExpected
                 PROVE  /\ text' \in Seq(Seq(Char)) /\ Len(text') = EDITOR_ROWS
                        /\ \A z \in Rows : Holds(buffer', z, text'[z + 1])
      BY DEF TextHeld
    <3>1. PICK t : t = text
      OBVIOUS
    <3>2. PICK k \in Nat : k = y + 1
      OBVIOUS
    <3>3. /\ t # NothingExpected
          /\ text' = IF x > Len(t[k]) THEN t ELSE [t EXCEPT ![k] = RemoveAt(t[k], x)]
      BY <1>4, <2>1, <2>2, <3>1, <3>2 DEF ExpectDelete
    <3>4. /\ t \in Seq(Seq(Char)) /\ Len(t) = EDITOR_ROWS
          /\ \A z \in Rows : Holds(buffer, z, t[z + 1])
      BY <1>1, <3>1, <3>3 DEF TextHeld
    <3>5. k \in 1..EDITOR_ROWS /\ EDITOR_ROWS \in Nat
      BY <2>3, <3>2, CableSizes DEF Rows
    <3>6. t[k] \in Seq(Char) /\ Holds(buffer, y, t[k])
      BY <2>3, <3>2, <3>4, <3>5, ElementOfSeq
    <3>7. CASE x > Len(t[k])
      <4>1. strlen(buffer, Row(y)) = Len(t[k])
        BY <2>3, <3>6, HoldsString
      <4>2. buffer' = buffer /\ text' = t
        BY <2>4, <2>6, <3>3, <3>7, <4>1
      <4> QED
        BY <3>4, <4>2
    <3>8. CASE ~(x > Len(t[k]))
      <4>1. x <= Len(t[k])
        BY <3>6, <3>8
      <4>2. PICK r : r = RemoveAt(t[k], x)
        OBVIOUS
      <4>3. /\ Holds(d, y, r) /\ r \in Seq(Char)
            /\ \A z \in Rows \ {y}, u \in Seq(Char) : Holds(buffer, z, u) => Holds(d, z, u)
        BY <2>6, <3>6, <4>1, <4>2
      <4>4. PICK v : v = [t EXCEPT ![k] = r]
        OBVIOUS
      <4>5. v \in Seq(Seq(Char)) /\ Len(v) = EDITOR_ROWS
            /\ \A i \in 1..EDITOR_ROWS : v[i] = IF i = k THEN r ELSE t[i]
        BY <3>4, <3>5, <4>3, <4>4, ExceptSeq
      <4>6. ASSUME NEW z \in Rows
            PROVE  Holds(d, z, v[z + 1])
        <5>1. PICK i \in Nat : i = z + 1 /\ i \in 1..EDITOR_ROWS /\ (i = k <=> z = y)
          <6>1. z \in Nat /\ z < EDITOR_ROWS
            BY <3>5 DEF Rows
          <6>2. z + 1 \in Nat /\ z + 1 \in 1..EDITOR_ROWS /\ (z + 1 = k <=> z = y)
            BY <2>2, <3>2, <3>5, <6>1
          <6> QED
            BY <6>2
        <5>2. CASE z = y
          BY <4>3, <4>5, <5>1, <5>2
        <5>3. CASE z # y
          <6>1. v[z + 1] = t[i] /\ t[i] \in Seq(Char) /\ Holds(buffer, z, t[i])
            BY <3>4, <4>5, <5>1, <5>3, ElementOfSeq
          <6> QED
            BY <4>3, <5>3, <6>1
        <5> QED
          BY <5>2, <5>3
      <4>7. text' = v /\ buffer' = d
        BY <2>4, <3>3, <3>8, <4>2, <4>4
      <4> QED
        BY <4>5, <4>6, <4>7
    <3> QED
      BY <3>7, <3>8
  <2>8. CableTypeOK'
    BY <1>2, <1>4, <2>1, <2>3, <2>4, <2>6 DEF CableInv, CableTypeOK, Array, Bytes0
  <2> QED
    BY <2>4, <2>6, <2>7, <2>8, InvMeans
<1> QED
  BY <1>3, <1>4 DEF DeleteInRow

\* Backspace at the start of a row.
LEMMA JoinInv ==
  ASSUME CableInv, mode = "edit", JoinRows, UNCHANGED <<exists, file, typed>>
  PROVE  CableInv'
<1>1. /\ buffer \in Array /\ Padded(buffer) /\ TextHeld(mode, text, buffer)
      /\ cx \in Nat /\ cy \in Nat
  BY InvMeans
<1>2. file' \in Seq(Byte) /\ typed' \in Nat /\ exists' \in BOOLEAN
  BY DEF CableInv, CableTypeOK
<1>3. CASE GoAstray
  BY <1>2, <1>3, AstrayInv
<1>4. CASE UNCHANGED <<mode, cx, cy, buffer, dirty, text>>
  <2>1. CableTypeOK'
    BY <1>4 DEF CableInv, CableTypeOK
  <2> QED
    BY <1>4, <2>1, KeepInv
<1>5. CASE /\ cx = 0 /\ cy > 0 /\ Reaches(0, cy - 1) /\ Reaches(0, cy)
           /\ strlen(buffer, Row(cy - 1)) + strlen(buffer, Row(cy)) < EDITOR_COLS - 1
           /\ buffer' = memmove(strcat(buffer, Row(cy - 1), Row(cy)), Row(cy), Row(cy + 1),
                                (EDITOR_ROWS - cy - 1) * EDITOR_COLS)
           /\ cy' = cy - 1 /\ cx' = strlen(buffer, Row(cy - 1))
           /\ dirty' = TRUE
           /\ text' = ExpectJoin
           /\ UNCHANGED mode
  <2>1. PICK y \in Nat : y = cy
    BY <1>1
  <2>2. y >= 1 /\ y - 1 \in Nat
    BY <1>5, <2>1
  <2>3. y \in Rows /\ IsString(buffer, Row(y)) /\ y < EDITOR_ROWS /\ EDITOR_ROWS \in Nat
    <3>1. PICK a \in Int : a = 0
      OBVIOUS
    <3>2. Reaches(a, y)
      BY <1>5, <2>1, <3>1
    <3>3. y \in Rows /\ IsString(buffer, Row(y))
      BY <3>2, ReachedRow
    <3> QED
      BY <3>3, CableSizes DEF Rows
  <2>4. IsString(buffer, Row(y - 1)) /\ strlen(buffer, Row(y - 1)) \in Nat
    <3>1. PICK a \in Int : a = 0
      OBVIOUS
    <3>2. PICK q \in Nat : q = y - 1
      BY <2>2
    <3>3. Reaches(a, q)
      BY <1>5, <2>1, <3>1, <3>2
    <3>4. IsString(buffer, Row(q)) /\ strlen(buffer, Row(q)) \in Nat
      BY <3>3, ReachedRow
    <3> QED
      BY <3>2, <3>4
  <2>5. PICK d : d = buffer'
    OBVIOUS
  <2>6. d = memmove(strcat(buffer, Row(y - 1), Row(y)), Row(y), Row(y + 1),
                    (EDITOR_ROWS - y - 1) * EDITOR_COLS)
    BY <1>5, <2>1, <2>5
  <2>7. strlen(buffer, Row(y - 1)) + strlen(buffer, Row(y)) < EDITOR_COLS - 1
    BY <1>5, <2>1
  <2>8. /\ d \in Array /\ Padded(d)
        /\ \A t \in Seq(Seq(Char)) :
             /\ Len(t) = EDITOR_ROWS /\ t[EDITOR_ROWS] = <<>>
             /\ \A z \in Rows : Holds(buffer, z, t[z + 1])
             => \A z \in Rows : Holds(d, z, JoinedText(t, y)[z + 1])
    BY <1>1, <2>2, <2>3, <2>4, <2>6, <2>7, JoinRow
  <2>9. TextHeld(mode', text', buffer')
    <3> SUFFICES ASSUME text' # NothingExpected
                 PROVE  /\ text' \in Seq(Seq(Char)) /\ Len(text') = EDITOR_ROWS
                        /\ \A z \in Rows : Holds(buffer', z, text'[z + 1])
      BY DEF TextHeld
    <3>1. PICK t : t = text
      OBVIOUS
    <3>2. t # NothingExpected /\ t[EDITOR_ROWS] = <<>> /\ text' = JoinedText(t, y)
      BY <1>5, <2>1, <3>1 DEF ExpectJoin, JoinedText
    <3>3. /\ t \in Seq(Seq(Char)) /\ Len(t) = EDITOR_ROWS
          /\ \A z \in Rows : Holds(buffer, z, t[z + 1])
      BY <1>1, <3>1, <3>2 DEF TextHeld
    <3>4. y \in 1..(Len(t) - 1)
      BY <2>2, <2>3, <3>3
    <3>5. JoinedText(t, y) \in Seq(Seq(Char)) /\ Len(JoinedText(t, y)) = Len(t)
      BY <3>3, <3>4, JoinedTextResult
    <3>6. \A z \in Rows : Holds(d, z, JoinedText(t, y)[z + 1])
      BY <2>8, <3>2, <3>3
    <3> QED
      BY <2>5, <3>2, <3>3, <3>5, <3>6
  <2>10. CableTypeOK'
    BY <1>2, <1>5, <2>1, <2>2, <2>4, <2>5, <2>8 DEF CableInv, CableTypeOK, Array, Bytes0
  <2> QED
    BY <2>5, <2>8, <2>9, <2>10, InvMeans
<1> QED
  BY <1>3, <1>4, <1>5 DEF JoinRows

\* Saving.
LEMMA SaveInv ==
  ASSUME CableInv, editor_save_file
  PROVE  CableInv'
<1>1. buffer \in Array /\ file \in Seq(Byte)
  BY InvMeans DEF CableInv, CableTypeOK
<1>2. UNCHANGED <<exists, typed>> /\ typed' \in Nat
  BY DEF editor_save_file, CableInv, CableTypeOK
<1>3. CASE GoAstray /\ UNCHANGED file
  BY <1>1, <1>2, <1>3, AstrayInv
<1>4. CASE /\ SaveFits(buffer) /\ syscall_write(Saved(buffer)) /\ dirty' = FALSE
           /\ UNCHANGED <<mode, cx, cy, buffer, text>>
  <2>1. Saved(buffer) \in Seq(Byte)
    BY <1>1, <1>4, SavedBytes DEF SaveFits
  <2>2. bdfs_write_file(Saved(buffer))
    BY <1>4, <2>1, SaveWrites DEF SaveFits
  <2>3. file' \in Seq(Byte)
    BY <1>1, <2>1, <2>2 DEF bdfs_write_file
  <2>4. CableTypeOK'
    BY <1>2, <1>4, <2>3 DEF CableInv, CableTypeOK
  <2> QED
    BY <1>4, <2>4, KeepInv
<1> QED
  BY <1>3, <1>4, ZenonT(30) DEF editor_save_file

\* Every step keeps the invariant.
LEMMA StepInv ==
  ASSUME CableInv, [CableNext]_cablevars
  PROVE  CableInv'
<1>1. /\ cx \in Nat /\ cy \in Nat /\ typed \in Nat /\ exists \in BOOLEAN /\ file \in Seq(Byte)
  BY DEF CableInv, CableTypeOK
<1>2. CASE UNCHANGED cablevars
  <2>1. CableTypeOK'
    BY <1>2 DEF CableInv, CableTypeOK, cablevars
  <2> QED
    BY <1>2, <2>1, KeepInv DEF cablevars
<1>3. CASE editor_init
  BY <1>3, OpenInv
<1>4. CASE editor_save_file
  BY <1>4, SaveInv
<1>5. CASE Quit
  <2>1. CableTypeOK'
    BY <1>5 DEF CableInv, CableTypeOK, Quit
  <2> QED
    BY <1>5, <2>1, KeepInv DEF Quit
<1>6. ASSUME NEW x \in Nat, NEW y \in Nat, MoveTo(x, y)
      PROVE  CableInv'
  <2>1. CableTypeOK'
    BY <1>6 DEF CableInv, CableTypeOK, MoveTo
  <2> QED
    BY <1>6, <2>1, KeepInv DEF MoveTo
<1>7. CASE Up
  <2>1. PICK y \in Nat : y = cy - 1
    BY <1>1, <1>7 DEF Up
  <2> QED
    BY <1>1, <1>6, <1>7, <2>1 DEF Up
<1>8. CASE Down
  <2>1. PICK y \in Nat : y = cy + 1
    BY <1>1
  <2> QED
    BY <1>1, <1>6, <1>8, <2>1 DEF Down
<1>9. CASE Left
  <2>1. PICK x \in Nat : x = cx - 1
    BY <1>1, <1>9 DEF Left
  <2> QED
    BY <1>1, <1>6, <1>9, <2>1 DEF Left
<1>10. CASE Right
  <2>1. PICK x \in Nat : x = cx + 1
    BY <1>1
  <2>2. CASE MoveTo(cx + 1, cy)
    BY <1>1, <1>6, <2>1, <2>2
  <2>3. CASE GoAstray /\ UNCHANGED <<exists, file, typed>>
    BY <1>1, <2>3, AstrayInv
  <2> QED
    BY <1>10, <2>2, <2>3 DEF Right
<1>11. CASE Enter
  <2>1. PICK y \in Nat : y = cy + 1
    BY <1>1
  <2> QED
    BY <1>1, <1>6, <1>11, <2>1 DEF Enter
<1>12. CASE Backspace
  <2>1. CASE UNCHANGED <<mode, cx, cy, buffer, dirty, text>>
    <3>1. CableTypeOK'
      BY <1>12, <2>1 DEF CableInv, CableTypeOK, Backspace
    <3> QED
      BY <2>1, <3>1, KeepInv
  <2> QED
    BY <1>12, <2>1, DeleteInv, JoinInv DEF Backspace, editor_delete_char
<1>13. ASSUME NEW c \in Char, Type(c)
       PROVE  CableInv'
  BY <1>13, TypeInv
<1>14. CASE ShellCommand
  <2>1. exists' \in BOOLEAN /\ file' \in Seq(Byte)
    <3>1. <<>> \in Seq(Byte)
      OBVIOUS
    <3>2. \A t \in ShellTexts : t \in Seq(Byte)
      BY CableTexts, SeqMonotonic DEF Byte
    <3>3. CASE ~exists /\ exists' = TRUE /\ file' = <<>>
      BY <3>1, <3>3
    <3>4. CASE exists /\ exists' = FALSE /\ file' = <<>>
      BY <3>1, <3>4
    <3>5. ASSUME NEW t \in ShellTexts, bdfs_write_file(t), UNCHANGED exists
          PROVE  exists' \in BOOLEAN /\ file' \in Seq(Byte)
      BY <1>1, <3>2, <3>5 DEF bdfs_write_file
    <3> QED
      BY <1>14, <3>3, <3>4, <3>5 DEF ShellCommand
  <2>2. CableTypeOK'
    BY <1>14, <2>1 DEF CableInv, CableTypeOK, ShellCommand
  <2> QED
    BY <1>14, <2>2, KeepInv DEF ShellCommand
<1>15. CASE Restart
  <2>1. CableTypeOK'
    <3>1. EmptyBuffer \in [Cell -> Char \cup {Nul}] /\ <<>> \in Seq(Byte) /\ 0 \in Nat
      BY DEF EmptyBuffer
    <3> HIDE DEF EmptyBuffer
    <3> QED
      BY <1>15, <3>1 DEF Restart, CableTypeOK
  <2>2. buffer' \in Array
    BY <1>15 DEF Restart, EmptyBuffer, Array, Bytes0
  <2>3. Padded(buffer')
    <3>1. \A y \in Rows, x \in Columns : buffer'[Row(y) + x] = Nul
      BY <1>15, RowFacts DEF Restart, EmptyBuffer
    <3> QED
      BY <3>1 DEF Padded
  <2>4. TextHeld(mode', text', buffer')
    BY <1>15 DEF Restart, TextHeld
  <2> QED
    BY <2>1, <2>2, <2>3, <2>4, InvMeans
<1> QED
  BY <1>2, <1>3, <1>4, <1>5, <1>7, <1>8, <1>9, <1>10, <1>11, <1>12, <1>13, <1>14, <1>15
     DEF CableNext, editor_process_keypress

-----------------------------------------------------------------------------
(* What is saved and loaded again                                          *)

\* Only the bytes up to p matter to how many lines end there.
LEMMA NewlinesSame ==
  ASSUME NEW u, NEW w, NEW p \in Nat, NEW n \in Nat, n <= p,
         \A q \in 1..n : w[q] = u[q], \A q \in (n + 1)..p : w[q] # Newline
  PROVE  Newlines(w, p) = Newlines(u, n)
<1>1. {q \in 1..p : w[q] = Newline} = {q \in 1..n : u[q] = Newline}
  <2>1. \A q \in 1..p : q \in 1..n \/ q \in (n + 1)..p
    OBVIOUS
  <2>2. \A q \in 1..n : q \in 1..p
    OBVIOUS
  <2> QED
    BY <2>1, <2>2
<1> QED
  BY <1>1 DEF Newlines

\* w is u, the line r behind it, and an end of line if e is 1.
Adds(w, u, r, e) ==
  /\ Len(w) = (Len(u) + Len(r)) + e
  /\ \A p \in 1..Len(u) : w[p] = u[p]
  /\ \A x \in 1..Len(r) : w[Len(u) + x] = r[x]
  /\ e = 1 => w[Len(w)] = Newline

\* u ends behind the end of its line c.
LinesEnd(u, c) == \A y \in Nat : y >= c => Places(u, y) = {}

\* Then r is line c of w, counted from 0, and the others are those of u.
LEMMA LineAdded ==
  ASSUME NEW u \in Seq(Byte), NEW r \in Seq(Char), NEW e \in {0, 1}, NEW w \in Seq(Byte),
         Adds(w, u, r, e), NEW c \in Nat, Newlines(u, Len(u)) = c, LinesEnd(u, c)
  PROVE  /\ Places(w, c) = (Len(u) + 1)..(Len(u) + Len(r))
         /\ \A y \in Nat : y < c => Places(w, y) = Places(u, y)
         /\ LinesEnd(w, c + 1)
         /\ e = 1 => Newlines(w, Len(w)) = c + 1
<1>1. PICK m \in Nat : m = Len(u)
  OBVIOUS
<1>2. PICK n \in Nat : n = Len(r)
  OBVIOUS
<1>3. PICK l \in Nat : l = Len(w)
  OBVIOUS
<1>4. /\ l = (m + n) + e /\ (e = 1 => w[l] = Newline)
      /\ \A p \in 1..m : w[p] = u[p]
      /\ \A x \in 1..n : w[m + x] = r[x]
  BY <1>1, <1>2, <1>3 DEF Adds
<1>5. \A p \in (m + 1)..(m + n) : w[p] # Newline
  <2> SUFFICES ASSUME NEW p \in (m + 1)..(m + n)
               PROVE  w[p] # Newline
    OBVIOUS
  <2>1. PICK x \in 1..n : p = m + x
    <3>1. p - m \in 1..n /\ p = m + (p - m)
      OBVIOUS
    <3> QED
      BY <3>1
  <2>2. w[p] = r[x] /\ r[x] \in Char
    BY <1>2, <1>4, <2>1, ElementOfSeq
  <2> QED
    BY <2>2, CableSizes DEF Newline
<1>6. ASSUME NEW p \in Nat, p <= m
      PROVE  Newlines(w, p) = Newlines(u, p) /\ Newlines(w, p) <= c /\ Newlines(w, p) \in Nat
  <2>1. Newlines(w, p) = Newlines(u, p)
    <3>1. \A q \in 1..p : w[q] = u[q]
      BY <1>4, <1>6
    <3>2. (p + 1)..p = {} /\ p <= p
      OBVIOUS
    <3> QED
      BY <3>1, <3>2, NewlinesSame
  <2>2. Newlines(u, p) <= c /\ Newlines(u, p) \in Nat
    BY <1>1, <1>6, NewlinesGrow
  <2> QED
    BY <2>1, <2>2
<1>7. ASSUME NEW p \in Nat, m <= p, p <= m + n
      PROVE  Newlines(w, p) = c
  <2>1. \A q \in (m + 1)..p : w[q] # Newline
    BY <1>5, <1>7
  <2>2. Newlines(w, p) = Newlines(u, m)
    <3>1. \A q \in 1..m : w[q] = u[q]
      BY <1>4
    <3> QED
      BY <1>7, <2>1, <3>1, NewlinesSame
  <2> QED
    BY <1>1, <2>2
<1>8. ASSUME NEW p \in 1..l
      PROVE  p \in 1..m \/ p \in (m + 1)..(m + n) \/ (p = l /\ e = 1)
  BY <1>4
<1>9. ASSUME NEW p \in 1..l, w[p] # Newline
      PROVE  p \in 1..m \/ p \in (m + 1)..(m + n)
  BY <1>4, <1>8, <1>9
<1>10. ASSUME NEW p \in 1..m
       PROVE  p \in 1..l
  BY <1>4
<1>11. Places(w, c) = (m + 1)..(m + n)
  <2>1. ASSUME NEW p \in Places(w, c)
        PROVE  p \in (m + 1)..(m + n)
    <3>1. p \in 1..l /\ w[p] # Newline /\ Newlines(w, p) = c
      BY <1>3 DEF Places
    <3>2. ASSUME p \in 1..m
          PROVE  FALSE
      <4>1. u[p] # Newline /\ Newlines(u, p) = c
        BY <1>4, <1>6, <3>1, <3>2
      <4>2. p \in Places(u, c)
        BY <1>1, <3>2, <4>1 DEF Places
      <4>3. Places(u, c) = {}
        BY DEF LinesEnd
      <4> QED
        BY <4>2, <4>3
    <3> QED
      BY <1>9, <3>1, <3>2
  <2>2. ASSUME NEW p \in (m + 1)..(m + n)
        PROVE  p \in Places(w, c)
    <3>1. p \in 1..l /\ p \in Nat /\ m <= p /\ p <= m + n
      BY <1>4
    <3> QED
      BY <1>3, <1>5, <1>7, <3>1 DEF Places
  <2> QED
    BY <2>1, <2>2
<1>12. ASSUME NEW y \in Nat, y < c
       PROVE  Places(w, y) = Places(u, y)
  <2>1. ASSUME NEW p \in Places(w, y)
        PROVE  p \in Places(u, y)
    <3>1. p \in 1..l /\ w[p] # Newline /\ Newlines(w, p) = y
      BY <1>3 DEF Places
    <3>2. ASSUME p \in (m + 1)..(m + n)
          PROVE  FALSE
      <4>1. Newlines(w, p) = c
        BY <1>7, <3>2
      <4> QED
        BY <1>12, <3>1, <4>1
    <3>3. p \in 1..m
      BY <1>9, <3>1, <3>2
    <3>4. u[p] # Newline /\ Newlines(u, p) = y
      BY <1>4, <1>6, <3>1, <3>3
    <3> QED
      BY <1>1, <3>3, <3>4 DEF Places
  <2>2. ASSUME NEW p \in Places(u, y)
        PROVE  p \in Places(w, y)
    <3>1. p \in 1..m /\ u[p] # Newline /\ Newlines(u, p) = y
      BY <1>1 DEF Places
    <3>2. w[p] # Newline /\ Newlines(w, p) = y /\ p \in 1..l
      BY <1>4, <1>6, <1>10, <3>1
    <3> QED
      BY <1>3, <3>2 DEF Places
  <2> QED
    BY <2>1, <2>2
<1>13. LinesEnd(w, c + 1)
  <2> SUFFICES ASSUME NEW y \in Nat, y >= c + 1, NEW p \in Places(w, y)
               PROVE  FALSE
    BY DEF LinesEnd
  <2>1. p \in 1..l /\ w[p] # Newline /\ Newlines(w, p) = y
    BY <1>3 DEF Places
  <2>2. p \in 1..m => Newlines(w, p) <= c
    BY <1>6
  <2>3. p \in (m + 1)..(m + n) => Newlines(w, p) = c
    BY <1>7
  <2> QED
    BY <1>9, <2>1, <2>2, <2>3
<1>14. ASSUME e = 1
       PROVE  Newlines(w, Len(w)) = c + 1
  <2>1. PICK p \in Nat : p = m + n
    OBVIOUS
  <2>2. Newlines(w, p) = c
    BY <1>7, <2>1
  <2>3. l = p + 1 /\ w[p + 1] = Newline
    BY <1>4, <1>14, <2>1
  <2>4. Newlines(w, p + 1) = c + 1
    BY <2>2, <2>3, NewlinesStep
  <2> QED
    BY <1>3, <2>3, <2>4
<1> QED
  BY <1>1, <1>2, <1>11, <1>12, <1>13, <1>14

\* Line y of u, counted from 0, is r.
HasLine(u, y, r) ==
  \E a \in 1..(Len(u) + 1) : \E z \in 0..Len(u) :
    /\ a <= z + 1 /\ Places(u, y) = a..z /\ Len(r) = (z + 1) - a
    /\ \A x \in 1..Len(r) : u[a + (x - 1)] = r[x]

\* If r fits in a row, so does Line() find it.
LEMMA HasLineIs ==
  ASSUME NEW u \in Seq(Byte), NEW y \in Nat, NEW r \in Seq(Char), HasLine(u, y, r),
         Len(r) <= EDITOR_COLS - 1
  PROVE  Line(u, y + 1) = r
<1>1. PICK a \in 1..(Len(u) + 1), z \in 0..Len(u) :
         /\ a <= z + 1 /\ Places(u, y) = a..z /\ Len(r) = (z + 1) - a
         /\ \A x \in 1..Len(r) : u[a + (x - 1)] = r[x]
  BY DEF HasLine
<1>2. /\ Line(u, y + 1) \in Seq(Char) /\ Len(Line(u, y + 1)) = Cut((z + 1) - a)
      /\ \A k \in 1..Cut((z + 1) - a) : Line(u, y + 1)[k] = u[a + (k - 1)]
  BY <1>1, LineIs
<1>3. Cut((z + 1) - a) = Len(r)
  <2>1. Len(r) < EDITOR_COLS - 1 \/ Len(r) = EDITOR_COLS - 1
    BY CableSizes
  <2> QED
    BY <1>1, <2>1 DEF Cut
<1>4. PICK t \in Seq(Char) : t = Line(u, y + 1)
  BY <1>2
<1>5. Len(t) = Len(r) /\ \A k \in 1..Len(r) : t[k] = r[k]
  BY <1>1, <1>2, <1>3, <1>4
<1>6. t = r
  BY <1>5, SeqEqual
<1> QED
  BY <1>4, <1>6

\* Lines stay where they are when another is added.
LEMMA HasLineKept ==
  ASSUME NEW u \in Seq(Byte), NEW w \in Seq(Byte), Len(u) <= Len(w),
         \A p \in 1..Len(u) : w[p] = u[p], NEW y, Places(w, y) = Places(u, y),
         NEW r \in Seq(Char), HasLine(u, y, r)
  PROVE  HasLine(w, y, r)
<1>1. PICK a \in 1..(Len(u) + 1), z \in 0..Len(u) :
         /\ a <= z + 1 /\ Places(u, y) = a..z /\ Len(r) = (z + 1) - a
         /\ \A x \in 1..Len(r) : u[a + (x - 1)] = r[x]
  BY DEF HasLine
<1>2. Len(u) \in Nat /\ Len(w) \in Nat /\ Len(r) \in Nat
  OBVIOUS
<1>3. a \in 1..(Len(w) + 1) /\ z \in 0..Len(w)
  BY <1>2
<1>4. ASSUME NEW x \in 1..Len(r)
      PROVE  w[a + (x - 1)] = r[x]
  <2>1. a + (x - 1) \in 1..Len(u)
    BY <1>1, <1>2
  <2> QED
    BY <1>1, <2>1
<1> QED
  BY <1>1, <1>3, <1>4 DEF HasLine

\* The line that was added.
LEMMA HasLineAdded ==
  ASSUME NEW u \in Seq(Byte), NEW w \in Seq(Byte), NEW r \in Seq(Char), NEW e \in {0, 1},
         Adds(w, u, r, e), NEW y, Places(w, y) = (Len(u) + 1)..(Len(u) + Len(r))
  PROVE  HasLine(w, y, r)
<1>1. PICK m \in Nat : m = Len(u)
  OBVIOUS
<1>2. PICK n \in Nat : n = Len(r)
  OBVIOUS
<1>3. PICK l \in Nat : l = Len(w)
  OBVIOUS
<1>4. l = (m + n) + e /\ \A x \in 1..n : w[m + x] = r[x]
  BY <1>1, <1>2, <1>3 DEF Adds
<1>5. PICK a \in Nat : a = m + 1
  OBVIOUS
<1>6. PICK z \in Nat : z = m + n
  OBVIOUS
<1>7. a \in 1..(l + 1) /\ z \in 0..l /\ a <= z + 1 /\ n = (z + 1) - a
  BY <1>4, <1>5, <1>6
<1>8. Places(w, y) = a..z
  BY <1>1, <1>2, <1>5, <1>6
<1>9. ASSUME NEW x \in 1..n
      PROVE  w[a + (x - 1)] = r[x]
  <2>1. a + (x - 1) = m + x
    BY <1>5
  <2> QED
    BY <1>4, <2>1
<1> QED
  BY <1>2, <1>3, <1>7, <1>8, <1>9 DEF HasLine

\* The rows in front of row n that are not empty.
KeptRows(t, n) == {k \in 1..EDITOR_ROWS : k < n /\ t[k] # <<>>}

\* Row j is counted among the rows kept just when it is not empty.
LEMMA KeptStep ==
  ASSUME NEW t, NEW j \in 1..EDITOR_ROWS
  PROVE  /\ Cardinality(KeptRows(t, j)) \in Nat
         /\ KeptRows(t, j + 1) = IF t[j] # <<>> THEN KeptRows(t, j) \cup {j} ELSE KeptRows(t, j)
         /\ t[j] # <<>> => Cardinality(KeptRows(t, j + 1)) = Cardinality(KeptRows(t, j)) + 1
         /\ KeptRows(t, 1) = {} /\ Cardinality(KeptRows(t, 1)) = 0
<1>1. EDITOR_ROWS \in Nat
  BY CableSizes
<1>2. IsFiniteSet(KeptRows(t, j)) /\ Cardinality(KeptRows(t, j)) \in Nat
  <2>1. IsFiniteSet(1..EDITOR_ROWS) /\ KeptRows(t, j) \in SUBSET (1..EDITOR_ROWS)
    BY <1>1, FS_Interval DEF KeptRows
  <2>2. IsFiniteSet(KeptRows(t, j))
    BY <2>1, FS_Subset
  <2> QED
    BY <2>2, FS_CardinalityType
<1>3. KeptRows(t, j + 1) = IF t[j] # <<>> THEN KeptRows(t, j) \cup {j} ELSE KeptRows(t, j)
  <2>1. \A k \in 1..EDITOR_ROWS : k < j + 1 <=> k < j \/ k = j
    BY <1>1
  <2> QED
    BY <2>1 DEF KeptRows
<1>4. j \notin KeptRows(t, j)
  BY <1>1 DEF KeptRows
<1>5. t[j] # <<>> => Cardinality(KeptRows(t, j + 1)) = Cardinality(KeptRows(t, j)) + 1
  BY <1>2, <1>3, <1>4, FS_AddElement
<1>6. KeptRows(t, 1) = {}
  BY <1>1 DEF KeptRows
<1> QED
  BY <1>2, <1>3, <1>5, <1>6, FS_EmptySet

\* u has the lines of the first i rows, in their order, the empty ones gone.
RowsSaved(u, t, i) ==
  /\ u \in Seq(Byte)
  /\ i < EDITOR_ROWS => Newlines(u, Len(u)) = Cardinality(KeptRows(t, i + 1))
  /\ LinesEnd(u, Cardinality(KeptRows(t, i + 1)))
  /\ \A k \in KeptRows(t, i + 1) : HasLine(u, Cardinality(KeptRows(t, k)), t[k])

\* What one iteration of the loop of editor_save_file() adds for row j.
RowBytes(t, j) ==
  IF t[j] = <<>> THEN <<>>
  ELSE t[j] \o (IF j < EDITOR_ROWS THEN <<Newline>> ELSE <<>>)

\* An iteration for row j extends the bytes that hold the rows in front of it
\* to bytes that hold row j too.
LEMMA RowsSavedStep ==
  ASSUME NEW t \in Seq(Seq(Char)), Len(t) = EDITOR_ROWS, NEW i \in Nat, NEW j \in 1..EDITOR_ROWS,
         j = i + 1, NEW u, RowsSaved(u, t, i)
  PROVE  RowsSaved(u \o RowBytes(t, j), t, j)
<1>1. EDITOR_ROWS \in Nat /\ i < EDITOR_ROWS /\ j \in Nat
  BY CableSizes
<1>2. PICK c \in Nat : c = Cardinality(KeptRows(t, j))
  BY KeptStep
<1>3. /\ u \in Seq(Byte) /\ Newlines(u, Len(u)) = c /\ LinesEnd(u, c)
      /\ \A k \in KeptRows(t, j) : HasLine(u, Cardinality(KeptRows(t, k)), t[k])
  BY <1>1, <1>2 DEF RowsSaved
<1>4. CASE t[j] = <<>>
  <2>1. u \o RowBytes(t, j) = u
    BY <1>3, <1>4, ConcatEmptySeq DEF RowBytes
  <2>2. KeptRows(t, j + 1) = KeptRows(t, j)
    BY <1>4, KeptStep
  <2> QED
    BY <1>2, <1>3, <2>1, <2>2 DEF RowsSaved
<1>5. CASE t[j] # <<>>
  <2>1. PICK r \in Seq(Char) : r = t[j]
    BY ElementOfSeq
  <2> DEFINE e == IF j < EDITOR_ROWS THEN 1 ELSE 0
             v == IF j < EDITOR_ROWS THEN <<Newline>> ELSE <<>>
  <2>2. /\ e \in {0, 1} /\ v \in Seq(Byte) /\ Len(v) = e /\ (e = 1 => v[1] = Newline)
        /\ (e = 1 <=> j < EDITOR_ROWS)
    <3>1. <<Newline>> \in Seq(Byte) /\ Len(<<Newline>>) = 1 /\ <<Newline>>[1] = Newline
      BY DEF Byte
    <3>2. <<>> \in Seq(Byte) /\ Len(<<>>) = 0
      OBVIOUS
    <3> QED
      BY <3>1, <3>2
  <2>3. r \in Seq(Byte)
    BY SeqMonotonic DEF Byte
  <2>4. PICK w : w = u \o RowBytes(t, j)
    OBVIOUS
  <2>5. w = u \o (r \o v)
    BY <1>5, <2>1, <2>4 DEF RowBytes
  <2> HIDE DEF e, v
  <2>6. w \in Seq(Byte) /\ Adds(w, u, r, e)
    <3>1. PICK m \in Nat : m = Len(u)
      BY <1>3
    <3>2. PICK n \in Nat : n = Len(r)
      OBVIOUS
    <3>3. e \in Nat
      BY <2>2
    <3>4. PICK x : x = r \o v
      OBVIOUS
    <3>5. /\ x \in Seq(Byte) /\ Len(x) = n + e
          /\ \A k \in 1..(n + e) : x[k] = IF k <= n THEN r[k] ELSE v[k - n]
      BY <2>2, <2>3, <3>2, <3>4, Joined
    <3>6. /\ w \in Seq(Byte) /\ Len(w) = m + (n + e)
          /\ \A k \in 1..(m + (n + e)) : w[k] = IF k <= m THEN u[k] ELSE x[k - m]
      <4>1. w = u \o x
        BY <2>5, <3>4
      <4>2. PICK h \in Nat : h = n + e
        BY <3>3
      <4>3. u \in Seq(Byte) /\ x \in Seq(Byte) /\ Len(u) = m /\ Len(x) = h
        BY <1>3, <3>1, <3>5, <4>2
      <4>4. /\ u \o x \in Seq(Byte) /\ Len(u \o x) = m + h
            /\ \A k \in 1..(m + h) : (u \o x)[k] = IF k <= m THEN u[k] ELSE x[k - m]
        BY <4>3, Joined
      <4> QED
        BY <4>1, <4>2, <4>4
    <3>7. Len(w) = (m + n) + e
      BY <3>3, <3>6
    <3>8. \A p \in 1..m : w[p] = u[p]
      <4>1. \A p \in 1..m : p \in 1..(m + (n + e)) /\ p <= m
        BY <3>3
      <4> QED
        BY <3>6, <4>1
    <3>9. ASSUME NEW a \in 1..n
          PROVE  w[m + a] = r[a]
      <4>1. PICK p \in Nat : p = m + a
        OBVIOUS
      <4>2. p \in 1..(m + (n + e)) /\ ~(p <= m) /\ p - m = a /\ a \in 1..(n + e) /\ a <= n
        BY <3>3, <4>1
      <4>3. w[p] = x[a]
        BY <3>6, <4>2
      <4>4. x[a] = r[a]
        BY <3>5, <4>2
      <4> QED
        BY <4>1, <4>3, <4>4
    <3>10. ASSUME e = 1
           PROVE  w[Len(w)] = Newline
      <4>1. PICK p \in Nat : p = m + (n + 1)
        OBVIOUS
      <4>2. PICK a \in Nat : a = n + 1
        OBVIOUS
      <4>3. /\ p \in 1..(m + (n + e)) /\ ~(p <= m) /\ p - m = a
            /\ a \in 1..(n + e) /\ ~(a <= n) /\ a - n = 1 /\ p = Len(w)
        BY <3>6, <3>10, <4>1, <4>2
      <4>4. w[p] = x[a]
        BY <3>6, <4>3
      <4>5. x[a] = v[1]
        BY <3>5, <4>3
      <4> QED
        BY <2>2, <3>10, <4>3, <4>4, <4>5
    <3> QED
      BY <3>1, <3>2, <3>6, <3>7, <3>8, <3>9, <3>10 DEF Adds
  <2>7. /\ Places(w, c) = (Len(u) + 1)..(Len(u) + Len(r))
        /\ \A y \in Nat : y < c => Places(w, y) = Places(u, y)
        /\ LinesEnd(w, c + 1)
        /\ e = 1 => Newlines(w, Len(w)) = c + 1
    BY <1>3, <2>2, <2>6, LineAdded
  <2>8. KeptRows(t, j + 1) = KeptRows(t, j) \cup {j} /\ Cardinality(KeptRows(t, j + 1)) = c + 1
    BY <1>2, <1>5, KeptStep
  <2>9. HasLine(w, c, r)
    BY <1>3, <2>2, <2>6, <2>7, HasLineAdded
  <2>10. ASSUME NEW k \in KeptRows(t, j)
         PROVE  HasLine(w, Cardinality(KeptRows(t, k)), t[k])
    <3>1. k \in 1..EDITOR_ROWS /\ t[k] # <<>>
      BY DEF KeptRows
    <3>2. PICK y \in Nat : y = Cardinality(KeptRows(t, k))
      BY <3>1, KeptStep
    <3>3. PICK x \in Seq(Char) : x = t[k] /\ x # <<>>
      BY <3>1, ElementOfSeq
    <3>4. HasLine(u, y, x)
      BY <1>3, <3>2, <3>3
    <3>5. Places(u, y) # {}
      <4>1. PICK a \in 1..(Len(u) + 1), z \in 0..Len(u) :
               a <= z + 1 /\ Places(u, y) = a..z /\ Len(x) = (z + 1) - a
        BY <3>4 DEF HasLine
      <4>2. Len(x) \in Nat /\ Len(x) # 0 /\ Len(u) \in Nat
        <5>1. Len(u) \in Nat
          BY <1>3
        <5>2. Len(x) \in Nat
          OBVIOUS
        <5>3. Len(x) # 0
          BY <3>3, EmptySeq
        <5> QED
          BY <5>1, <5>2, <5>3
      <4>3. a \in a..z
        BY <4>1, <4>2
      <4> QED
        BY <4>1, <4>3
    <3>6. y < c
      BY <1>3, <3>5 DEF LinesEnd
    <3>7. Len(u) <= Len(w) /\ \A p \in 1..Len(u) : w[p] = u[p]
      <4>1. Len(w) = (Len(u) + Len(r)) + e /\ Len(u) \in Nat /\ Len(r) \in Nat /\ e \in Nat
        BY <1>3, <2>2, <2>6 DEF Adds
      <4> QED
        BY <2>6, <4>1 DEF Adds
    <3>8. HasLine(w, y, x)
      BY <1>3, <2>6, <2>7, <3>4, <3>6, <3>7, HasLineKept
    <3> QED
      BY <3>2, <3>3, <3>8
  <2>11. RowsSaved(w, t, j)
    BY <1>2, <2>1, <2>2, <2>6, <2>7, <2>8, <2>9, <2>10 DEF RowsSaved
  <2> QED
    BY <2>4, <2>11
<1> QED
  BY <1>4, <1>5

\* editor_save_file() saves the rows.
LEMMA SavedHasRows ==
  ASSUME NEW b \in Array, \A y \in Rows : IsString(b, Row(y)), NEW t,
         t = [k \in 1..EDITOR_ROWS |-> CString(b, Row(k - 1))]
  PROVE  t \in Seq(Seq(Char)) /\ Len(t) = EDITOR_ROWS /\ RowsSaved(Saved(b), t, EDITOR_ROWS)
<1> DEFINE N == EDITOR_ROWS
<1>1. N \in Nat /\ N >= 1
  BY CableSizes
<1>2. ASSUME NEW k \in 1..N
      PROVE  /\ t[k] \in Seq(Char) /\ t[k] = CString(b, Row(k - 1))
             /\ SavedRow(b, k - 1) = RowBytes(t, k)
             /\ RowBytes(t, k) \in Seq(Byte)
  <2>1. PICK y \in Rows : y = k - 1
    BY <1>1 DEF Rows
  <2>2. t[k] = CString(b, Row(y))
    BY <2>1
  <2>3. t[k] \in Seq(Char) /\ Len(t[k]) = strlen(b, Row(y))
    BY <2>2, StringOfChars
  <2>4. strlen(b, Row(y)) = 0 <=> t[k] = <<>>
    BY <2>3, EmptySeq
  <2>5. y < EDITOR_ROWS - 1 <=> k < EDITOR_ROWS
    BY <1>1, <2>1
  <2>6. SavedRow(b, y) = RowBytes(t, k)
    BY <2>2, <2>4, <2>5 DEF SavedRow, RowBytes
  <2>7. RowBytes(t, k) \in Seq(Byte)
    <3>1. t[k] \in Seq(Byte)
      BY <2>3, SeqMonotonic DEF Byte
    <3>2. <<Newline>> \in Seq(Byte) /\ <<>> \in Seq(Byte)
      BY DEF Byte
    <3>3. t[k] \o <<Newline>> \in Seq(Byte) /\ t[k] \o <<>> \in Seq(Byte)
      BY <3>1, <3>2, Joined
    <3> QED
      BY <3>2, <3>3 DEF RowBytes
  <2> QED
    BY <2>1, <2>2, <2>3, <2>6, <2>7
<1>3. t \in Seq(Seq(Char)) /\ Len(t) = N
  <2>1. \A k \in 1..N : CString(b, Row(k - 1)) \in Seq(Char)
    BY <1>2
  <2> QED
    BY <1>1, <2>1
<1>4. PICK q : q = [i \in 1..N |-> RowBytes(t, i)]
  OBVIOUS
<1>5. q \in Seq(Seq(Byte)) /\ Len(q) = N
  BY <1>1, <1>2, <1>4
<1>6. Saved(b) = FlattenSeq(q)
  <2>1. q = [i \in 1..EDITOR_ROWS |-> SavedRow(b, i - 1)]
    BY <1>2, <1>4
  <2> QED
    BY <2>1 DEF Saved
<1>7. PICK f : Flattens(f, q, Byte, Len(q)) /\ FlattenSeq(q) = f[Len(q)]
  BY <1>1, <1>5, FlattenSeqIs
<1>8. f[1] = RowBytes(t, 1) /\ \A i \in 2..N : f[i] = f[i - 1] \o RowBytes(t, i)
  <2>1. 1 \in 1..N /\ \A i \in 2..N : i \in 1..N
    BY <1>1
  <2> QED
    BY <1>4, <1>5, <1>7, <2>1 DEF Flattens
<1>9. ASSUME NEW n \in 1..N, ~RowsSaved(f[n], t, n)
      PROVE  FALSE
  <2> DEFINE S == {i \in 1..N : ~RowsSaved(f[i], t, i)}
  <2>1. S \in SUBSET Nat /\ S # {}
    BY <1>1, <1>9
  <2>2. PICK j \in S : \A i \in S : j <= i
    <3> HIDE DEF S
    <3> QED
      BY <2>1, LeastNat
  <2>3. CASE j = 1
    <3>1. RowsSaved(<<>>, t, 0)
      <4>1. 1 \in 1..EDITOR_ROWS /\ 0 + 1 = 1
        BY <1>1
      <4>2. KeptRows(t, 0 + 1) = {} /\ Cardinality(KeptRows(t, 0 + 1)) = 0
        BY <4>1, KeptStep
      <4>3. Newlines(<<>>, Len(<<>>)) = 0
        <5>1. Len(<<>>) = 0
          OBVIOUS
        <5>2. PICK z \in Nat : z = 0
          OBVIOUS
        <5>3. Newlines(<<>>, 0) = 0
          BY <5>2, NewlinesStep
        <5> QED
          BY <5>1, <5>3
      <4>4. LinesEnd(<<>>, 0)
        <5>1. 1..Len(<<>>) = {}
          OBVIOUS
        <5> QED
          BY <5>1 DEF LinesEnd, Places
      <4>5. <<>> \in Seq(Byte)
        OBVIOUS
      <4> QED
        BY <4>2, <4>3, <4>4, <4>5 DEF RowsSaved
    <3>2. PICK i \in Nat : i = 0
      OBVIOUS
    <3>3. RowsSaved(<<>> \o RowBytes(t, j), t, j)
      <4>1. j = i + 1 /\ j \in 1..EDITOR_ROWS
        BY <1>1, <2>3, <3>2
      <4>2. PICK u : u = <<>>
        OBVIOUS
      <4>3. RowsSaved(u, t, i)
        BY <3>1, <3>2, <4>2
      <4>4. RowsSaved(u \o RowBytes(t, j), t, j)
        BY <1>3, <4>1, <4>3, RowsSavedStep
      <4> QED
        BY <4>2, <4>4
    <3>4. <<>> \o RowBytes(t, j) = RowBytes(t, j)
      BY <1>2, ConcatEmptySeq
    <3> QED
      BY <1>8, <2>3, <3>3, <3>4
  <2>4. CASE j # 1
    <3>1. PICK i \in Nat : j = i + 1 /\ i \in 1..N /\ j \in 2..N /\ j - 1 = i
      <4>1. j - 1 \in Nat /\ j = (j - 1) + 1 /\ j - 1 \in 1..N /\ j \in 2..N
        BY <1>1, <2>4
      <4> QED
        BY <4>1
    <3>2. RowsSaved(f[i], t, i)
      BY <2>2, <3>1
    <3>3. RowsSaved(f[i] \o RowBytes(t, j), t, j)
      BY <1>3, <3>1, <3>2, RowsSavedStep
    <3> QED
      BY <1>8, <3>1, <3>3
  <2> QED
    BY <2>3, <2>4
<1>10. RowsSaved(f[N], t, N)
  <2>1. N \in 1..N
    BY <1>1
  <2> QED
    BY <1>9, <2>1
<1> QED
  BY <1>3, <1>5, <1>6, <1>7, <1>10

\* So they load as they were.
LEMMA SavedLoads ==
  ASSUME NEW b \in Array,
         \A y \in Rows : IsString(b, Row(y)) /\ strlen(b, Row(y)) < EDITOR_COLS, NEW t,
         t = [k \in 1..EDITOR_ROWS |-> CString(b, Row(k - 1))]
  PROVE  LoadsAs(Saved(b), t)
<1> DEFINE d == Loaded(Saved(b)).b
           c == Cardinality(KeptRows(t, EDITOR_ROWS + 1))
<1>1. EDITOR_ROWS \in Nat /\ EDITOR_COLS \in Nat /\ EDITOR_ROWS >= 1
  BY CableSizes
<1>2. PICK s : s = Saved(b)
  OBVIOUS
<1>3. t \in Seq(Seq(Char)) /\ Len(t) = EDITOR_ROWS /\ RowsSaved(s, t, EDITOR_ROWS)
  BY <1>2, SavedHasRows
<1>4. /\ s \in Seq(Byte) /\ LinesEnd(s, c)
      /\ \A k \in KeptRows(t, EDITOR_ROWS + 1) : HasLine(s, Cardinality(KeptRows(t, k)), t[k])
  BY <1>3 DEF RowsSaved
<1>5. \A y \in Rows : LineDone(d, y, s)
  BY <1>2, <1>4, LoadedRows
<1> HIDE DEF d
<1>6. ASSUME NEW y \in Rows
      PROVE  CString(d, Row(y)) = Line(s, y + 1)
  BY <1>5, HoldsString DEF LineDone
<1>7. ASSUME NEW k \in KeptRows(t, EDITOR_ROWS + 1)
      PROVE  CString(d, Row(Cardinality(KeptRows(t, k)))) = t[k]
  <2>1. k \in 1..EDITOR_ROWS
    BY DEF KeptRows
  <2>2. PICK y \in Nat : y = Cardinality(KeptRows(t, k))
    BY <2>1, KeptStep
  <2>3. y \in Rows
    <3>1. KeptRows(t, k) \in SUBSET (1..(k - 1)) /\ k - 1 \in Nat /\ k - 1 < EDITOR_ROWS
      BY <1>1, <2>1 DEF KeptRows
    <3>2. IsFiniteSet(1..(k - 1)) /\ Cardinality(1..(k - 1)) = k - 1
      <4>1. PICK l \in Nat : l = k - 1
        BY <3>1
      <4>2. IsFiniteSet(1..l) /\ Cardinality(1..l) = IF 1 > l THEN 0 ELSE (l - 1) + 1
        BY FS_Interval
      <4> QED
        BY <4>1, <4>2
    <3>3. y <= k - 1
      BY <2>2, <3>1, <3>2, FS_Subset
    <3> QED
      BY <1>1, <3>1, <3>3 DEF Rows
  <2>4. PICK r \in Seq(Char) : r = t[k]
    BY <1>3, <2>1, ElementOfSeq
  <2>5. Len(r) <= EDITOR_COLS - 1
    <3>1. PICK z \in Rows : z = k - 1
      BY <1>1, <2>1 DEF Rows
    <3>2. r = CString(b, Row(z))
      BY <2>1, <2>4, <3>1
    <3>3. Len(r) = strlen(b, Row(z))
      BY <3>2, StringOfChars
    <3> QED
      BY <1>1, <3>3
  <2>6. HasLine(s, y, r)
    BY <1>4, <2>2, <2>4
  <2>7. Line(s, y + 1) = r
    BY <1>4, <2>5, <2>6, HasLineIs
  <2> QED
    BY <1>6, <2>2, <2>3, <2>4, <2>7
<1>8. ASSUME NEW y \in Rows, y >= c
      PROVE  CString(d, Row(y)) = <<>>
  <2>1. y \in Nat
    BY <1>1 DEF Rows
  <2>2. Places(s, y) = {}
    BY <1>4, <1>8, <2>1 DEF LinesEnd
  <2>3. Line(s, y + 1) = <<>>
    <3>1. (y + 1) - 1 = y
      BY <2>1
    <3> QED
      BY <2>2, <3>1 DEF Line, Places, Newlines
  <2> QED
    BY <1>6, <2>3
<1> QED
  BY <1>2, <1>7, <1>8 DEF LoadsAs, KeptRows, d

-----------------------------------------------------------------------------
(* Theorems                                                                *)

\* The editor keeps its state inside its array and its file a sequence of
\* bytes, its rows padded with zeros, and, while nothing unexpected happened,
\* the expected text in them: for every key and every file that
\* editor_process_keypress() and editor_init() may meet.
THEOREM CableInvariance == CableSpec => []CableInv
<1>1. CableInv /\ [CableNext]_cablevars => CableInv'
  BY StepInv
<1> QED
  BY InitInv, <1>1, PTL DEF CableSpec

\* Inside a row no character follows a terminator, whatever was inserted,
\* deleted, joined or loaded; editor_insert_char() relies on it.
THEOREM RowsCorrect == CableSpec => []RowsAreZeroPadded
<1>1. CableInv => RowsAreZeroPadded
  BY DEF CableInv
<1> QED
  BY <1>1, CableInvariance, PTL

\* After any sequence of keys the rows hold what was loaded and typed, each
\* character where the cursor was, as long as no row is filled to its last
\* byte.
THEOREM TextCorrect == CableSpec => []TextIsKept
<1>1. CableInv => TextIsKept
  <2> SUFFICES ASSUME CableInv, mode = "edit", text # NothingExpected, NEW y \in Rows
               PROVE  IsString(buffer, Row(y)) /\ CString(buffer, Row(y)) = text[y + 1]
    BY DEF TextIsKept
  <2>1. /\ text \in Seq(Seq(Char)) /\ Len(text) = EDITOR_ROWS
        /\ Holds(buffer, y, text[y + 1])
    BY DEF CableInv, RowsHoldText
  <2>2. PICK k \in Nat : k = y + 1 /\ k \in 1..EDITOR_ROWS
    BY CableSizes DEF Rows
  <2>3. text[k] \in Seq(Char)
    BY <2>1, <2>2, ElementOfSeq
  <2> QED
    BY <2>1, <2>2, <2>3, HoldsString
<1> QED
  BY <1>1, CableInvariance, PTL

\* While a file is open no key changes the buffer and leaves dirty clear, in
\* editor_insert_char() or editor_delete_char().
THEOREM EditsAreMarked == CableSpec => NoSilentEdit
<1> DEFINE A == mode = "edit" /\ mode' = "edit" /\ buffer' # buffer => dirty'
<1>1. [CableNext]_cablevars => [A]_cablevars
  <2> SUFFICES ASSUME CableNext, mode = "edit", mode' = "edit", buffer' # buffer
               PROVE  dirty'
    BY DEF cablevars
  <2>1. ~editor_init /\ ~ShellCommand /\ ~Restart
    BY DEF editor_init, ShellCommand, Restart
  <2>2. ~editor_save_file /\ ~Quit /\ ~Up /\ ~Down /\ ~Left /\ ~Right /\ ~Enter
    BY DEF editor_save_file, Quit, Up, Down, Left, Right, Enter, MoveTo, GoAstray
  <2>3. Backspace => dirty'
    BY DEF Backspace, editor_delete_char, DeleteInRow, JoinRows, GoAstray
  <2>4. \A c \in Char : Type(c) => dirty'
    BY DEF Type, editor_insert_char, GoAstray
  <2> QED
    BY <2>1, <2>2, <2>3, <2>4 DEF CableNext, editor_process_keypress
<1> QED
  BY <1>1, PTL DEF CableSpec, NoSilentEdit

\* A save, through the program it assembles and the interpreter that runs it,
\* leaves in the file what the next session loads as the rows on the screen,
\* blank ones gone, provided no row is full; or it leaves the file alone, and
\* then the file is missing or has to grow.
THEOREM SavesReachTheFile == CableSpec => SaveReachesTheFile
<1> DEFINE A == mode = "edit" /\ mode' = "edit" /\ dirty /\ ~dirty' =>
                  \/ \E y \in Rows : strlen(buffer, Row(y)) >= EDITOR_COLS
                  \/ LoadsAs(file', RowTexts)
                  \/ file' = file /\ (exists => Sectors(Len(Saved(buffer))) > Sectors(Len(file)))
<1>1. CableInv /\ [CableNext]_cablevars => [A]_cablevars
  <2> SUFFICES ASSUME CableInv, CableNext, mode = "edit", mode' = "edit", dirty, ~dirty',
                      \A y \in Rows : ~(strlen(buffer, Row(y)) >= EDITOR_COLS)
               PROVE  \/ LoadsAs(file', RowTexts)
                      \/ file' = file
                         /\ (exists => Sectors(Len(Saved(buffer))) > Sectors(Len(file)))
    BY DEF cablevars
  <2>1. editor_save_file
    <3>1. ~editor_init /\ ~ShellCommand /\ ~Restart
      BY DEF editor_init, ShellCommand, Restart
    <3>2. ~Quit /\ ~Up /\ ~Down /\ ~Left /\ ~Right /\ ~Enter
      BY DEF Quit, Up, Down, Left, Right, Enter, MoveTo, GoAstray
    <3>3. ~Backspace
      BY DEF Backspace, editor_delete_char, DeleteInRow, JoinRows, GoAstray
    <3>4. \A c \in Char : ~Type(c)
      BY DEF Type, editor_insert_char, GoAstray
    <3> QED
      BY <3>1, <3>2, <3>3, <3>4 DEF CableNext, editor_process_keypress
  <2>2. SaveFits(buffer) /\ syscall_write(Saved(buffer))
    BY <2>1 DEF editor_save_file, GoAstray
  <2>3. buffer \in Array
    BY InvMeans
  <2>4. Saved(buffer) \in Seq(Byte)
    BY <2>2, <2>3, SavedBytes DEF SaveFits
  <2>5. bdfs_write_file(Saved(buffer))
    BY <2>2, <2>4, SaveWrites DEF SaveFits
  <2>6. CASE file' = Saved(buffer)
    <3>1. \A y \in Rows : IsString(buffer, Row(y)) /\ strlen(buffer, Row(y)) < EDITOR_COLS
      <4> SUFFICES ASSUME NEW y \in Rows
                   PROVE  IsString(buffer, Row(y)) /\ strlen(buffer, Row(y)) < EDITOR_COLS
        OBVIOUS
      <4>1. IsString(buffer, Row(y)) /\ Row(y) \in Nat
        BY <2>2, RowFacts DEF SaveFits
      <4>2. strlen(buffer, Row(y)) \in Nat /\ EDITOR_COLS \in Nat
        BY <4>1, StrlenResult, CableSizes
      <4> QED
        BY <4>1, <4>2
    <3>2. LoadsAs(Saved(buffer), RowTexts)
      BY <2>3, <3>1, SavedLoads DEF RowTexts
    <3> QED
      BY <2>6, <3>2
  <2>7. CASE file' = file /\ (exists => Sectors(Len(Saved(buffer))) > Sectors(Len(file)))
    BY <2>7
  <2> QED
    BY <2>5, <2>6, <2>7 DEF bdfs_write_file
<1> QED
  BY <1>1, CableInvariance, PTL DEF CableSpec, SaveReachesTheFile

=============================================================================
