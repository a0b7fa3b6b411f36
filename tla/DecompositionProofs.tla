------------------------ MODULE DecompositionProofs -------------------------
(***************************************************************************)
(* Proofs about Decomposition, for any launch that divides its grid: where *)
(* the cells of a block are, which of them are inside, ghost cells or      *)
(* outside of the domain, and which block is behind each face. The proofs  *)
(* about the Jacobi solver (JacobiProofs) know the geometry only through   *)
(* these lemmas.                                                           *)
(***************************************************************************)
EXTENDS JacobiGrid, TLAPS

\* A launch whose processes and blocks divide the grid: the one that is solved.
Decomposed(g) == g \in Geometries /\ D(g)!Divisible

\* A block has a position along each of the three axes.
LEMMA LocalPosition ==
  ASSUME NEW g \in Geometries, NEW l \in D(g)!Local
  PROVE  /\ \A a \in 1..3 : l[a] \in 0..(g.lt[a] - 1)
         /\ l = <<l[1], l[2], l[3]>>
BY GeometryAssumption
DEF D!Local, D!Box, D!Below, D!lt, D!Origin, D!X, D!Y, D!Z, D!Axis

\* A block is at least as thick as the ghost layer: what ThicknessAssumption asks.
LEMMA BlockSize ==
  ASSUME NEW g, Decomposed(g)
  PROVE  \A a \in 1..3 : /\ D(g)!ls[a] \in Nat \ {0}
                         /\ GhostDepth <= D(g)!ls[a]
<1> SUFFICES ASSUME NEW a \in 1..3 PROVE D(g)!ls[a] \in Nat \ {0} /\ GhostDepth <= D(g)!ls[a]
  OBVIOUS
<1>1. GhostDepth <= D(g)!ls[a]
  BY ThicknessAssumption DEF Decomposed
<1>2. g.N \in Nat /\ g.pt[a] \in Nat \ {0} /\ g.lt[a] \in Nat \ {0}
  BY GeometryAssumption DEF Decomposed
<1>3. D(g)!ls[a] = (g.N \div g.pt[a]) \div g.lt[a]
  BY DEF D!ls, D!ps, D!N, D!pt, D!lt, D!Axis, D!X, D!Y, D!Z
<1>4. D(g)!ls[a] \in Int
  BY <1>2, <1>3
<1> QED
  BY <1>1, <1>4, GhostDepthAssumption

\* Multiples of s are at least s apart.
LEMMA Monotone ==
  ASSUME NEW s \in Nat, NEW x \in Nat, NEW y \in Nat, x < y
  PROVE  s * x + s <= s * y
OBVIOUS

-----------------------------------------------------------------------------
\* Blocks: their cells, and what the update of a cell reads.

\* Where the cells of a block are, axis by axis.
LEMMA InsideCell ==
  ASSUME NEW g, Decomposed(g), NEW l \in D(g)!Local, NEW c \in D(g)!Inside(l)
  PROVE  /\ c \in Int \X Int \X Int
         /\ \A a \in 1..3 :
              /\ c[a] >= D(g)!ls[a] * l[a] + GhostDepth
              /\ c[a] < D(g)!ls[a] * l[a] + GhostDepth + D(g)!ls[a]
<1> DEFINE lo(a) == D(g)!ls[a] * l[a] + GhostDepth
<1>1. \A a \in 1..3 : lo(a) \in Int /\ D(g)!ls[a] \in Nat
  BY BlockSize, LocalPosition, GeometryAssumption, GhostDepthAssumption DEF Decomposed
<1>2. \A a \in 1..3 : /\ D(g)!lStart(l)[a] = lo(a)
                      /\ D(g)!Below(D(g)!lEnd(l))[a] = lo(a) + D(g)!ls[a] - 1
  <2> HIDE DEF lo
  <2>1. \A a \in 1..3 : D(g)!lStart(l)[a] = lo(a)
    BY DEF D!lStart, D!Axis, D!X, D!Y, D!Z, lo
  <2>2. \A a \in 1..3 : D(g)!lEnd(l)[a] = lo(a) + D(g)!ls[a]
    BY <2>1 DEF D!lEnd, D!Axis, D!X, D!Y, D!Z
  <2>3. \A a \in 1..3 : D(g)!Below(D(g)!lEnd(l))[a] = D(g)!lEnd(l)[a] - 1
    BY DEF D!Below, D!Axis, D!X, D!Y, D!Z
  <2> QED
    BY <1>1, <2>1, <2>2, <2>3
<1>3. c \in (lo(1)..(lo(1) + D(g)!ls[1] - 1)) \X (lo(2)..(lo(2) + D(g)!ls[2] - 1))
            \X (lo(3)..(lo(3) + D(g)!ls[3] - 1))
  BY <1>2 DEF D!Inside, D!Box, D!X, D!Y, D!Z
<1> HIDE DEF lo
<1>4. /\ c \in Int \X Int \X Int
      /\ \A a \in 1..3 : c[a] \in lo(a)..(lo(a) + D(g)!ls[a] - 1)
  BY <1>1, <1>3
<1>5. ASSUME NEW a \in 1..3 PROVE c[a] >= lo(a) /\ c[a] < lo(a) + D(g)!ls[a]
  <2>1. c[a] \in lo(a)..(lo(a) + D(g)!ls[a] - 1) /\ lo(a) \in Int /\ D(g)!ls[a] \in Nat
    BY <1>1, <1>4
  <2> QED
    BY <2>1
<1> QED
  BY <1>4, <1>5 DEF lo

\* Along one axis a coordinate is in the interval of one block.
LEMMA OneBlockPerInterval ==
  ASSUME NEW s \in Nat, NEW n \in Nat, NEW x \in Nat, NEW y \in Nat, NEW v \in Int,
         v >= s * x + n, v < s * x + n + s, v >= s * y + n, v < s * y + n + s
  PROVE  x = y
<1>1. CASE x < y
  BY <1>1, Monotone, s * x \in Int, s * y \in Int
<1>2. CASE y < x
  BY <1>2, Monotone, s * x \in Int, s * y \in Int
<1> QED
  BY <1>1, <1>2

\* The blocks of a process share no cell.
LEMMA BlocksApart ==
  ASSUME NEW g, Decomposed(g), NEW l \in D(g)!Local, NEW m \in D(g)!Local,
         NEW c \in D(g)!Inside(l), c \in D(g)!Inside(m)
  PROVE  l = m
<1>1. \A a \in 1..3 : l[a] = m[a]
  <2> SUFFICES ASSUME NEW a \in 1..3 PROVE l[a] = m[a]
    OBVIOUS
  <2>1. /\ D(g)!ls[a] \in Nat /\ l[a] \in Nat /\ m[a] \in Nat /\ GhostDepth \in Nat
    BY BlockSize, LocalPosition, GeometryAssumption, GhostDepthAssumption DEF Decomposed
  <2>2. c[a] \in Int
    BY InsideCell
  <2>3. /\ c[a] >= D(g)!ls[a] * l[a] + GhostDepth
        /\ c[a] < D(g)!ls[a] * l[a] + GhostDepth + D(g)!ls[a]
        /\ c[a] >= D(g)!ls[a] * m[a] + GhostDepth
        /\ c[a] < D(g)!ls[a] * m[a] + GhostDepth + D(g)!ls[a]
    BY InsideCell
  <2> QED
    BY <2>1, <2>2, <2>3, OneBlockPerInterval
<1> QED
  BY <1>1, LocalPosition DEF Decomposed

\* Two coordinates at most a ghost depth apart are in the same or in adjacent intervals.
LEMMA NextInterval ==
  ASSUME NEW s \in Nat, NEW n \in Nat, n <= s, NEW x \in Nat, NEW y \in Nat, x # y,
         NEW v \in Int, NEW w \in Int, v < w, w <= v + n,
         v >= s * x + n, v < s * x + n + s, w >= s * y + n, w < s * y + n + s
  PROVE  y = x + 1
<1>1. s * x \in Int /\ s * y \in Int /\ s * (x + 1) = s * x + s
  OBVIOUS
<1>2. CASE y < x
  BY <1>1, <1>2, Monotone
<1>3. CASE x + 1 < y
  <2>1. s * (x + 1) + s <= s * y
    BY <1>3, Monotone, x + 1 \in Nat
  <2> QED
    BY <1>1, <2>1
<1> QED
  BY <1>2, <1>3

\* The faces of the decomposition are those of the program.
LEMMA FacesAreFaces == ASSUME NEW g PROVE D(g)!Faces = Faces
<1>1. D(g)!Faces = {<<1, 0>>, <<1, 1>>, <<2, 0>>, <<2, 1>>, <<3, 0>>, <<3, 1>>}
  <2>1. 1..6 = {1, 2, 3, 4, 5, 6}
    OBVIOUS
  <2>2. D(g)!Face = << <<1, 0>>, <<1, 1>>, <<2, 0>>, <<2, 1>>, <<3, 0>>, <<3, 1>> >>
    BY DEF D!Face, D!X, D!Y, D!Z
  <2> QED
    BY <2>1, <2>2 DEF D!Faces
<1>2. Faces = {1, 2, 3} \X {0, 1}
  BY DEF Faces
<1> QED
  BY <1>1, <1>2

\* A cell moved along one axis.
LEMMA ShiftedCell ==
  ASSUME NEW g, NEW c \in Int \X Int \X Int, NEW f \in Faces, NEW n \in Int
  PROVE  /\ D(g)!Shift(c, f, n) \in Int \X Int \X Int
         /\ \A a \in 1..3 : D(g)!Shift(c, f, n)[a] =
              IF a # f[1] THEN c[a] ELSE IF f[2] = 0 THEN c[a] - n ELSE c[a] + n
<1>1. f[1] \in {1, 2, 3} /\ f[2] \in {0, 1}
  BY DEF Faces
<1>2. PICK v \in Int : v = IF f[2] = 0 THEN c[f[1]] - n ELSE c[f[1]] + n
  BY <1>1
<1>3. D(g)!Shift(c, f, n) = [c EXCEPT ![f[1]] = v]
  BY <1>2 DEF D!Shift
<1>4. [c EXCEPT ![f[1]] = v] \in Int \X Int \X Int
  BY <1>1
<1>5. \A a \in 1..3 : [c EXCEPT ![f[1]] = v][a] = IF a # f[1] THEN c[a] ELSE v
  BY <1>1
<1> QED
  BY <1>2, <1>3, <1>4, <1>5

\* What the update of a cell reads: the cell, and cells near it on an axis.
LEMMA StencilCell ==
  ASSUME NEW g, NEW c \in Int \X Int \X Int, NEW d \in D(g)!StencilOf(c), d # c
  PROVE  /\ d \in Int \X Int \X Int
         /\ \E f \in Faces, k \in 1..GhostDepth :
              /\ d = D(g)!Shift(c, f, k)
              /\ \A a \in 1..3 : a # f[1] => d[a] = c[a]
              /\ d[f[1]] = IF f[2] = 0 THEN c[f[1]] - k ELSE c[f[1]] + k
<1>1. PICK f \in Faces, k \in 1..GhostDepth : d = D(g)!Shift(c, f, k)
  BY FacesAreFaces DEF D!StencilOf
<1>2. k \in Int /\ f[1] \in 1..3
  BY GhostDepthAssumption DEF Faces
<1> QED
  BY <1>1, <1>2, ShiftedCell

\* A cell that the update of a block reads and that is inside another block:
\* the other block is next to it, and it is next to the other block.
LEMMA NextBlock ==
  ASSUME NEW g, Decomposed(g), NEW l \in D(g)!Local, NEW m \in D(g)!Local, l # m,
         NEW f \in Faces, m[f[1]] = IF f[2] = 0 THEN l[f[1]] - 1 ELSE l[f[1]] + 1,
         \A a \in 1..3 : a # f[1] => m[a] = l[a]
  PROVE  /\ Opposite(f) \in Faces
         /\ l[f[1]] # D(g)!Edge(g.lt, f) /\ m = D(g)!Shift(l, f, 1)
         /\ m[f[1]] # D(g)!Edge(g.lt, Opposite(f)) /\ l = D(g)!Shift(m, Opposite(f), 1)
<1> DEFINE h == Opposite(f)
<1>1. f[1] \in {1, 2, 3} /\ f[2] \in {0, 1} /\ h \in Faces /\ h[1] = f[1] /\ h[2] = 1 - f[2]
  BY DEF Faces, Opposite
<1>2. /\ \A a \in 1..3 : l[a] \in 0..(g.lt[a] - 1) /\ m[a] \in 0..(g.lt[a] - 1) /\ g.lt[a] \in Nat
      /\ l = <<l[1], l[2], l[3]>> /\ m = <<m[1], m[2], m[3]>>
      /\ l \in Int \X Int \X Int /\ m \in Int \X Int \X Int
  <2>1. \A a \in 1..3 : l[a] \in 0..(g.lt[a] - 1) /\ m[a] \in 0..(g.lt[a] - 1) /\ g.lt[a] \in Nat
    BY LocalPosition, GeometryAssumption DEF Decomposed
  <2>2. l = <<l[1], l[2], l[3]>> /\ m = <<m[1], m[2], m[3]>>
    BY LocalPosition DEF Decomposed
  <2>3. \A a \in 1..3 : l[a] \in Int /\ m[a] \in Int
    BY <2>1
  <2> QED
    BY <2>1, <2>2, <2>3
<1>3. l[f[1]] # D(g)!Edge(g.lt, f) /\ m[f[1]] # D(g)!Edge(g.lt, h)
  BY <1>1, <1>2 DEF D!Edge
<1>4. m = D(g)!Shift(l, f, 1)
  <2> DEFINE n == D(g)!Shift(l, f, 1)
  <2>1. n \in Int \X Int \X Int /\ \A a \in 1..3 : n[a] = m[a]
    BY <1>1, <1>2, ShiftedCell
  <2>2. n = <<n[1], n[2], n[3]>>
    BY <2>1
  <2> QED
    BY <1>2, <2>1, <2>2
<1>5. l = D(g)!Shift(m, h, 1)
  <2> DEFINE n == D(g)!Shift(m, h, 1)
  <2>1. n \in Int \X Int \X Int /\ \A a \in 1..3 : n[a] = l[a]
    <3> HIDE DEF h
    <3> QED
      BY <1>1, <1>2, ShiftedCell
  <2>2. n = <<n[1], n[2], n[3]>>
    BY <2>1
  <2> QED
    BY <1>2, <2>1, <2>2
<1> QED
  BY <1>1, <1>3, <1>4, <1>5

\* One axis of BlocksApart.
LEMMA SamePosition ==
  ASSUME NEW g, Decomposed(g), NEW l \in D(g)!Local, NEW m \in D(g)!Local,
         NEW c \in D(g)!Inside(l), NEW d \in D(g)!Inside(m), NEW a \in 1..3, c[a] = d[a]
  PROVE  l[a] = m[a]
<1>1. /\ D(g)!ls[a] \in Nat /\ l[a] \in Nat /\ m[a] \in Nat /\ GhostDepth \in Nat
  BY BlockSize, LocalPosition, GeometryAssumption, GhostDepthAssumption DEF Decomposed
<1>2. c[a] \in Int
  BY InsideCell
<1>3. /\ c[a] >= D(g)!ls[a] * l[a] + GhostDepth
      /\ c[a] < D(g)!ls[a] * l[a] + GhostDepth + D(g)!ls[a]
      /\ c[a] >= D(g)!ls[a] * m[a] + GhostDepth
      /\ c[a] < D(g)!ls[a] * m[a] + GhostDepth + D(g)!ls[a]
  BY InsideCell
<1> QED
  BY <1>1, <1>2, <1>3, OneBlockPerInterval

\* A block reads the cells of another one only across a face the two share, from both sides.
LEMMA NeighborRead ==
  ASSUME NEW g, Decomposed(g), NEW l \in D(g)!Local, NEW m \in D(g)!Local, l # m,
         NEW c \in D(g)!Inside(l), NEW d \in D(g)!StencilOf(c), d \in D(g)!Inside(m)
  PROVE  \E f \in Faces : /\ Opposite(f) \in Faces
                          /\ l[f[1]] # D(g)!Edge(g.lt, f) /\ m = D(g)!Shift(l, f, 1)
                          /\ m[f[1]] # D(g)!Edge(g.lt, Opposite(f)) /\ l = D(g)!Shift(m, Opposite(f), 1)
<1>1. d # c /\ c \in Int \X Int \X Int
  BY BlocksApart, InsideCell
<1>2. PICK f \in Faces, k \in 1..GhostDepth :
        /\ \A a \in 1..3 : a # f[1] => d[a] = c[a]
        /\ d[f[1]] = IF f[2] = 0 THEN c[f[1]] - k ELSE c[f[1]] + k
  BY <1>1, StencilCell
<1>3. \A a \in 1..3 : a # f[1] => m[a] = l[a]
  BY <1>2, SamePosition
<1> DEFINE b == f[1]
           s == D(g)!ls[b]
<1>4. b \in 1..3 /\ f[2] \in {0, 1}
  BY DEF Faces
<1>5. l[b] # m[b]
  BY <1>3, <1>4, LocalPosition DEF Decomposed
<1>6. /\ s \in Nat /\ l[b] \in Nat /\ m[b] \in Nat /\ GhostDepth \in Nat /\ GhostDepth <= s
      /\ k \in 1..GhostDepth /\ c[b] \in Int /\ d[b] \in Int
  BY <1>4, BlockSize, LocalPosition, GeometryAssumption, GhostDepthAssumption, InsideCell DEF Decomposed
<1>7. /\ c[b] >= s * l[b] + GhostDepth /\ c[b] < s * l[b] + GhostDepth + s
      /\ d[b] >= s * m[b] + GhostDepth /\ d[b] < s * m[b] + GhostDepth + s
  BY <1>4, InsideCell
<1>8. m[b] = IF f[2] = 0 THEN l[b] - 1 ELSE l[b] + 1
  <2>1. d[b] = IF f[2] = 0 THEN c[b] - k ELSE c[b] + k
    BY <1>2
  <2> HIDE DEF s, b
  <2>2. CASE f[2] = 0
    <3>1. d[b] < c[b] /\ c[b] <= d[b] + GhostDepth
      BY <2>1, <2>2, <1>6
    <3>2. l[b] = m[b] + 1
      BY <1>5, <1>6, <1>7, <3>1, NextInterval
    <3> QED
      BY <2>2, <3>2, <1>6
  <2>3. CASE f[2] # 0
    <3>1. c[b] < d[b] /\ d[b] <= c[b] + GhostDepth
      BY <2>1, <2>3, <1>6
    <3> QED
      BY <1>5, <1>6, <1>7, <2>3, <3>1, NextInterval
  <2> QED
    BY <2>2, <2>3
<1> QED
  BY <1>3, <1>8, NextBlock

-----------------------------------------------------------------------------
\* Layers: the cells that a message is packed from, or unpacked into.

\* The cells that a message is packed from, or unpacked into.
GhostCell(g, l, f, c) == \E o \in D(g)!Offset(f) : c = D(g)!Plus(D(g)!GhostLayer(l, f), o)

\* The cells that a block sends through a face, and the cell c among them.
OwnCell(g, l, f, c) == \E o \in D(g)!Offset(f) : c = D(g)!Plus(D(g)!OwnLayer(l, f), o)

\* An offset in the layer of a face: the depth along its axis, the face along the others.
LEMMA OffsetCell ==
  ASSUME NEW g, Decomposed(g), NEW f \in Faces, NEW o \in D(g)!Offset(f)
  PROVE  /\ o = <<o[1], o[2], o[3]>>
         /\ \A a \in 1..3 : /\ o[a] \in Int /\ o[a] >= 0
                            /\ o[a] < IF a = f[1] THEN GhostDepth ELSE D(g)!ls[a]
<1> DEFINE e == [D(g)!ls EXCEPT ![f[1]] = GhostDepth]
<1>1. \A a \in 1..3 : e[a] = (IF a = f[1] THEN GhostDepth ELSE D(g)!ls[a]) /\ e[a] \in Int
  <2>1. D(g)!ls = [a \in 1..3 |-> D(g)!ls[a]]
    BY D(g)!Axis = 1..3 DEF D!ls, D!Axis, D!X, D!Y, D!Z
  <2>2. \A a \in 1..3 : D(g)!ls[a] \in Int /\ GhostDepth \in Int
    BY BlockSize, GhostDepthAssumption
  <2>3. f[1] \in 1..3
    BY DEF Faces
  <2>4. \A a \in 1..3 : e[a] = (IF a = f[1] THEN GhostDepth ELSE D(g)!ls[a])
    BY <2>1, <2>3
  <2> QED
    BY <2>2, <2>4
<1>2. /\ \A a \in 1..3 : D(g)!Below(e)[a] = e[a] - 1
      /\ \A a \in 1..3 : D(g)!Origin[a] = 0
  <2>1. \A a \in 1..3 : D(g)!Below(e)[a] = e[a] - 1
    BY DEF D!Below, D!Axis, D!X, D!Y, D!Z
  <2>2. \A a \in 1..3 : D(g)!Origin[a] = 0
    BY DEF D!Origin
  <2> QED
    BY <2>1, <2>2
<1>3. D(g)!Offset(f) = D(g)!Box(D(g)!Origin, D(g)!Below(e))
  BY DEF D!Offset
<1> HIDE DEF e
<1>4. o \in (0..(e[1] - 1)) \X (0..(e[2] - 1)) \X (0..(e[3] - 1))
  BY <1>2, <1>3 DEF D!Box, D!X, D!Y, D!Z
<1>5. o = <<o[1], o[2], o[3]>> /\ \A a \in 1..3 : o[a] \in 0..(e[a] - 1)
  BY <1>4
<1>6. \A a \in 1..3 : o[a] \in Int /\ o[a] >= 0 /\ o[a] < e[a]
  BY <1>1, <1>5
<1> QED
  BY <1>1, <1>5, <1>6

\* Where a ghost cell of a block is: beside the block along its face, outside of it across.
LEMMA LayerCell ==
  ASSUME NEW g, Decomposed(g), NEW l \in D(g)!Local, NEW f \in Faces, NEW c,
         GhostCell(g, l, f, c)
  PROVE  /\ c \in Int \X Int \X Int
         /\ \A a \in 1..3 : a # f[1] =>
              /\ c[a] >= D(g)!ls[a] * l[a] + GhostDepth
              /\ c[a] < D(g)!ls[a] * l[a] + GhostDepth + D(g)!ls[a]
         /\ f[2] = 0 => c[f[1]] >= 0 /\ c[f[1]] < GhostDepth
         /\ f[2] = 1 => c[f[1]] >= D(g)!ls[f[1]] * l[f[1]] + GhostDepth + D(g)!ls[f[1]]
<1>1. PICK o \in D(g)!Offset(f) : c = D(g)!Plus(D(g)!GhostLayer(l, f), o)
  BY DEF GhostCell
<1> DEFINE lo(a) == D(g)!ls[a] * l[a] + GhostDepth
           at(a) == IF a # f[1] THEN lo(a) ELSE IF f[2] = 0 THEN 0 ELSE lo(a) + D(g)!ls[a]
<1>2. \A a \in 1..3 : lo(a) \in Int /\ D(g)!ls[a] \in Int /\ at(a) \in Int
  BY BlockSize, LocalPosition, GeometryAssumption, GhostDepthAssumption DEF Decomposed
<1>3. f[1] \in 1..3 /\ f[2] \in {0, 1}
  BY DEF Faces
<1>4. \A a \in 1..3 : D(g)!GhostLayer(l, f)[a] = at(a)
  <2>1. D(g)!Axis = 1..3
    BY DEF D!Axis, D!X, D!Y, D!Z
  <2>2. D(g)!lStart(l) = [a \in 1..3 |-> lo(a)]
    BY <2>1 DEF D!lStart
  <2>3. D(g)!lEnd(l)[f[1]] = lo(f[1]) + D(g)!ls[f[1]]
    BY <1>3, <2>1, <2>2 DEF D!lEnd
  <2> HIDE DEF lo
  <2> QED
    BY <1>3, <2>2, <2>3 DEF D!GhostLayer
<1> HIDE DEF at
<1>5. c = <<at(1) + o[1], at(2) + o[2], at(3) + o[3]>>
  BY <1>1, <1>4 DEF D!Plus, D!X, D!Y, D!Z
<1>6. \A a \in 1..3 : /\ c[a] = at(a) + o[a] /\ o[a] \in Int /\ o[a] >= 0
                      /\ o[a] < IF a = f[1] THEN GhostDepth ELSE D(g)!ls[a]
  BY <1>5, OffsetCell
<1>7. c \in Int \X Int \X Int
  BY <1>2, <1>5, <1>6
<1> HIDE DEF lo
<1>8. ASSUME NEW a \in 1..3, a # f[1] PROVE c[a] >= lo(a) /\ c[a] < lo(a) + D(g)!ls[a]
  BY <1>2, <1>6, <1>8 DEF at
<1>9. f[2] = 0 => c[f[1]] >= 0 /\ c[f[1]] < GhostDepth
  BY <1>2, <1>3, <1>6, GhostDepthAssumption DEF at
<1>10. f[2] = 1 => c[f[1]] >= lo(f[1]) + D(g)!ls[f[1]]
  BY <1>2, <1>3, <1>6 DEF at
<1> QED
  BY <1>7, <1>8, <1>9, <1>10 DEF lo

\* What a block sends are cells of its own.
LEMMA OwnCellInside ==
  ASSUME NEW g, Decomposed(g), NEW l \in D(g)!Local, NEW f \in Faces, NEW c,
         OwnCell(g, l, f, c)
  PROVE  c \in D(g)!Inside(l)
<1>1. PICK o \in D(g)!Offset(f) : c = D(g)!Plus(D(g)!OwnLayer(l, f), o)
  BY DEF OwnCell
<1> DEFINE lo(a) == D(g)!ls[a] * l[a] + GhostDepth
           at(a) == IF a = f[1] /\ f[2] = 1 THEN lo(a) + D(g)!ls[a] - GhostDepth ELSE lo(a)
<1>2. \A a \in 1..3 : /\ lo(a) \in Int /\ D(g)!ls[a] \in Int /\ at(a) \in Int
                      /\ GhostDepth <= D(g)!ls[a] /\ GhostDepth \in Nat
  BY BlockSize, LocalPosition, GeometryAssumption, GhostDepthAssumption DEF Decomposed
<1>3. f[1] \in 1..3 /\ f[2] \in {0, 1}
  BY DEF Faces
<1>4. D(g)!Axis = 1..3
  BY DEF D!Axis, D!X, D!Y, D!Z
<1>5. D(g)!lStart(l) = [a \in 1..3 |-> lo(a)]
  BY <1>4 DEF D!lStart
<1>6. \A a \in 1..3 : D(g)!lEnd(l)[a] = lo(a) + D(g)!ls[a]
  BY <1>4, <1>5 DEF D!lEnd
<1>7. \A a \in 1..3 : D(g)!OwnLayer(l, f)[a] = at(a)
  <2> HIDE DEF lo
  <2> QED
    BY <1>2, <1>3, <1>5, <1>6 DEF D!OwnLayer
<1> HIDE DEF at
<1>8. c = <<at(1) + o[1], at(2) + o[2], at(3) + o[3]>>
  BY <1>1, <1>7 DEF D!Plus, D!X, D!Y, D!Z
<1>9. \A a \in 1..3 : /\ c[a] = at(a) + o[a] /\ o[a] \in Int /\ o[a] >= 0
                      /\ o[a] < IF a = f[1] THEN GhostDepth ELSE D(g)!ls[a]
  BY <1>8, OffsetCell
<1> HIDE DEF lo
<1>10. ASSUME NEW a \in 1..3 PROVE c[a] \in lo(a)..(lo(a) + D(g)!ls[a] - 1)
  <2>1. c[a] >= lo(a) /\ c[a] < lo(a) + D(g)!ls[a] /\ c[a] \in Int
    BY <1>2, <1>9, <1>3 DEF at
  <2> QED
    BY <2>1, <1>2
<1>11. \A a \in 1..3 : D(g)!Below(D(g)!lEnd(l))[a] = lo(a) + D(g)!ls[a] - 1
  BY <1>2, <1>4, <1>6 DEF D!Below
<1>12. c \in (lo(1)..(lo(1) + D(g)!ls[1] - 1)) \X (lo(2)..(lo(2) + D(g)!ls[2] - 1))
             \X (lo(3)..(lo(3) + D(g)!ls[3] - 1))
  <2>1. c = <<c[1], c[2], c[3]>>
    BY <1>8
  <2> QED
    BY <2>1, <1>10
<1> QED
  BY <1>11, <1>12, <1>5 DEF D!Inside, D!Box, D!X, D!Y, D!Z

\* The block is the last one of its process behind this face.
AtEdge(g, l, f) == l[f[1]] = D(g)!Edge(g.lt, f)

\* The ghost cells of a block at the edge of its process are beyond all blocks.
LEMMA GhostBeyond ==
  ASSUME NEW g, Decomposed(g), NEW l \in D(g)!Local, NEW f \in Faces, AtEdge(g, l, f),
         NEW c, GhostCell(g, l, f, c), NEW m \in D(g)!Local, NEW v \in Int,
         v >= D(g)!ls[f[1]] * m[f[1]] + GhostDepth,
         v < D(g)!ls[f[1]] * m[f[1]] + GhostDepth + D(g)!ls[f[1]]
  PROVE  c[f[1]] # v
<1> DEFINE a == f[1]
           s == D(g)!ls[a]
<1>1. a \in 1..3 /\ f[2] \in {0, 1}
  BY DEF Faces
<1>2. /\ s \in Nat /\ l[a] \in Nat /\ m[a] \in 0..(g.lt[a] - 1) /\ g.lt[a] \in Nat /\ GhostDepth \in Nat
      /\ c[a] \in Int
  BY <1>1, BlockSize, LocalPosition, GeometryAssumption, GhostDepthAssumption, LayerCell
  DEF Decomposed
<1>3. v >= s * m[a] + GhostDepth /\ v < s * m[a] + GhostDepth + s
  OBVIOUS
<1>4. CASE f[2] = 0
  <2>1. c[a] < GhostDepth
    BY <1>4, LayerCell
  <2>2. s * m[a] >= 0
    BY <1>2
  <2> HIDE DEF s, a
  <2> QED
    BY <1>2, <1>3, <2>1, <2>2 DEF a
<1>5. CASE f[2] = 1
  <2>1. c[a] >= s * l[a] + GhostDepth + s
    BY <1>5, LayerCell
  <2>2. l[a] = g.lt[a] - 1
    BY <1>5 DEF AtEdge, D!Edge
  <2>3. s * m[a] <= s * l[a]
    <3> HIDE DEF s
    <3>1. CASE m[a] = l[a]
      BY <1>2, <3>1
    <3>2. CASE m[a] < l[a]
      <4>1. s * m[a] + s <= s * l[a] /\ s * m[a] \in Int /\ s * l[a] \in Int
        BY <1>2, <3>2, Monotone
      <4> QED
        BY <1>2, <4>1
    <3> QED
      BY <1>2, <2>2, <3>1, <3>2
  <2>4. s * m[a] \in Int /\ s * l[a] \in Int
    BY <1>2
  <2> HIDE DEF s, a
  <2> QED
    BY <1>2, <1>3, <2>1, <2>3, <2>4 DEF a
<1> QED
  BY <1>1, <1>4, <1>5

\* Such a ghost cell is inside no block of the process.
LEMMA GhostNotInside ==
  ASSUME NEW g, Decomposed(g), NEW l \in D(g)!Local, NEW f \in Faces, AtEdge(g, l, f),
         NEW c, GhostCell(g, l, f, c), NEW m \in D(g)!Local, NEW d \in D(g)!Inside(m)
  PROVE  c[f[1]] # d[f[1]]
<1>1. f[1] \in 1..3
  BY DEF Faces
<1>2. d[f[1]] \in Int
  BY <1>1, InsideCell
<1> QED
  BY <1>1, <1>2, InsideCell, GhostBeyond

\* Of the blocks of a process only one reads a ghost cell beyond its edge.
LEMMA GhostRead ==
  ASSUME NEW g, Decomposed(g), NEW l \in D(g)!Local, NEW m \in D(g)!Local,
         NEW f \in Faces, AtEdge(g, m, f), NEW c \in D(g)!Inside(l),
         NEW d \in D(g)!StencilOf(c), GhostCell(g, m, f, d)
  PROVE  l = m
<1>1. c \in Int \X Int \X Int /\ d \in Int \X Int \X Int /\ d[f[1]] # c[f[1]]
  BY InsideCell, LayerCell, GhostNotInside
<1>2. PICK h \in Faces, k \in 1..GhostDepth :
        /\ \A a \in 1..3 : a # h[1] => d[a] = c[a]
        /\ d[h[1]] = IF h[2] = 0 THEN c[h[1]] - k ELSE c[h[1]] + k
  BY <1>1, StencilCell
<1> DEFINE b == f[1]
           s == D(g)!ls[b]
<1>3. h[1] = b /\ b \in 1..3 /\ f[2] \in {0, 1} /\ h[2] \in {0, 1}
  BY <1>1, <1>2 DEF Faces
<1>4. \A a \in 1..3 : a # b => l[a] = m[a]
  <2> SUFFICES ASSUME NEW a \in 1..3, a # b PROVE l[a] = m[a]
    OBVIOUS
  <2>1. /\ D(g)!ls[a] \in Nat /\ l[a] \in Nat /\ m[a] \in Nat /\ GhostDepth \in Nat
    BY BlockSize, LocalPosition, GeometryAssumption, GhostDepthAssumption DEF Decomposed
  <2>2. c[a] \in Int
    BY InsideCell
  <2>3. /\ c[a] >= D(g)!ls[a] * l[a] + GhostDepth
        /\ c[a] < D(g)!ls[a] * l[a] + GhostDepth + D(g)!ls[a]
    BY InsideCell
  <2>4. /\ c[a] >= D(g)!ls[a] * m[a] + GhostDepth
        /\ c[a] < D(g)!ls[a] * m[a] + GhostDepth + D(g)!ls[a]
    BY <1>2, <1>3, LayerCell
  <2> QED
    BY <2>1, <2>2, <2>3, <2>4, OneBlockPerInterval
<1>5. l[b] = m[b]
  <2>1. /\ s \in Nat /\ l[b] \in 0..(g.lt[b] - 1) /\ m[b] \in 0..(g.lt[b] - 1) /\ g.lt[b] \in Nat
        /\ GhostDepth \in Nat /\ GhostDepth <= s /\ k \in 1..GhostDepth /\ c[b] \in Int /\ d[b] \in Int
    BY <1>1, <1>3, BlockSize, LocalPosition, GeometryAssumption, GhostDepthAssumption DEF Decomposed
  <2>2. c[b] >= s * l[b] + GhostDepth /\ c[b] < s * l[b] + GhostDepth + s
    BY <1>3, InsideCell
  <2>3. s * l[b] \in Int /\ s * m[b] \in Int /\ (l[b] > 0 => s <= s * l[b])
    <3>1. l[b] > 0 => s * 0 + s <= s * l[b]
      BY <2>1, Monotone
    <3> QED
      BY <2>1, <3>1
  <2>4. d[b] = IF h[2] = 0 THEN c[b] - k ELSE c[b] + k
    BY <1>2, <1>3
  <2>5. CASE f[2] = 0
    <3>1. d[b] < GhostDepth /\ m[b] = 0
      BY <2>5, LayerCell DEF AtEdge, D!Edge
    <3> HIDE DEF b, s
    <3>2. c[b] < GhostDepth + GhostDepth
      BY <3>1, <2>1, <2>4, <1>3
    <3> QED
      BY <3>1, <3>2, <2>1, <2>2, <2>3
  <2>6. CASE f[2] = 1
    <3>1. d[b] >= s * m[b] + GhostDepth + s /\ m[b] = g.lt[b] - 1
      BY <2>6, LayerCell DEF AtEdge, D!Edge
    <3> HIDE DEF b, s
    <3>2. c[b] >= s * m[b] + s
      BY <3>1, <2>1, <2>3, <2>4, <1>3
    <3>3. CASE l[b] < m[b]
      <4>1. s * l[b] + s <= s * m[b]
        BY <3>3, <2>1, Monotone
      <4> QED
        BY <4>1, <3>2, <2>1, <2>2, <2>3
    <3> QED
      BY <3>1, <3>3, <2>1
  <2> QED
    BY <2>5, <2>6, <1>3
<1> QED
  BY <1>4, <1>5, LocalPosition DEF Decomposed

\* Blocks share no ghost cells beyond the edges of their process.
LEMMA GhostsApart ==
  ASSUME NEW g, Decomposed(g), NEW l \in D(g)!Local, NEW m \in D(g)!Local,
         NEW f \in Faces, AtEdge(g, l, f), NEW h \in Faces, AtEdge(g, m, h),
         NEW c, GhostCell(g, l, f, c), GhostCell(g, m, h, c)
  PROVE  l = m /\ f = h
<1>1. f[1] \in 1..3 /\ f[2] \in {0, 1} /\ h[1] \in 1..3 /\ h[2] \in {0, 1}
      /\ f = <<f[1], f[2]>> /\ h = <<h[1], h[2]>>
  BY DEF Faces
<1>2. c \in Int \X Int \X Int
  BY LayerCell
<1>3. f[1] = h[1]
  <2> SUFFICES ASSUME f[1] # h[1] PROVE FALSE
    OBVIOUS
  <2>1. /\ c[f[1]] >= D(g)!ls[f[1]] * m[f[1]] + GhostDepth
        /\ c[f[1]] < D(g)!ls[f[1]] * m[f[1]] + GhostDepth + D(g)!ls[f[1]]
    BY <1>1, LayerCell
  <2>2. c[f[1]] \in Int
    BY <1>1, <1>2
  <2> QED
    BY <1>1, <2>1, <2>2, GhostBeyond
<1> DEFINE a == f[1]
           s == D(g)!ls[a]
<1>4. /\ s \in Nat /\ l[a] \in 0..(g.lt[a] - 1) /\ m[a] \in 0..(g.lt[a] - 1) /\ g.lt[a] \in Nat
      /\ GhostDepth \in Nat /\ c[a] \in Int /\ s * l[a] >= 0 /\ s * m[a] >= 0
      /\ s * l[a] \in Int /\ s * m[a] \in Int
  <2>1. /\ s \in Nat /\ l[a] \in 0..(g.lt[a] - 1) /\ m[a] \in 0..(g.lt[a] - 1) /\ g.lt[a] \in Nat
        /\ GhostDepth \in Nat /\ c[a] \in Int
    BY <1>1, <1>2, BlockSize, LocalPosition, GeometryAssumption, GhostDepthAssumption DEF Decomposed
  <2> QED
    BY <2>1
<1>5. f = h
  <2>1. /\ f[2] = 0 => c[a] < GhostDepth
        /\ f[2] = 1 => c[a] >= s * l[a] + GhostDepth + s
        /\ h[2] = 0 => c[a] < GhostDepth
        /\ h[2] = 1 => c[a] >= s * m[a] + GhostDepth + s
    BY <1>3, LayerCell
  <2> HIDE DEF a, s
  <2>2. f[2] = h[2]
    BY <1>1, <1>4, <2>1
  <2> QED
    BY <1>1, <1>3, <2>2
<1>6. \A b \in 1..3 : b # a => l[b] = m[b]
  <2> SUFFICES ASSUME NEW b \in 1..3, b # a PROVE l[b] = m[b]
    OBVIOUS
  <2>1. /\ D(g)!ls[b] \in Nat /\ l[b] \in Nat /\ m[b] \in Nat /\ GhostDepth \in Nat /\ c[b] \in Int
    BY <1>2, BlockSize, LocalPosition, GeometryAssumption, GhostDepthAssumption DEF Decomposed
  <2>2. /\ c[b] >= D(g)!ls[b] * l[b] + GhostDepth
        /\ c[b] < D(g)!ls[b] * l[b] + GhostDepth + D(g)!ls[b]
        /\ c[b] >= D(g)!ls[b] * m[b] + GhostDepth
        /\ c[b] < D(g)!ls[b] * m[b] + GhostDepth + D(g)!ls[b]
    BY <1>3, LayerCell
  <2> QED
    BY <2>1, <2>2, OneBlockPerInterval
<1>7. l[a] = m[a]
  BY <1>5 DEF AtEdge
<1> QED
  BY <1>5, <1>6, <1>7, LocalPosition DEF Decomposed

-----------------------------------------------------------------------------
\* Ranks: the positions of processes and blocks, and their numbers.

\* Numbers with a digit below n and the rest above it.
LEMMA Digits ==
  ASSUME NEW n \in Nat, NEW x \in 0..(n - 1), NEW v \in 0..(n - 1), NEW y \in Nat, NEW w \in Nat,
         y * n + x = w * n + v
  PROVE  x = v /\ y = w
<1>1. n * y \in Int /\ n * w \in Int /\ y * n = n * y /\ w * n = n * w
  OBVIOUS
<1>2. y = w
  <2>1. CASE y < w
    BY <1>1, <2>1, Monotone
  <2>2. CASE w < y
    BY <1>1, <2>2, Monotone
  <2> QED
    BY <2>1, <2>2
<1> QED
  BY <1>1, <1>2

\* Digits in range make a number in range.
LEMMA DigitsBound ==
  ASSUME NEW n \in Nat, NEW k \in Nat, NEW x \in 0..(n - 1), NEW y \in 0..(k - 1)
  PROVE  y * n + x \in 0..(k * n - 1)
<1>1. n * y + n <= n * k
  BY Monotone
<1>2. n * y \in Nat /\ n * k \in Nat /\ y * n = n * y /\ k * n = n * k
  OBVIOUS
<1> QED
  BY <1>1, <1>2

\* Every number in range has them.
LEMMA DigitsExist ==
  ASSUME NEW n \in Nat \ {0}, NEW k \in Nat, NEW v \in 0..(k * n - 1)
  PROVE  \E y \in 0..(k - 1), x \in 0..(n - 1) : v = y * n + x
<1> DEFINE y == v \div n
           x == v % n
<1>1. y \in Int /\ x \in 0..(n - 1) /\ v = y * n + x /\ v \in Nat
  OBVIOUS
<1> HIDE DEF x, y
<1>2. y >= 0
  <2>1. y < 0 => n * y <= 0 - n
    <3>1. y < 0 => n * (0 - y) >= n * 1
      <4>1. y < 0 => 0 - y \in Nat
        BY <1>1
      <4>2. CASE y = 0 - 1
        BY <4>2
      <4>3. CASE y < 0 - 1
        <5>1. 0 - y \in Nat /\ 1 < 0 - y
          BY <1>1, <4>3
        <5>2. n * 1 + n <= n * (0 - y)
          BY <5>1, Monotone
        <5>3. n * (0 - y) \in Int
          BY <5>1
        <5> QED
          BY <5>2, <5>3
      <4> QED
        BY <1>1, <4>2, <4>3
    <3>2. n * (0 - y) = 0 - n * y /\ n * y \in Int
      BY <1>1
    <3> QED
      BY <3>1, <3>2
  <2>2. n * y = y * n /\ n * y \in Int
    BY <1>1
  <2> QED
    BY <1>1, <2>1, <2>2
<1>3. y < k
  <2>1. k < y => n * k + n <= n * y
    BY <1>1, <1>2, Monotone
  <2>2. n * k \in Nat /\ n * y \in Nat /\ n * y = y * n /\ k * n = n * k
    BY <1>1, <1>2
  <2>3. k = y => n * k = n * y
    OBVIOUS
  <2> QED
    BY <1>1, <2>1, <2>2, <2>3
<1> QED
  BY <1>1, <1>2, <1>3

\* The extents of a grid of processes or of blocks, and the positions in it.
Shape(s) == s \in [1..3 -> Nat \ {0}]
Positions(s) == (0..(s[1] - 1)) \X (0..(s[2] - 1)) \X (0..(s[3] - 1))

\* The positions that the code loops over, from the origin to the extents.
LEMMA Boxes ==
  ASSUME NEW g, NEW s, Shape(s)
  PROVE  D(g)!Box(D(g)!Origin, D(g)!Below(s)) = Positions(s)
<1>1. \A a \in 1..3 : D(g)!Below(s)[a] = s[a] - 1 /\ D(g)!Origin[a] = 0
  BY DEF D!Below, D!Axis, D!X, D!Y, D!Z, D!Origin
<1> QED
  BY <1>1 DEF D!Box, D!X, D!Y, D!Z, Positions

\* A rank is a number below the count of positions,
LEMMA RankRange ==
  ASSUME NEW g, NEW s, Shape(s), NEW q \in Positions(s)
  PROVE  D(g)!Rank(s, q) \in 0..(s[1] * s[2] * s[3] - 1)
<1>1. /\ s[1] \in Nat /\ s[2] \in Nat /\ s[3] \in Nat
      /\ q[1] \in 0..(s[1] - 1) /\ q[2] \in 0..(s[2] - 1) /\ q[3] \in 0..(s[3] - 1)
  BY DEF Shape, Positions
<1>2. q[3] * s[2] + q[2] \in 0..(s[3] * s[2] - 1)
  BY <1>1, DigitsBound
<1>3. s[3] * s[2] \in Nat
  BY <1>1
<1>4. (q[3] * s[2] + q[2]) * s[1] + q[1] \in 0..((s[3] * s[2]) * s[1] - 1)
  BY <1>1, <1>2, <1>3, DigitsBound
<1>5. (s[3] * s[2]) * s[1] = s[1] * s[2] * s[3]
  BY <1>1
<1> QED
  BY <1>4, <1>5 DEF D!Rank, D!X, D!Y, D!Z

\* two positions have different ranks,
LEMMA RankInjective ==
  ASSUME NEW g, NEW s, Shape(s), NEW q \in Positions(s), NEW r \in Positions(s),
         D(g)!Rank(s, q) = D(g)!Rank(s, r)
  PROVE  q = r
<1>1. /\ s[1] \in Nat /\ s[2] \in Nat /\ s[3] \in Nat
      /\ q[1] \in 0..(s[1] - 1) /\ q[2] \in 0..(s[2] - 1) /\ q[3] \in 0..(s[3] - 1)
      /\ r[1] \in 0..(s[1] - 1) /\ r[2] \in 0..(s[2] - 1) /\ r[3] \in 0..(s[3] - 1)
      /\ q = <<q[1], q[2], q[3]>> /\ r = <<r[1], r[2], r[3]>>
  BY DEF Shape, Positions
<1>2. (q[3] * s[2] + q[2]) * s[1] + q[1] = (r[3] * s[2] + r[2]) * s[1] + r[1]
  BY DEF D!Rank, D!X, D!Y, D!Z
<1>3. q[3] * s[2] + q[2] \in Nat /\ r[3] * s[2] + r[2] \in Nat
  <2>1. q[3] * s[2] + q[2] \in 0..(s[3] * s[2] - 1) /\ r[3] * s[2] + r[2] \in 0..(s[3] * s[2] - 1)
    BY <1>1, DigitsBound
  <2>2. s[3] * s[2] \in Int
    BY <1>1
  <2> QED
    BY <2>1, <2>2
<1>4. q[1] = r[1] /\ q[3] * s[2] + q[2] = r[3] * s[2] + r[2]
  BY <1>1, <1>2, <1>3, Digits
<1>5. q[3] \in Nat /\ r[3] \in Nat
  BY <1>1
<1>6. q[2] = r[2] /\ q[3] = r[3]
  BY <1>1, <1>4, <1>5, Digits
<1> QED
  BY <1>1, <1>4, <1>6

\* and every such number is the rank of a position.
LEMMA RankOnto ==
  ASSUME NEW g, NEW s, Shape(s), NEW p \in 0..(s[1] * s[2] * s[3] - 1)
  PROVE  \E q \in Positions(s) : D(g)!Rank(s, q) = p
<1>1. s[1] \in Nat \ {0} /\ s[2] \in Nat \ {0} /\ s[3] \in Nat \ {0}
  BY DEF Shape
<1>2. s[3] * s[2] \in Nat /\ (s[3] * s[2]) * s[1] = s[1] * s[2] * s[3]
  BY <1>1
<1>3. PICK y \in 0..(s[3] * s[2] - 1), x \in 0..(s[1] - 1) : p = y * s[1] + x
  <2> DEFINE k == s[3] * s[2]
             n == s[1]
  <2>1. k \in Nat /\ n \in Nat \ {0} /\ p \in 0..(k * n - 1)
    BY <1>1, <1>2
  <2> HIDE DEF k, n
  <2>2. \E y \in 0..(k - 1), x \in 0..(n - 1) : p = y * n + x
    BY <2>1, DigitsExist
  <2> QED
    BY <2>2 DEF k, n
<1>4. PICK w \in 0..(s[3] - 1), v \in 0..(s[2] - 1) : y = w * s[2] + v
  BY <1>1, DigitsExist
<1>5. <<x, v, w>> \in Positions(s)
  BY <1>1, <1>3, <1>4 DEF Positions
<1>6. D(g)!Rank(s, <<x, v, w>>) = (w * s[2] + v) * s[1] + x
  BY DEF D!Rank, D!X, D!Y, D!Z
<1> QED
  BY <1>3, <1>4, <1>5, <1>6

\* The two grids of a launch have these shapes.
LEMMA Shapes ==
  ASSUME NEW g \in Geometries
  PROVE  /\ Shape(g.pt) /\ Shape(g.lt)
         /\ D(g)!Local = Positions(g.lt)
         /\ D(g)!Box(D(g)!Origin, D(g)!Below(g.pt)) = Positions(g.pt)
         /\ D(g)!Process = 0..(g.pt[1] * g.pt[2] * g.pt[3] - 1)
<1>1. Shape(g.pt) /\ Shape(g.lt)
  BY GeometryAssumption DEF Shape
<1> QED
  BY <1>1, Boxes DEF D!Local, D!lt, D!pt, D!Process, D!processCount, D!X, D!Y, D!Z

\* The position of a process in the grid of processes is the one of its rank.
LEMMA ProcessPosition ==
  ASSUME NEW g \in Geometries, NEW p \in D(g)!Process
  PROVE  D(g)!pPos(p) \in Positions(g.pt) /\ D(g)!Rank(g.pt, D(g)!pPos(p)) = p
<1>1. \E q \in Positions(g.pt) : D(g)!Rank(g.pt, q) = p
  <2>1. Shape(g.pt) /\ p \in 0..(g.pt[1] * g.pt[2] * g.pt[3] - 1)
    BY Shapes
  <2> QED
    BY ONLY <2>1, RankOnto
<1>2. D(g)!pPos(p) = CHOOSE q \in Positions(g.pt) : D(g)!Rank(g.pt, q) = p
  BY Shapes DEF D!pPos, D!pt
<1> QED
  BY <1>1, <1>2

\* And the process at a position is the one with its rank.
LEMMA PositionOfRank ==
  ASSUME NEW g \in Geometries, NEW q \in Positions(g.pt)
  PROVE  D(g)!Rank(g.pt, q) \in D(g)!Process /\ D(g)!pPos(D(g)!Rank(g.pt, q)) = q
<1>1. D(g)!Rank(g.pt, q) \in D(g)!Process
  BY Shapes, RankRange
<1> QED
  BY <1>1, ProcessPosition, RankInjective, Shapes

-----------------------------------------------------------------------------
\* The domain: which cells of a process are in it, and which are beyond it.

\* The sizes that initialize computes fit together: nothing is rounded.
LEMMA Sizes ==
  ASSUME NEW g, Decomposed(g), NEW a \in 1..3
  PROVE  /\ D(g)!ps[a] \in Nat \ {0} /\ D(g)!ls[a] \in Nat \ {0}
         /\ g.pt[a] \in Nat \ {0} /\ g.lt[a] \in Nat \ {0} /\ g.N \in Nat
         /\ D(g)!ps[a] = D(g)!ls[a] * g.lt[a] /\ g.N = D(g)!ps[a] * g.pt[a]
         /\ D(g)!fs[a] = D(g)!ps[a] + 2 * GhostDepth
<1>1. g.N \in Nat \ {0} /\ g.pt[a] \in Nat \ {0} /\ g.lt[a] \in Nat \ {0}
  BY GeometryAssumption DEF Decomposed
<1>2. D(g)!Axis = 1..3
  BY DEF D!Axis, D!X, D!Y, D!Z
<1>3. /\ D(g)!ps[a] = g.N \div g.pt[a] /\ D(g)!ls[a] = D(g)!ps[a] \div g.lt[a]
      /\ D(g)!fs[a] = D(g)!ps[a] + 2 * GhostDepth
  BY <1>2 DEF D!ps, D!ls, D!fs, D!N, D!pt, D!lt
<1>4. g.N % g.pt[a] = 0 /\ (g.N \div g.pt[a]) % g.lt[a] = 0
  BY <1>2 DEF Decomposed, D!Divisible, D!N, D!pt, D!lt
<1>5. ASSUME NEW n \in Nat, NEW d \in Nat \ {0}, n % d = 0 PROVE n = (n \div d) * d /\ n \div d \in Int
  BY <1>5
<1>6. D(g)!ls[a] \in Nat \ {0}
  BY BlockSize
<1>7. g.N = D(g)!ps[a] * g.pt[a] /\ D(g)!ps[a] \in Int
  BY <1>1, <1>3, <1>4, <1>5
<1>8. D(g)!ps[a] \in Nat \ {0}
  <2> DEFINE s == D(g)!ps[a]
             n == g.pt[a]
  <2>1. s \in Int /\ n \in Nat \ {0} /\ s * n \in Nat \ {0}
    BY <1>1, <1>7
  <2> HIDE DEF s, n
  <2>2. s # 0
    BY <2>1
  <2>3. ~(s < 0)
    <3>1. s < 0 => n * (0 - s) >= 0 /\ n * (0 - s) = 0 - s * n
      BY <2>1
    <3> QED
      BY <2>1, <3>1
  <2> QED
    BY <2>1, <2>2, <2>3 DEF s
<1>9. D(g)!ps[a] = D(g)!ls[a] * g.lt[a]
  <2>1. D(g)!ps[a] % g.lt[a] = 0
    BY <1>3, <1>4
  <2>2. D(g)!ps[a] \in Nat /\ g.lt[a] \in Nat \ {0}
    BY <1>1, <1>8
  <2> DEFINE s == D(g)!ps[a]
             d == g.lt[a]
  <2> HIDE DEF s, d
  <2>3. s \in Nat /\ d \in Nat \ {0} /\ s % d = 0
    BY <2>1, <2>2 DEF s, d
  <2>4. s = (s \div d) * d
    BY <1>5, <2>3
  <2> QED
    BY <1>3, <2>4 DEF s, d
<1> QED
  BY <1>1, <1>3, <1>6, <1>7, <1>8, <1>9

\* Where a cell of a process is in the domain, and whether it is there at all.
Coordinate(g, p, c, a) == D(g)!pPos(p)[a] * D(g)!ps[a] + c[a] - GhostDepth
InDomain(g, p, c) ==
  \A a \in 1..3 : 0 <= Coordinate(g, p, c, a) /\ Coordinate(g, p, c, a) < g.N

\* The multiples of the size of a block, from the first block to the last one.
LEMMA Multiples ==
  ASSUME NEW s \in Nat, NEW n \in Nat, NEW x \in 0..(n - 1)
  PROVE  /\ s * x \in Nat /\ s * n \in Nat /\ s * x + s <= s * n
         /\ x > 0 => s <= s * x
         /\ x = n - 1 => s * x + s = s * n
         /\ x < n - 1 => s * x + s + s <= s * n
<1>1. s * x \in Nat /\ s * n \in Nat /\ s * 0 = 0 /\ s * (x + 1) = s * x + s
  OBVIOUS
<1>2. s * x + s <= s * n
  BY Monotone
<1>3. x > 0 => s * 0 + s <= s * x
  BY Monotone
<1>4. x < n - 1 => s * (x + 1) + s <= s * n
  <2>1. x < n - 1 => x + 1 < n /\ x + 1 \in Nat
    OBVIOUS
  <2> QED
    BY <2>1, Monotone
<1>5. x = n - 1 => n = x + 1
  OBVIOUS
<1> QED
  BY <1>1, <1>2, <1>3, <1>4, <1>5

\* What is known of a position along one axis.
LEMMA AlongAxis ==
  ASSUME NEW g, Decomposed(g), NEW p \in D(g)!Process, NEW l \in D(g)!Local, NEW a \in 1..3
  PROVE  /\ D(g)!pPos(p)[a] \in 0..(g.pt[a] - 1) /\ l[a] \in 0..(g.lt[a] - 1)
         /\ D(g)!ls[a] * l[a] \in Nat /\ D(g)!ls[a] * l[a] + D(g)!ls[a] <= D(g)!ps[a]
         /\ l[a] > 0 => D(g)!ls[a] <= D(g)!ls[a] * l[a]
         /\ l[a] = g.lt[a] - 1 => D(g)!ls[a] * l[a] + D(g)!ls[a] = D(g)!ps[a]
         /\ l[a] < g.lt[a] - 1 => D(g)!ls[a] * l[a] + D(g)!ls[a] + D(g)!ls[a] <= D(g)!ps[a]
         /\ D(g)!ps[a] * D(g)!pPos(p)[a] \in Nat
         /\ D(g)!ps[a] * D(g)!pPos(p)[a] + D(g)!ps[a] <= g.N
         /\ D(g)!pPos(p)[a] > 0 => D(g)!ps[a] <= D(g)!ps[a] * D(g)!pPos(p)[a]
         /\ D(g)!pPos(p)[a] = g.pt[a] - 1 => D(g)!ps[a] * D(g)!pPos(p)[a] + D(g)!ps[a] = g.N
         /\ D(g)!pPos(p)[a] < g.pt[a] - 1 =>
              D(g)!ps[a] * D(g)!pPos(p)[a] + D(g)!ps[a] + D(g)!ps[a] <= g.N
         /\ D(g)!ls[a] \in Nat \ {0} /\ D(g)!ps[a] \in Nat \ {0} /\ D(g)!ls[a] <= D(g)!ps[a]
         /\ GhostDepth \in Nat \ {0} /\ GhostDepth <= D(g)!ls[a] /\ g.N \in Nat
         /\ D(g)!fs[a] = D(g)!ps[a] + 2 * GhostDepth
         /\ D(g)!pPos(p)[a] * D(g)!ps[a] = D(g)!ps[a] * D(g)!pPos(p)[a]
<1>1. D(g)!pPos(p) \in Positions(g.pt) /\ l \in Positions(g.lt)
  BY ProcessPosition, Shapes DEF Decomposed
<1>2. D(g)!pPos(p)[a] \in 0..(g.pt[a] - 1) /\ l[a] \in 0..(g.lt[a] - 1)
  BY <1>1 DEF Positions
<1> DEFINE x == D(g)!pPos(p)[a]
           s == D(g)!ps[a]
           k == D(g)!ls[a]
           y == l[a]
<1>3. /\ s \in Nat \ {0} /\ k \in Nat \ {0} /\ g.pt[a] \in Nat /\ g.lt[a] \in Nat /\ g.N \in Nat
      /\ s = k * g.lt[a] /\ g.N = s * g.pt[a] /\ D(g)!fs[a] = s + 2 * GhostDepth
  BY Sizes
<1>4. GhostDepth \in Nat \ {0} /\ GhostDepth <= k
  BY GhostDepthAssumption, BlockSize
<1>5. x \in 0..(g.pt[a] - 1) /\ y \in 0..(g.lt[a] - 1)
  BY <1>2
<1> HIDE DEF x, s, k, y
<1>6. /\ k * y \in Nat /\ k * y + k <= s
      /\ y > 0 => k <= k * y
      /\ y = g.lt[a] - 1 => k * y + k = s
      /\ y < g.lt[a] - 1 => k * y + k + k <= s
  BY <1>3, <1>5, Multiples
<1>7. /\ s * x \in Nat /\ s * x + s <= g.N
      /\ x > 0 => s <= s * x
      /\ x = g.pt[a] - 1 => s * x + s = g.N
      /\ x < g.pt[a] - 1 => s * x + s + s <= g.N
  BY <1>3, <1>5, Multiples
<1>8. x * s = s * x /\ k <= s
  <2>1. x \in Int /\ s \in Int /\ k \in Nat
    BY <1>3, <1>5
  <2>2. k <= s
    BY <1>6, <2>1
  <2> QED
    BY <2>1, <2>2
<1> QED
  BY <1>3, <1>4, <1>5, <1>6, <1>7, <1>8 DEF x, s, k, y

\* The halo of a block is the block with one ghost depth on either side.
LEMMA HaloCell ==
  ASSUME NEW g, Decomposed(g), NEW l \in D(g)!Local, NEW d \in Int \X Int \X Int
  PROVE  d \in D(g)!Halo(l) <=>
           \A a \in 1..3 : /\ d[a] >= D(g)!ls[a] * l[a]
                           /\ d[a] < D(g)!ls[a] * l[a] + D(g)!ls[a] + 2 * GhostDepth
<1> DEFINE lo(a) == D(g)!ls[a] * l[a]
           low == [a \in D(g)!Axis |-> D(g)!lStart(l)[a] - GhostDepth]
           high == [a \in D(g)!Axis |-> D(g)!lEnd(l)[a] + GhostDepth - 1]
<1>1. \A a \in 1..3 : lo(a) \in Int /\ D(g)!ls[a] \in Nat /\ GhostDepth \in Nat
  BY BlockSize, LocalPosition, GeometryAssumption, GhostDepthAssumption DEF Decomposed
<1>2. \A a \in 1..3 : low[a] = lo(a) /\ high[a] = lo(a) + D(g)!ls[a] + 2 * GhostDepth - 1
  <2> SUFFICES ASSUME NEW a \in 1..3
               PROVE  low[a] = lo(a) /\ high[a] = lo(a) + D(g)!ls[a] + 2 * GhostDepth - 1
    OBVIOUS
  <2>1. D(g)!Axis = 1..3
    BY DEF D!Axis, D!X, D!Y, D!Z
  <2>2. D(g)!lStart(l)[a] = lo(a) + GhostDepth
    BY <2>1 DEF D!lStart
  <2>3. D(g)!lEnd(l)[a] = D(g)!lStart(l)[a] + D(g)!ls[a]
    BY <2>1 DEF D!lEnd
  <2>4. low[a] = D(g)!lStart(l)[a] - GhostDepth /\ high[a] = D(g)!lEnd(l)[a] + GhostDepth - 1
    BY <2>1
  <2>5. lo(a) \in Int /\ D(g)!ls[a] \in Int /\ GhostDepth \in Int
    BY <1>1
  <2> HIDE DEF lo, low, high
  <2> QED
    BY <2>2, <2>3, <2>4, <2>5
<1>3. D(g)!Halo(l) = D(g)!Box(low, high)
  BY DEF D!Halo
<1> HIDE DEF low, high
<1>4. d \in D(g)!Halo(l) <=> \A a \in 1..3 : d[a] \in low[a]..high[a]
  BY <1>3 DEF D!Box, D!X, D!Y, D!Z
<1>5. ASSUME NEW a \in 1..3
      PROVE d[a] \in low[a]..high[a] <=> d[a] >= lo(a) /\ d[a] < lo(a) + D(g)!ls[a] + 2 * GhostDepth
  <2>1. /\ lo(a) \in Int /\ D(g)!ls[a] \in Int /\ GhostDepth \in Int /\ d[a] \in Int
        /\ low[a] = lo(a) /\ high[a] = lo(a) + D(g)!ls[a] + 2 * GhostDepth - 1
    BY <1>1, <1>2
  <2> HIDE DEF lo
  <2> QED
    BY <2>1
<1> QED
  BY <1>4, <1>5

\* The halo is made of cells.
LEMMA HaloIsOfCells ==
  ASSUME NEW g, Decomposed(g), NEW l \in D(g)!Local
  PROVE  D(g)!Halo(l) \subseteq Int \X Int \X Int
<1> DEFINE low == [a \in D(g)!Axis |-> D(g)!lStart(l)[a] - GhostDepth]
           high == [a \in D(g)!Axis |-> D(g)!lEnd(l)[a] + GhostDepth - 1]
<1>1. D(g)!Axis = 1..3
  BY DEF D!Axis, D!X, D!Y, D!Z
<1>2. ASSUME NEW a \in 1..3 PROVE low[a] \in Int /\ high[a] \in Int
  <2>1. D(g)!ls[a] \in Int /\ l[a] \in Int /\ GhostDepth \in Int
    BY BlockSize, LocalPosition, GeometryAssumption, GhostDepthAssumption DEF Decomposed
  <2>2. D(g)!lStart(l)[a] = D(g)!ls[a] * l[a] + GhostDepth
    BY <1>1 DEF D!lStart
  <2>3. D(g)!lEnd(l)[a] = D(g)!lStart(l)[a] + D(g)!ls[a]
    BY <1>1 DEF D!lEnd
  <2>4. low[a] = D(g)!lStart(l)[a] - GhostDepth /\ high[a] = D(g)!lEnd(l)[a] + GhostDepth - 1
    BY <1>1
  <2> QED
    BY <2>1, <2>2, <2>3, <2>4
<1>3. D(g)!Halo(l) = D(g)!Box(low, high)
  BY DEF D!Halo
<1> HIDE DEF low, high
<1> QED
  BY <1>2, <1>3 DEF D!Box, D!X, D!Y, D!Z

\* A cell within the bounds of a block is inside it.
LEMMA InsideIff ==
  ASSUME NEW g, Decomposed(g), NEW l \in D(g)!Local, NEW c \in Int \X Int \X Int,
         \A a \in 1..3 : /\ c[a] >= D(g)!ls[a] * l[a] + GhostDepth
                         /\ c[a] < D(g)!ls[a] * l[a] + GhostDepth + D(g)!ls[a]
  PROVE  c \in D(g)!Inside(l)
<1> DEFINE lo(a) == D(g)!ls[a] * l[a] + GhostDepth
           low == D(g)!lStart(l)
           high == D(g)!Below(D(g)!lEnd(l))
<1>1. ASSUME NEW a \in 1..3 PROVE c[a] \in low[a]..high[a]
  <2>1. D(g)!Axis = 1..3
    BY DEF D!Axis, D!X, D!Y, D!Z
  <2>2. low[a] = lo(a)
    BY <2>1 DEF D!lStart
  <2>3. D(g)!lEnd(l)[a] = D(g)!lStart(l)[a] + D(g)!ls[a]
    BY <2>1 DEF D!lEnd
  <2>4. high[a] = D(g)!lEnd(l)[a] - 1
    BY <2>1 DEF D!Below
  <2>5. lo(a) \in Int /\ D(g)!ls[a] \in Int /\ GhostDepth \in Int /\ c[a] \in Int
    BY BlockSize, LocalPosition, GeometryAssumption, GhostDepthAssumption DEF Decomposed
  <2>6. c[a] >= lo(a) /\ c[a] < lo(a) + D(g)!ls[a]
    OBVIOUS
  <2> HIDE DEF lo, low, high
  <2> QED
    BY <2>2, <2>3, <2>4, <2>5, <2>6 DEF low
<1>2. D(g)!Inside(l) = D(g)!Box(low, high)
  BY DEF D!Inside
<1> HIDE DEF low, high
<1> QED
  BY <1>1, <1>2 DEF D!Box, D!X, D!Y, D!Z

\* A block's halo is among the cells of its process, and the block in its halo.
LEMMA HaloInCell ==
  ASSUME NEW g, Decomposed(g), NEW p \in D(g)!Process, NEW l \in D(g)!Local
  PROVE  D(g)!Halo(l) \subseteq D(g)!Cell /\ D(g)!Inside(l) \subseteq D(g)!Halo(l)
<1>1. ASSUME NEW d \in D(g)!Halo(l) PROVE d \in D(g)!Cell
  <2>1. d \in Int \X Int \X Int
    BY HaloIsOfCells
  <2>2. ASSUME NEW a \in 1..3 PROVE d[a] \in 0..(D(g)!fs[a] - 1)
    <3>1. d[a] >= D(g)!ls[a] * l[a] /\ d[a] < D(g)!ls[a] * l[a] + D(g)!ls[a] + 2 * GhostDepth /\ d[a] \in Int
      BY <2>1, HaloCell
    <3> QED
      BY <3>1, AlongAxis
  <2>3. D(g)!Cell = (0..(D(g)!fs[1] - 1)) \X (0..(D(g)!fs[2] - 1)) \X (0..(D(g)!fs[3] - 1))
    <3>1. \A a \in 1..3 : D(g)!Below(D(g)!fs)[a] = D(g)!fs[a] - 1 /\ D(g)!Origin[a] = 0
      BY DEF D!Below, D!Axis, D!X, D!Y, D!Z, D!Origin
    <3> QED
      BY <3>1 DEF D!Cell, D!Box, D!X, D!Y, D!Z
  <2> QED
    BY <2>1, <2>2, <2>3
<1>2. ASSUME NEW c \in D(g)!Inside(l) PROVE c \in D(g)!Halo(l)
  <2>1. c \in Int \X Int \X Int
    BY InsideCell
  <2>2. ASSUME NEW a \in 1..3
        PROVE  c[a] >= D(g)!ls[a] * l[a] /\ c[a] < D(g)!ls[a] * l[a] + D(g)!ls[a] + 2 * GhostDepth
    <3>1. /\ c[a] >= D(g)!ls[a] * l[a] + GhostDepth
          /\ c[a] < D(g)!ls[a] * l[a] + GhostDepth + D(g)!ls[a] /\ c[a] \in Int
      BY <2>1, InsideCell
    <3> QED
      BY <3>1, AlongAxis
  <2> QED
    BY <2>1, <2>2, HaloCell
<1> QED
  BY <1>1, <1>2

\* The cells of a block are in the domain ...
LEMMA InsideInDomain ==
  ASSUME NEW g, Decomposed(g), NEW p \in D(g)!Process, NEW l \in D(g)!Local, NEW c \in D(g)!Inside(l)
  PROVE  InDomain(g, p, c)
<1> SUFFICES ASSUME NEW a \in 1..3
             PROVE  0 <= Coordinate(g, p, c, a) /\ Coordinate(g, p, c, a) < g.N
  BY DEF InDomain
<1>1. /\ c[a] >= D(g)!ls[a] * l[a] + GhostDepth
      /\ c[a] < D(g)!ls[a] * l[a] + GhostDepth + D(g)!ls[a] /\ c[a] \in Int
  BY InsideCell
<1> QED
  BY <1>1, AlongAxis DEF Coordinate

\* ... and what of a halo is not is what initialize finds to be outside of it.
LEMMA OutsideIff ==
  ASSUME NEW g, Decomposed(g), NEW p \in D(g)!Process, NEW l \in D(g)!Local, NEW d \in D(g)!Halo(l)
  PROVE  d \in D(g)!Outside(p, l) <=> ~InDomain(g, p, d)
<1>1. ASSUME NEW a \in 1..3
      PROVE  d[a] \in Int /\ d[a] >= D(g)!ls[a] * l[a] /\ d[a] < D(g)!ls[a] * l[a] + D(g)!ls[a] + 2 * GhostDepth
  BY HaloIsOfCells, HaloCell
<1>2. D(g)!Faces = Faces
  BY FacesAreFaces
<1>3. ASSUME NEW f \in Faces, D(g)!Type(p, l, f) = "BOUNDARY",
             d[f[1]] \in IF f[2] = 0 THEN 0..(GhostDepth - 1)
                         ELSE (D(g)!ps[f[1]] + GhostDepth)..(D(g)!fs[f[1]] - 1)
      PROVE  ~InDomain(g, p, d)
  <2> DEFINE a == f[1]
  <2>1. a \in 1..3 /\ f[2] \in {0, 1}
    BY DEF Faces
  <2>2. D(g)!pPos(p)[a] = IF f[2] = 0 THEN 0 ELSE g.pt[a] - 1
    BY <1>3 DEF D!Type, D!Edge, D!pt
  <2> HIDE DEF a
  <2>3. CASE f[2] = 0
    <3>1. d[a] < GhostDepth /\ d[a] \in Int /\ D(g)!pPos(p)[a] = 0 /\ D(g)!ps[a] \in Nat /\ GhostDepth \in Nat
      BY <1>1, <1>3, <2>1, <2>2, <2>3, AlongAxis DEF a
    <3>2. Coordinate(g, p, d, a) < 0
      BY <3>1 DEF Coordinate
    <3> QED
      BY <2>1, <3>1, <3>2 DEF InDomain, Coordinate
  <2>4. CASE f[2] = 1
    <3>1. d[a] >= D(g)!ps[a] + GhostDepth /\ d[a] \in Int /\ D(g)!pPos(p)[a] = g.pt[a] - 1
      <4>1. D(g)!ps[a] \in Int /\ GhostDepth \in Int /\ d[a] \in Int /\ D(g)!fs[a] \in Int
        BY <1>1, <2>1, AlongAxis
      <4> QED
        BY <1>3, <2>2, <2>4, <4>1 DEF a
    <3>2. /\ D(g)!ps[a] * D(g)!pPos(p)[a] + D(g)!ps[a] = g.N /\ D(g)!ps[a] \in Nat /\ GhostDepth \in Nat
          /\ D(g)!ps[a] * D(g)!pPos(p)[a] \in Nat
          /\ D(g)!pPos(p)[a] * D(g)!ps[a] = D(g)!ps[a] * D(g)!pPos(p)[a]
      BY <2>1, <3>1, AlongAxis
    <3>3. Coordinate(g, p, d, a) >= g.N /\ Coordinate(g, p, d, a) \in Int /\ g.N \in Int
      BY <3>1, <3>2 DEF Coordinate
    <3> QED
      BY <2>1, <3>3 DEF InDomain
  <2> QED
    BY <2>1, <2>3, <2>4
<1>4. ASSUME ~InDomain(g, p, d) PROVE d \in D(g)!Outside(p, l)
  <2>1. PICK a \in 1..3 : ~(0 <= Coordinate(g, p, d, a) /\ Coordinate(g, p, d, a) < g.N)
    BY <1>4 DEF InDomain
  <2> DEFINE x == D(g)!pPos(p)[a]
             s == D(g)!ps[a]
             k == D(g)!ls[a]
             sx == s * x
             ky == k * l[a]
             v == d[a]
  <2>2. v \in Int /\ v >= ky /\ v < ky + k + 2 * GhostDepth
    BY <1>1
  <2>3. /\ x \in 0..(g.pt[a] - 1) /\ l[a] \in 0..(g.lt[a] - 1)
        /\ ky \in Nat /\ ky + k <= s
        /\ l[a] > 0 => k <= ky
        /\ l[a] < g.lt[a] - 1 => ky + k + k <= s
        /\ sx \in Nat /\ sx + s <= g.N
        /\ x > 0 => s <= sx
        /\ x = g.pt[a] - 1 => sx + s = g.N
        /\ x < g.pt[a] - 1 => sx + s + s <= g.N
        /\ k \in Nat /\ s \in Nat /\ k <= s /\ GhostDepth \in Nat /\ GhostDepth <= k /\ g.N \in Nat
        /\ D(g)!fs[a] = s + 2 * GhostDepth
    BY AlongAxis
  <2>4. Coordinate(g, p, d, a) = sx + v - GhostDepth
    <3>1. x * s = s * x
      BY AlongAxis
    <3> QED
      BY <3>1 DEF Coordinate
  <2>5. g.pt[a] \in Nat /\ g.lt[a] \in Nat
    BY Sizes
  <2> HIDE DEF x, s, k, sx, ky, v
  <2>6. CASE Coordinate(g, p, d, a) < 0
    <3>1. x = 0 /\ v < GhostDepth /\ v >= 0
      BY <2>2, <2>3, <2>4, <2>6
    <3>2. l[a] = 0
      BY <2>2, <2>3, <3>1
    <3>3. <<a, 0>> \in Faces /\ D(g)!Type(p, l, <<a, 0>>) = "BOUNDARY"
      BY <3>1, <3>2 DEF Faces, D!Type, D!Edge, x
    <3>4. d[a] \in 0..(GhostDepth - 1)
      BY <2>2, <2>3, <3>1 DEF v
    <3> QED
      BY <1>2, <3>3, <3>4 DEF D!Outside
  <2>7. CASE ~(Coordinate(g, p, d, a) < g.N)
    <3>1. x = g.pt[a] - 1 /\ v >= s + GhostDepth
      BY <2>2, <2>3, <2>4, <2>5, <2>7
    <3>2. l[a] = g.lt[a] - 1
      BY <2>2, <2>3, <2>5, <3>1
    <3>3. <<a, 1>> \in Faces /\ D(g)!Type(p, l, <<a, 1>>) = "BOUNDARY"
      BY <3>1, <3>2 DEF Faces, D!Type, D!Edge, D!pt, D!lt, x
    <3>4. v < s + 2 * GhostDepth
      BY <2>2, <2>3
    <3>5. d[a] \in (D(g)!ps[a] + GhostDepth)..(D(g)!fs[a] - 1)
      BY <2>2, <2>3, <3>1, <3>4 DEF v, s
    <3>6. PICK f \in D(g)!Faces : f = <<a, 1>>
      BY <1>2, <3>3
    <3>7. D(g)!Type(p, l, f) = "BOUNDARY" /\ f[1] = a /\ f[2] = 1
      BY <3>3, <3>6
    <3>8. d[f[1]] \in IF f[2] = 0 THEN 0..(GhostDepth - 1)
                     ELSE (D(g)!ps[f[1]] + GhostDepth)..(D(g)!fs[f[1]] - 1)
      BY <3>5, <3>7
    <3> QED
      BY <3>7, <3>8 DEF D!Outside
  <2> QED
    BY <2>1, <2>2, <2>3, <2>4, <2>6, <2>7
<1> QED
  BY <1>2, <1>3, <1>4 DEF D!Outside

-----------------------------------------------------------------------------
\* Neighbours: what is behind a face of a block.

\* Where the layers begin that a message is unpacked into and packed from.
LEMMA LayerStarts ==
  ASSUME NEW g, Decomposed(g), NEW l \in D(g)!Local, NEW f \in Faces, NEW a \in 1..3
  PROVE  /\ D(g)!GhostLayer(l, f)[a] =
              IF a # f[1] THEN D(g)!ls[a] * l[a] + GhostDepth
              ELSE IF f[2] = 0 THEN 0 ELSE D(g)!ls[a] * l[a] + GhostDepth + D(g)!ls[a]
         /\ D(g)!OwnLayer(l, f)[a] =
              IF a # f[1] \/ f[2] = 0 THEN D(g)!ls[a] * l[a] + GhostDepth
              ELSE D(g)!ls[a] * l[a] + GhostDepth + D(g)!ls[a] - GhostDepth
<1> DEFINE lo(b) == D(g)!ls[b] * l[b] + GhostDepth
<1>1. D(g)!Axis = 1..3
  BY DEF D!Axis, D!X, D!Y, D!Z
<1>2. D(g)!lStart(l) = [b \in 1..3 |-> lo(b)]
  BY <1>1 DEF D!lStart
<1>3. f[1] \in 1..3
  BY DEF Faces
<1>4. D(g)!lEnd(l)[f[1]] = lo(f[1]) + D(g)!ls[f[1]]
  BY <1>1, <1>2, <1>3 DEF D!lEnd
<1> HIDE DEF lo
<1>5. D(g)!GhostLayer(l, f)[a] =
        IF a # f[1] THEN lo(a) ELSE IF f[2] = 0 THEN 0 ELSE lo(a) + D(g)!ls[a]
  BY <1>2, <1>3, <1>4 DEF D!GhostLayer
<1>6. D(g)!OwnLayer(l, f)[a] =
        IF a # f[1] \/ f[2] = 0 THEN lo(a) ELSE lo(a) + D(g)!ls[a] - GhostDepth
  <2>1. f[2] \in {0, 1}
    BY DEF Faces
  <2>2. \A b \in 1..3 : D(g)!lEnd(l)[b] = lo(b) + D(g)!ls[b]
    BY <1>1, <1>2 DEF D!lEnd
  <2>3. \A b \in 1..3 : lo(b) \in Int /\ D(g)!ls[b] \in Int /\ GhostDepth \in Nat
    BY BlockSize, LocalPosition, GeometryAssumption, GhostDepthAssumption DEF Decomposed, lo
  <2>4. \A b \in 1..3 : D(g)!OwnLayer(l, f)[b] =
          IF b = f[1] /\ f[2] = 1 THEN lo(b) + D(g)!ls[b] - GhostDepth ELSE lo(b)
    BY <1>2, <1>3, <2>1, <2>2, <2>3 DEF D!OwnLayer
  <2> QED
    BY <2>1, <2>4
<1> QED
  BY <1>5, <1>6 DEF lo

\* The converse of OffsetCell,
LEMMA OffsetIff ==
  ASSUME NEW g, Decomposed(g), NEW f \in Faces, NEW o \in Int \X Int \X Int,
         \A a \in 1..3 : o[a] >= 0 /\ o[a] < IF a = f[1] THEN GhostDepth ELSE D(g)!ls[a]
  PROVE  o \in D(g)!Offset(f)
<1> DEFINE e == [D(g)!ls EXCEPT ![f[1]] = GhostDepth]
<1>1. D(g)!Axis = 1..3
  BY DEF D!Axis, D!X, D!Y, D!Z
<1>2. ASSUME NEW a \in 1..3 PROVE D(g)!Origin[a] = 0 /\ D(g)!Below(e)[a] = (IF a = f[1] THEN GhostDepth ELSE D(g)!ls[a]) - 1
  <2>1. D(g)!ls = [b \in 1..3 |-> D(g)!ls[b]]
    BY <1>1 DEF D!ls
  <2>2. e[a] = IF a = f[1] THEN GhostDepth ELSE D(g)!ls[a]
    BY <2>1
  <2> QED
    BY <1>1, <2>2 DEF D!Below, D!Origin
<1>3. D(g)!Offset(f) = D(g)!Box(D(g)!Origin, D(g)!Below(e))
  BY DEF D!Offset
<1> HIDE DEF e
<1>4. ASSUME NEW a \in 1..3 PROVE o[a] \in D(g)!Origin[a]..D(g)!Below(e)[a]
  <2>1. GhostDepth \in Int /\ D(g)!ls[a] \in Int /\ o[a] \in Int
    BY BlockSize, GhostDepthAssumption
  <2>2. o[a] >= 0 /\ o[a] < IF a = f[1] THEN GhostDepth ELSE D(g)!ls[a]
    OBVIOUS
  <2> QED
    BY <1>2, <2>1, <2>2
<1> QED
  BY <1>3, <1>4 DEF D!Box, D!X, D!Y, D!Z

\* and the one of LayerCell: a cell within the bounds of a ghost layer is in it.
LEMMA GhostCellIff ==
  ASSUME NEW g, Decomposed(g), NEW l \in D(g)!Local, NEW f \in Faces, NEW d \in Int \X Int \X Int,
         \A a \in 1..3 : a # f[1] => /\ d[a] >= D(g)!ls[a] * l[a] + GhostDepth
                                     /\ d[a] < D(g)!ls[a] * l[a] + GhostDepth + D(g)!ls[a],
         f[2] = 0 => d[f[1]] >= 0 /\ d[f[1]] < GhostDepth,
         f[2] = 1 => /\ d[f[1]] >= D(g)!ls[f[1]] * l[f[1]] + GhostDepth + D(g)!ls[f[1]]
                     /\ d[f[1]] < D(g)!ls[f[1]] * l[f[1]] + GhostDepth + D(g)!ls[f[1]] + GhostDepth
  PROVE  GhostCell(g, l, f, d)
<1> DEFINE at(a) == D(g)!GhostLayer(l, f)[a]
           o == <<d[1] - at(1), d[2] - at(2), d[3] - at(3)>>
<1>1. f[1] \in 1..3 /\ f[2] \in {0, 1}
  BY DEF Faces
<1>2. ASSUME NEW a \in 1..3
      PROVE  /\ at(a) \in Int /\ d[a] \in Int /\ d[a] - at(a) >= 0
             /\ d[a] - at(a) < IF a = f[1] THEN GhostDepth ELSE D(g)!ls[a]
  <2> DEFINE lo == D(g)!ls[a] * l[a] + GhostDepth
             s == D(g)!ls[a]
  <2>1. lo \in Int /\ s \in Int /\ GhostDepth \in Int /\ d[a] \in Int
    BY BlockSize, LocalPosition, GeometryAssumption, GhostDepthAssumption DEF Decomposed
  <2>2. at(a) = IF a # f[1] THEN lo ELSE IF f[2] = 0 THEN 0 ELSE lo + s
    BY LayerStarts
  <2>3. /\ a # f[1] => d[a] >= lo /\ d[a] < lo + s
        /\ a = f[1] /\ f[2] = 0 => d[a] >= 0 /\ d[a] < GhostDepth
        /\ a = f[1] /\ f[2] = 1 => d[a] >= lo + s /\ d[a] < lo + s + GhostDepth
    OBVIOUS
  <2> HIDE DEF lo, s, at
  <2> QED
    BY <1>1, <2>1, <2>2, <2>3 DEF s
<1>3. o \in Int \X Int \X Int
  BY <1>2
<1>4. \A a \in 1..3 : o[a] = d[a] - at(a)
  OBVIOUS
<1>5. d = <<at(1) + o[1], at(2) + o[2], at(3) + o[3]>>
  <2>1. d = <<d[1], d[2], d[3]>>
    OBVIOUS
  <2> QED
    BY <1>2, <2>1
<1>6. d = D(g)!Plus(D(g)!GhostLayer(l, f), o)
  BY <1>5 DEF D!Plus, D!X, D!Y, D!Z
<1> HIDE DEF o, at
<1>7. o \in D(g)!Offset(f)
  BY <1>2, <1>3, <1>4, OffsetIff
<1> QED
  BY <1>6, <1>7 DEF GhostCell

\* The update of a block reads blocks of its process and ghost cells of its own,
\* where it is at the edge of the process; all of it is in its halo.
LEMMA StencilCovered ==
  ASSUME NEW g, Decomposed(g), NEW p \in D(g)!Process, NEW l \in D(g)!Local,
         NEW c \in D(g)!Inside(l), NEW d \in D(g)!StencilOf(c)
  PROVE  /\ d \in D(g)!Halo(l)
         /\ \/ \E m \in D(g)!Local : d \in D(g)!Inside(m)
            \/ \E f \in Faces : AtEdge(g, l, f) /\ GhostCell(g, l, f, d)
<1>1. CASE d = c
  BY <1>1, HaloInCell
<1>2. CASE d # c
  <2>1. c \in Int \X Int \X Int /\ d \in Int \X Int \X Int
    BY <1>2, InsideCell, StencilCell
  <2>2. PICK f \in Faces, k \in 1..GhostDepth :
          /\ \A a \in 1..3 : a # f[1] => d[a] = c[a]
          /\ d[f[1]] = IF f[2] = 0 THEN c[f[1]] - k ELSE c[f[1]] + k
    BY <1>2, <2>1, StencilCell
  <2>3. ASSUME NEW a \in 1..3
        PROVE  /\ c[a] >= D(g)!ls[a] * l[a] + GhostDepth
               /\ c[a] < D(g)!ls[a] * l[a] + GhostDepth + D(g)!ls[a] /\ c[a] \in Int /\ d[a] \in Int
    BY <2>1, InsideCell
  <2> DEFINE b == f[1]
             s == D(g)!ls[b]
             y == s * l[b]
             v == d[b]
             w == c[b]
  <2>4. b \in 1..3 /\ f[2] \in {0, 1}
    BY DEF Faces
  <2>5. /\ w >= y + GhostDepth /\ w < y + GhostDepth + s /\ w \in Int /\ v \in Int
        /\ v = IF f[2] = 0 THEN w - k ELSE w + k
    BY <2>2, <2>3, <2>4
  <2>6. /\ l[b] \in 0..(g.lt[b] - 1) /\ y \in Nat /\ s \in Nat
        /\ l[b] > 0 => s <= y
        /\ GhostDepth \in Nat \ {0} /\ GhostDepth <= s /\ k \in 1..GhostDepth /\ g.lt[b] \in Nat
    <3>1. g.lt[b] \in Nat
      BY <2>4, Sizes
    <3> QED
      BY <2>4, <3>1, AlongAxis
  <2> HIDE DEF b, s, y, v, w
  <2>7. d \in D(g)!Halo(l)
    <3>1. v >= y /\ v < y + s + 2 * GhostDepth
      BY <2>4, <2>5, <2>6
    <3>2. ASSUME NEW a \in 1..3
          PROVE  d[a] >= D(g)!ls[a] * l[a] /\ d[a] < D(g)!ls[a] * l[a] + D(g)!ls[a] + 2 * GhostDepth
      <4>1. CASE a = b
        BY <3>1, <4>1 DEF v, y, s
      <4>2. CASE a # b
        <5>1. d[a] = c[a]
          BY <2>2, <4>2 DEF b
        <5>2. D(g)!ls[a] * l[a] \in Nat /\ D(g)!ls[a] \in Nat /\ GhostDepth \in Nat
          BY AlongAxis
        <5> QED
          BY <2>3, <5>1, <5>2
      <4> QED
        BY <4>1, <4>2
    <3> QED
      BY <2>1, <3>2, HaloCell
  <2>8. CASE v >= y + GhostDepth /\ v < y + GhostDepth + s
    <3>1. ASSUME NEW a \in 1..3
          PROVE  d[a] >= D(g)!ls[a] * l[a] + GhostDepth /\ d[a] < D(g)!ls[a] * l[a] + GhostDepth + D(g)!ls[a]
      BY <2>2, <2>3, <2>8 DEF v, y, s, b
    <3> QED
      BY <2>1, <2>7, <3>1, InsideIff
  <2>9. CASE AtEdge(g, l, f) /\ ~(v >= y + GhostDepth /\ v < y + GhostDepth + s)
    <3>1. l[b] = IF f[2] = 0 THEN 0 ELSE g.lt[b] - 1
      BY <2>9 DEF AtEdge, D!Edge, b
    <3>2. l[b] = 0 => y = 0
      <4>1. s * 0 = 0
        BY <2>6
      <4> QED
        BY <4>1 DEF y
    <3>3. /\ f[2] = 0 => v >= 0 /\ v < GhostDepth
          /\ f[2] = 1 => v >= y + GhostDepth + s /\ v < y + GhostDepth + s + GhostDepth
      BY <2>4, <2>5, <2>6, <2>9, <3>1, <3>2
    <3>4. \A a \in 1..3 : a # f[1] => /\ d[a] >= D(g)!ls[a] * l[a] + GhostDepth
                                      /\ d[a] < D(g)!ls[a] * l[a] + GhostDepth + D(g)!ls[a]
      BY <2>2, <2>3
    <3>5. GhostCell(g, l, f, d)
      BY <2>1, <3>3, <3>4, GhostCellIff DEF v, y, s, b
    <3> QED
      BY <2>7, <2>9, <3>5
  <2>10. CASE ~AtEdge(g, l, f) /\ ~(v >= y + GhostDepth /\ v < y + GhostDepth + s)
    <3> DEFINE n == IF f[2] = 0 THEN l[b] - 1 ELSE l[b] + 1
               m == [l EXCEPT ![b] = n]
    <3>1. n \in 0..(g.lt[b] - 1)
      <4>1. l[b] # IF f[2] = 0 THEN 0 ELSE g.lt[b] - 1
        BY <2>10 DEF AtEdge, D!Edge, b
      <4> QED
        BY <2>4, <2>6, <4>1
    <3>2. l \in Positions(g.lt) /\ D(g)!Local = Positions(g.lt)
      BY Shapes DEF Decomposed
    <3> HIDE DEF n
    <3>3. m \in D(g)!Local /\ \A a \in 1..3 : m[a] = IF a = b THEN n ELSE l[a]
      BY <2>4, <3>1, <3>2 DEF Positions
    <3>4. s * n = IF f[2] = 0 THEN y - s ELSE y + s
      BY <2>6 DEF n, y
    <3>5. v >= s * n + GhostDepth /\ v < s * n + GhostDepth + s
      BY <2>4, <2>5, <2>6, <2>10, <3>4
    <3> HIDE DEF m
    <3>6. ASSUME NEW a \in 1..3
          PROVE  d[a] >= D(g)!ls[a] * m[a] + GhostDepth /\ d[a] < D(g)!ls[a] * m[a] + GhostDepth + D(g)!ls[a]
      <4>1. CASE a = b
        BY <3>3, <3>5, <4>1 DEF v, s
      <4>2. CASE a # b
        <5>1. d[a] = c[a] /\ m[a] = l[a]
          BY <2>2, <3>3, <4>2 DEF b
        <5> QED
          BY <2>3, <5>1
      <4> QED
        BY <4>1, <4>2
    <3>7. d \in D(g)!Inside(m)
      BY <2>1, <3>3, <3>6, InsideIff
    <3> QED
      BY <2>7, <3>3, <3>7
  <2> QED
    BY <2>8, <2>9, <2>10
<1> QED
  BY <1>1, <1>2

\* Behind a remote face is a block behind one of whose faces is the first one.
LEMMA NeighborBack ==
  ASSUME NEW g \in Geometries, NEW p \in D(g)!Process, NEW l \in D(g)!Local, NEW f \in Faces,
         D(g)!Type(p, l, f) = "REMOTE",
         NEW q, q = D(g)!NeighborProcess(p, l, f), NEW m, m = D(g)!NeighborLPos(p, l, f),
         NEW h, h = Opposite(f)
  PROVE  /\ q \in D(g)!Process /\ m \in D(g)!Local /\ h \in Faces /\ Opposite(h) = f
         /\ D(g)!Type(q, m, h) = "REMOTE"
         /\ D(g)!NeighborProcess(q, m, h) = p /\ D(g)!NeighborLPos(q, m, h) = l
         /\ \A a \in 1..3 : D(g)!pPos(q)[a] =
              IF a # f[1] THEN D(g)!pPos(p)[a]
              ELSE IF f[2] = 0 THEN D(g)!pPos(p)[a] - 1 ELSE D(g)!pPos(p)[a] + 1
         /\ \A a \in 1..3 : a # f[1] => m[a] = l[a]
         /\ l[f[1]] = D(g)!Edge(g.lt, f) /\ m[f[1]] = D(g)!Edge(g.lt, h)
<1> DEFINE b == f[1]
           x == D(g)!pPos(p)
           r == D(g)!Shift(x, f, 1)
<1>1. /\ b \in {1, 2, 3} /\ f[2] \in {0, 1} /\ f = <<b, f[2]>> /\ h \in Faces /\ h = <<b, 1 - f[2]>>
      /\ h[1] = b /\ h[2] = 1 - f[2] /\ Opposite(h) = f
  BY DEF Faces, Opposite
<1>2. /\ x \in Positions(g.pt) /\ l \in Positions(g.lt) /\ Shape(g.pt) /\ Shape(g.lt)
      /\ D(g)!Local = Positions(g.lt) /\ D(g)!Rank(g.pt, x) = p
  BY ProcessPosition, Shapes
<1>3. x[b] # D(g)!Edge(g.pt, f) /\ l[b] = D(g)!Edge(g.lt, f)
  BY DEF D!Type, D!pt, D!lt
<1>4. x \in Int \X Int \X Int /\ l \in Int \X Int \X Int
      /\ x[b] \in 0..(g.pt[b] - 1) /\ l[b] \in 0..(g.lt[b] - 1) /\ g.pt[b] \in Nat \ {0} /\ g.lt[b] \in Nat \ {0}
      /\ x = <<x[1], x[2], x[3]>> /\ l = <<l[1], l[2], l[3]>>
  BY <1>1, <1>2 DEF Positions, Shape
<1>5. /\ r \in Int \X Int \X Int /\ r = <<r[1], r[2], r[3]>>
      /\ \A a \in 1..3 : r[a] = IF a # b THEN x[a] ELSE IF f[2] = 0 THEN x[a] - 1 ELSE x[a] + 1
  <2>1. /\ r \in Int \X Int \X Int
        /\ \A a \in 1..3 : r[a] = IF a # b THEN x[a] ELSE IF f[2] = 0 THEN x[a] - 1 ELSE x[a] + 1
    <3> HIDE DEF x
    <3> QED
      BY <1>4, ShiftedCell
  <2> HIDE DEF r
  <2> QED
    BY <2>1
<1>6. /\ r[b] \in 0..(g.pt[b] - 1)
      /\ r[b] # D(g)!Edge(g.pt, h)
  <2>1. r[b] = IF f[2] = 0 THEN x[b] - 1 ELSE x[b] + 1
    BY <1>1, <1>5
  <2>2. x[b] # IF f[2] = 0 THEN 0 ELSE g.pt[b] - 1
    BY <1>3 DEF D!Edge
  <2>3. D(g)!Edge(g.pt, h) = IF f[2] = 0 THEN g.pt[b] - 1 ELSE 0
    BY <1>1 DEF D!Edge
  <2> HIDE DEF r, x, b
  <2> QED
    BY <1>1, <1>4, <2>1, <2>2, <2>3
<1> HIDE DEF r
<1>7. r \in Positions(g.pt)
  <2>1. \A a \in 1..3 : r[a] \in 0..(g.pt[a] - 1)
    BY <1>2, <1>5, <1>6 DEF Positions
  <2> QED
    BY <1>5, <2>1 DEF Positions
<1>8. q = D(g)!Rank(g.pt, r)
  BY DEF D!NeighborProcess, D!pt, r
<1>9. q \in D(g)!Process /\ D(g)!pPos(q) = r
  BY <1>7, <1>8, PositionOfRank
<1>10. m = [l EXCEPT ![b] = D(g)!Edge(g.lt, h)]
  BY <1>1 DEF D!NeighborLPos, D!lt, Opposite, D!Opposite
<1>11. D(g)!Edge(g.lt, h) \in 0..(g.lt[b] - 1)
  BY <1>1, <1>4 DEF D!Edge
<1>12. /\ m \in Positions(g.lt) /\ m[b] = D(g)!Edge(g.lt, h)
       /\ \A a \in 1..3 : a # b => m[a] = l[a]
  BY <1>1, <1>2, <1>10, <1>11 DEF Positions
<1>13. D(g)!Type(q, m, h) = "REMOTE"
  BY <1>1, <1>6, <1>9, <1>12 DEF D!Type, D!pt, D!lt
<1>14. D(g)!NeighborProcess(q, m, h) = p
  <2>1. D(g)!Shift(r, h, 1) \in Int \X Int \X Int /\ \A a \in 1..3 : D(g)!Shift(r, h, 1)[a] =
          IF a # h[1] THEN r[a] ELSE IF h[2] = 0 THEN r[a] - 1 ELSE r[a] + 1
    BY <1>1, <1>5, ShiftedCell
  <2>2. ASSUME NEW a \in 1..3 PROVE D(g)!Shift(r, h, 1)[a] = x[a]
    <3>1. x[a] \in Int
      BY <1>4
    <3>2. D(g)!Shift(r, h, 1)[a] = IF a # h[1] THEN r[a] ELSE IF h[2] = 0 THEN r[a] - 1 ELSE r[a] + 1
      BY <2>1
    <3>3. r[a] = IF a # b THEN x[a] ELSE IF f[2] = 0 THEN x[a] - 1 ELSE x[a] + 1
      BY <1>5
    <3>4. h[1] = b /\ f[2] \in {0, 1} /\ h[2] = 1 - f[2]
      BY <1>1
    <3> HIDE DEF x, b
    <3> QED
      BY <3>1, <3>2, <3>3, <3>4
  <2>3. D(g)!Shift(r, h, 1) = x
    <3> DEFINE w == D(g)!Shift(r, h, 1)
    <3>1. w = <<w[1], w[2], w[3]>>
      <4>1. w \in Int \X Int \X Int
        BY <2>1
      <4> HIDE DEF w
      <4> QED
        BY <4>1
    <3> QED
      BY <1>4, <2>2, <3>1
  <2> QED
    BY <1>2, <1>9, <1>13, <2>3 DEF D!NeighborProcess, D!pt
<1>15. D(g)!NeighborLPos(q, m, h) = l
  <2>1. D(g)!NeighborLPos(q, m, h) = [m EXCEPT ![b] = D(g)!Edge(g.lt, f)]
    BY <1>1, <1>13 DEF D!NeighborLPos, D!lt, Opposite, D!Opposite
  <2>2. PICK w : w = D(g)!NeighborLPos(q, m, h)
    OBVIOUS
  <2>3. w = [m EXCEPT ![b] = l[b]]
    BY <1>3, <2>1, <2>2
  <2>4. m = <<m[1], m[2], m[3]>>
    BY <1>12 DEF Positions
  <2>5. w = <<w[1], w[2], w[3]>> /\ \A a \in 1..3 : w[a] = IF a = b THEN l[b] ELSE m[a]
    <3> HIDE DEF b
    <3> QED
      BY <1>1, <2>3, <2>4
  <2>6. \A a \in 1..3 : w[a] = l[a]
    BY <1>12, <2>5
  <2> QED
    BY <1>4, <2>2, <2>5, <2>6
<1> QED
  BY <1>1, <1>2, <1>3, <1>5, <1>9, <1>12, <1>13, <1>14, <1>15

\* Cells are added along each axis.
LEMMA PlusCell ==
  ASSUME NEW g, NEW c, NEW o, NEW a \in 1..3
  PROVE  D(g)!Plus(c, o)[a] = c[a] + o[a]
BY DEF D!Plus, D!X, D!Y, D!Z

\* A message fills the ghost cells with the cells of the domain that they stand for.
LEMMA SamePlace ==
  ASSUME NEW g, Decomposed(g), NEW p \in D(g)!Process, NEW l \in D(g)!Local, NEW f \in Faces,
         D(g)!Type(p, l, f) = "REMOTE",
         NEW q, q = D(g)!NeighborProcess(p, l, f), NEW m, m = D(g)!NeighborLPos(p, l, f),
         NEW h, h = Opposite(f), NEW o \in D(g)!Offset(f)
  PROVE  \A a \in 1..3 : Coordinate(g, p, D(g)!Plus(D(g)!GhostLayer(l, f), o), a)
                           = Coordinate(g, q, D(g)!Plus(D(g)!OwnLayer(m, h), o), a)
<1> SUFFICES ASSUME NEW a \in 1..3
             PROVE  Coordinate(g, p, D(g)!Plus(D(g)!GhostLayer(l, f), o), a)
                      = Coordinate(g, q, D(g)!Plus(D(g)!OwnLayer(m, h), o), a)
  OBVIOUS
<1>1. /\ q \in D(g)!Process /\ m \in D(g)!Local /\ h \in Faces /\ Opposite(h) = f
      /\ D(g)!pPos(q)[a] = IF a # f[1] THEN D(g)!pPos(p)[a]
                           ELSE IF f[2] = 0 THEN D(g)!pPos(p)[a] - 1 ELSE D(g)!pPos(p)[a] + 1
      /\ a # f[1] => m[a] = l[a]
      /\ l[f[1]] = D(g)!Edge(g.lt, f) /\ m[f[1]] = D(g)!Edge(g.lt, h)
  BY NeighborBack DEF Decomposed
<1>2. f[1] \in 1..3 /\ f[2] \in {0, 1} /\ h[1] = f[1] /\ h[2] = 1 - f[2]
  BY DEF Faces, Opposite
<1> DEFINE x == D(g)!pPos(p)[a]
           z == D(g)!pPos(q)[a]
           s == D(g)!ps[a]
           k == D(g)!ls[a]
           ghost == D(g)!GhostLayer(l, f)[a]
           own == D(g)!OwnLayer(m, h)[a]
<1>3. /\ x \in Int /\ s \in Int /\ k \in Int /\ l[a] \in Int /\ m[a] \in Int /\ GhostDepth \in Int /\ z \in Int
      /\ l[a] = g.lt[a] - 1 => k * l[a] + k = s
      /\ m[a] = g.lt[a] - 1 => k * m[a] + k = s
      /\ k * l[a] \in Int /\ k * m[a] \in Int
  BY <1>1, AlongAxis
<1>4. o[a] \in Int
  BY OffsetCell
<1>5. /\ ghost = IF a # f[1] THEN k * l[a] + GhostDepth
                 ELSE IF f[2] = 0 THEN 0 ELSE k * l[a] + GhostDepth + k
      /\ own = IF a # h[1] \/ h[2] = 0 THEN k * m[a] + GhostDepth
               ELSE k * m[a] + GhostDepth + k - GhostDepth
  BY <1>1, LayerStarts
<1>6. /\ Coordinate(g, p, D(g)!Plus(D(g)!GhostLayer(l, f), o), a) = x * s + (ghost + o[a]) - GhostDepth
      /\ Coordinate(g, q, D(g)!Plus(D(g)!OwnLayer(m, h), o), a) = z * s + (own + o[a]) - GhostDepth
  BY PlusCell DEF Coordinate
<1> HIDE DEF x, z, s, k, ghost, own
<1>7. /\ x * s \in Int
      /\ z = x - 1 => z * s = x * s - s
      /\ z = x + 1 => z * s = x * s + s
      /\ k * 0 = 0
  BY <1>3
<1>8. x * s + (ghost + o[a]) - GhostDepth = z * s + (own + o[a]) - GhostDepth
  <2>1. CASE a # f[1]
    <3>1. ghost = own /\ z = x
      BY <1>1, <1>2, <1>5, <2>1 DEF x, z
    <3> QED
      BY <3>1
  <2>2. CASE a = f[1] /\ f[2] = 0
    <3>1. ghost = 0 /\ m[a] = g.lt[a] - 1 /\ z = x - 1
      BY <1>1, <1>2, <1>5, <2>2 DEF D!Edge, x, z
    <3>2. own = k * m[a] + GhostDepth + k - GhostDepth /\ k * m[a] + k = s
      BY <1>2, <1>3, <1>5, <2>2, <3>1
    <3> DEFINE km == k * m[a]
               xs == x * s
               zs == z * s
    <3>3. zs = xs - s /\ xs \in Int /\ km \in Int /\ own = km + GhostDepth + k - GhostDepth /\ km + k = s
      BY <1>3, <1>7, <3>1, <3>2
    <3> HIDE DEF km, xs, zs
    <3>4. xs + (ghost + o[a]) - GhostDepth = zs + (own + o[a]) - GhostDepth
      BY <1>3, <1>4, <3>1, <3>3
    <3> QED
      BY <3>4 DEF xs, zs
  <2>3. CASE a = f[1] /\ f[2] = 1
    <3>1. ghost = k * l[a] + GhostDepth + k /\ m[a] = 0 /\ z = x + 1 /\ l[a] = g.lt[a] - 1
      BY <1>1, <1>2, <1>5, <2>3 DEF D!Edge, x, z
    <3>2. own = k * 0 + GhostDepth /\ k * l[a] + k = s
      BY <1>2, <1>3, <1>5, <2>3, <3>1
    <3> DEFINE kl == k * l[a]
               xs == x * s
               zs == z * s
    <3>3. /\ zs = xs + s /\ xs \in Int /\ kl \in Int /\ own = GhostDepth
          /\ kl + k = s /\ ghost = kl + GhostDepth + k
      BY <1>3, <1>7, <3>1, <3>2
    <3> HIDE DEF kl, xs, zs
    <3>4. xs + (ghost + o[a]) - GhostDepth = zs + (own + o[a]) - GhostDepth
      BY <1>3, <1>4, <3>3
    <3> QED
      BY <3>4 DEF xs, zs
  <2> QED
    BY <1>2, <2>1, <2>2, <2>3
<1> QED
  BY <1>6, <1>8

\* No block is empty.
LEMMA BlockHasCells ==
  ASSUME NEW g, Decomposed(g), NEW l \in D(g)!Local
  PROVE  D(g)!Inside(l) # {}
<1> DEFINE c == <<D(g)!lStart(l)[1], D(g)!lStart(l)[2], D(g)!lStart(l)[3]>>
<1>1. ASSUME NEW a \in 1..3
      PROVE  D(g)!lStart(l)[a] \in D(g)!lStart(l)[a]..D(g)!Below(D(g)!lEnd(l))[a]
  <2> PICK s, y : s = D(g)!ls[a] /\ y = l[a]
    OBVIOUS
  <2>1. s \in Nat \ {0} /\ y \in Nat /\ GhostDepth \in Nat
    BY BlockSize, LocalPosition, GeometryAssumption, GhostDepthAssumption DEF Decomposed
  <2>2. /\ D(g)!lStart(l)[a] = s * y + GhostDepth
        /\ D(g)!lEnd(l)[a] = D(g)!lStart(l)[a] + s
        /\ D(g)!Below(D(g)!lEnd(l))[a] = D(g)!lEnd(l)[a] - 1
    <3>1. a \in D(g)!Axis
      BY DEF D!Axis, D!X, D!Y, D!Z
    <3> QED
      BY <3>1 DEF D!lStart, D!lEnd, D!Below
  <2>3. s * y \in Nat
    BY <2>1
  <2> QED
    BY <2>1, <2>2, <2>3
<1>2. c \in D(g)!Inside(l)
  BY <1>1 DEF D!Inside, D!Box, D!X, D!Y, D!Z
<1> QED
  BY <1>2

\* The block beyond a local face has this one beyond its opposite face.
LEMMA ShiftBack ==
  ASSUME NEW g \in Geometries, NEW l \in D(g)!Local, NEW f \in Faces, l[f[1]] # D(g)!Edge(g.lt, f),
         NEW m, m = D(g)!Shift(l, f, 1), NEW h, h = Opposite(f)
  PROVE  m \in D(g)!Local /\ h \in Faces /\ m[h[1]] # D(g)!Edge(g.lt, h) /\ D(g)!Shift(m, h, 1) = l
<1>1. /\ f[1] \in 1..3 /\ f[2] \in {0, 1} /\ h \in Faces /\ h[1] = f[1] /\ h[2] = 1 - f[2]
  BY DEF Faces, Opposite
<1>2. l \in Positions(g.lt) /\ Shape(g.lt) /\ D(g)!Local = Positions(g.lt)
  BY Shapes
<1>3. /\ l \in Int \X Int \X Int /\ l = <<l[1], l[2], l[3]>>
      /\ \A a \in 1..3 : l[a] \in 0..(g.lt[a] - 1) /\ g.lt[a] \in Nat \ {0}
  BY <1>2 DEF Positions, Shape
<1>4. /\ m \in Int \X Int \X Int
      /\ \A a \in 1..3 : m[a] = IF a # f[1] THEN l[a] ELSE IF f[2] = 0 THEN l[a] - 1 ELSE l[a] + 1
  BY <1>3, ShiftedCell
<1>5. \A a \in 1..3 : m[a] \in 0..(g.lt[a] - 1)
  <2>1. l[f[1]] # IF f[2] = 0 THEN 0 ELSE g.lt[f[1]] - 1
    BY DEF D!Edge
  <2> QED
    BY <1>1, <1>3, <1>4, <2>1
<1>6. m \in Positions(g.lt)
  BY <1>4, <1>5 DEF Positions
<1>7. m[h[1]] # D(g)!Edge(g.lt, h)
  BY <1>1, <1>3, <1>4 DEF D!Edge
<1>8. D(g)!Shift(m, h, 1) = l
  <2> PICK w : w = D(g)!Shift(m, h, 1)
    OBVIOUS
  <2>1. /\ w \in Int \X Int \X Int
        /\ \A a \in 1..3 : w[a] = IF a # h[1] THEN m[a] ELSE IF h[2] = 0 THEN m[a] - 1 ELSE m[a] + 1
    BY <1>1, <1>4, ShiftedCell
  <2>2. ASSUME NEW a \in 1..3 PROVE w[a] = l[a]
    <3>1. l[a] \in Int /\ m[a] = IF a # f[1] THEN l[a] ELSE IF f[2] = 0 THEN l[a] - 1 ELSE l[a] + 1
      BY <1>3, <1>4
    <3> QED
      BY <1>1, <2>1, <3>1
  <2>3. w = <<w[1], w[2], w[3]>>
    BY <2>1
  <2> QED
    BY <1>3, <2>2, <2>3
<1> QED
  BY <1>1, <1>2, <1>6, <1>7, <1>8

\* The ghost cells at an edge of the process are in the halo of the block.
LEMMA GhostInHalo ==
  ASSUME NEW g, Decomposed(g), NEW l \in D(g)!Local, NEW f \in Faces, AtEdge(g, l, f),
         NEW c, GhostCell(g, l, f, c)
  PROVE  c \in D(g)!Halo(l) /\ c \in Int \X Int \X Int
<1>1. PICK o \in D(g)!Offset(f) : c = D(g)!Plus(D(g)!GhostLayer(l, f), o)
  BY DEF GhostCell
<1>2. c \in Int \X Int \X Int
  BY LayerCell
<1>3. ASSUME NEW a \in 1..3
      PROVE  /\ c[a] >= D(g)!ls[a] * l[a]
             /\ c[a] < D(g)!ls[a] * l[a] + D(g)!ls[a] + 2 * GhostDepth
  <2>1. c[a] = D(g)!GhostLayer(l, f)[a] + o[a]
    BY <1>1, PlusCell
  <2>2. D(g)!GhostLayer(l, f)[a] =
              IF a # f[1] THEN D(g)!ls[a] * l[a] + GhostDepth
              ELSE IF f[2] = 0 THEN 0 ELSE D(g)!ls[a] * l[a] + GhostDepth + D(g)!ls[a]
    BY LayerStarts
  <2>3. o[a] \in Int /\ o[a] >= 0 /\ o[a] < IF a = f[1] THEN GhostDepth ELSE D(g)!ls[a]
    BY OffsetCell
  <2>4. D(g)!ls[a] \in Nat /\ l[a] \in Nat /\ GhostDepth \in Nat
    <3>1. l[a] \in 0..(g.lt[a] - 1)
      BY LocalPosition DEF Decomposed
    <3> QED
      BY <3>1, Sizes, GhostDepthAssumption
  <2> DEFINE s == D(g)!ls[a] * l[a]
  <2>5. s \in Nat
    BY <2>4
  <2>6. a = f[1] /\ f[2] = 0 => s = 0
    <3>1. a = f[1] /\ f[2] = 0 => l[a] = 0
      BY DEF AtEdge, D!Edge
    <3> QED
      BY <2>4, <3>1
  <2> HIDE DEF s
  <2>7. D(g)!GhostLayer(l, f)[a] =
              IF a # f[1] THEN s + GhostDepth ELSE IF f[2] = 0 THEN 0 ELSE s + GhostDepth + D(g)!ls[a]
    BY <2>2 DEF s
  <2>8. c[a] >= s /\ c[a] < s + D(g)!ls[a] + 2 * GhostDepth
    <3>1. CASE a # f[1]
      BY <2>1, <2>3, <2>4, <2>5, <2>7, <3>1
    <3>2. CASE a = f[1] /\ f[2] = 0
      BY <2>1, <2>3, <2>4, <2>5, <2>6, <2>7, <3>2
    <3>3. CASE a = f[1] /\ f[2] # 0
      BY <2>1, <2>3, <2>4, <2>5, <2>7, <3>3
    <3> QED
      BY <3>1, <3>2, <3>3
  <2> QED
    BY <2>8 DEF s
<1> QED
  BY <1>2, <1>3, HaloCell

\* Ghost cells with no process behind them are outside of the domain.
LEMMA BoundaryGhost ==
  ASSUME NEW g, Decomposed(g), NEW p \in D(g)!Process, NEW l \in D(g)!Local, NEW f \in Faces,
         D(g)!Type(p, l, f) = "BOUNDARY", AtEdge(g, l, f), NEW c, GhostCell(g, l, f, c)
  PROVE  ~InDomain(g, p, c)
<1> DEFINE a == f[1]
<1>1. a \in 1..3 /\ f[2] \in {0, 1}
  BY DEF Faces
<1>2. c \in D(g)!Halo(l) /\ c \in Int \X Int \X Int
  BY GhostInHalo
<1>3. c[a] \in Int /\ c[a] < D(g)!ls[a] * l[a] + D(g)!ls[a] + 2 * GhostDepth
  BY <1>1, <1>2, HaloCell
<1>4. /\ f[2] = 0 => c[a] >= 0 /\ c[a] < GhostDepth
      /\ f[2] = 1 => c[a] >= D(g)!ls[a] * l[a] + GhostDepth + D(g)!ls[a]
  BY LayerCell
<1>5. /\ GhostDepth \in Nat /\ D(g)!ps[a] \in Nat /\ D(g)!ls[a] \in Nat
      /\ D(g)!fs[a] = D(g)!ps[a] + 2 * GhostDepth /\ D(g)!ls[a] * l[a] \in Nat
      /\ f[2] = 1 => D(g)!ls[a] * l[a] + D(g)!ls[a] = D(g)!ps[a]
  <2>1. f[2] = 1 => l[a] = g.lt[a] - 1
    BY DEF AtEdge, D!Edge
  <2>2. /\ GhostDepth \in Nat /\ D(g)!ps[a] \in Nat /\ D(g)!ls[a] \in Nat /\ D(g)!ls[a] * l[a] \in Nat
        /\ l[a] = g.lt[a] - 1 => D(g)!ls[a] * l[a] + D(g)!ls[a] = D(g)!ps[a]
    BY <1>1, AlongAxis
  <2>3. D(g)!fs[a] = D(g)!ps[a] + 2 * GhostDepth
    BY <1>1, Sizes
  <2> QED
    BY <2>1, <2>2, <2>3
<1> DEFINE s == D(g)!ls[a] * l[a]
           n == D(g)!ls[a]
           m == D(g)!ps[a]
           k == D(g)!fs[a]
<1>6. c[a] \in IF f[2] = 0 THEN 0..(GhostDepth - 1) ELSE (m + GhostDepth)..(k - 1)
  <2>1. /\ c[a] \in Int /\ c[a] < s + n + 2 * GhostDepth /\ s \in Nat /\ n \in Nat /\ m \in Nat
        /\ f[2] = 0 => c[a] >= 0 /\ c[a] < GhostDepth
        /\ f[2] = 1 => c[a] >= s + GhostDepth + n
        /\ f[2] = 1 => s + n = m
        /\ k = m + 2 * GhostDepth
    BY <1>3, <1>4, <1>5
  <2> HIDE DEF s, n, m, k, a
  <2>2. GhostDepth \in Nat /\ k \in Nat
    BY <1>5, <2>1
  <2>3. CASE f[2] = 0
    BY <2>1, <2>2, <2>3
  <2>4. CASE f[2] = 1
    BY <2>1, <2>2, <2>4
  <2> QED
    BY <1>1, <2>3, <2>4
<1>7. c \in D(g)!Outside(p, l)
  <2>1. f \in D(g)!Faces
    BY FacesAreFaces
  <2> QED
    BY <1>2, <1>6, <2>1 DEF D!Outside
<1> QED
  BY <1>2, <1>7, OutsideIff

\* Whatever the launch, the cells of a block are among those of its process.
LEMMA InsideInCell ==
  ASSUME NEW g \in Geometries, NEW l \in D(g)!Local
  PROVE  D(g)!Inside(l) \subseteq D(g)!Cell
<1> DEFINE low == D(g)!lStart(l)
           high == D(g)!Below(D(g)!lEnd(l))
           top == D(g)!Below(D(g)!fs)
<1>1. D(g)!Axis = 1..3
  BY DEF D!Axis, D!X, D!Y, D!Z
<1>2. ASSUME NEW a \in 1..3
      PROVE  /\ low[a] \in Nat /\ high[a] \in Int /\ top[a] \in Int /\ high[a] <= top[a]
             /\ D(g)!Origin[a] = 0
  <2> PICK n, k, s, y : n = g.lt[a] /\ k = D(g)!ps[a] /\ s = D(g)!ls[a] /\ y = l[a]
    OBVIOUS
  <2>1. n \in Nat \ {0} /\ g.N \in Nat /\ g.pt[a] \in Nat \ {0} /\ GhostDepth \in Nat
    BY GeometryAssumption, GhostDepthAssumption
  <2>2. k = g.N \div g.pt[a] /\ s = k \div n
    BY <1>1 DEF D!ps, D!ls, D!N, D!pt, D!lt
  <2>3. ASSUME NEW x \in Nat, NEW d \in Nat \ {0} PROVE x \div d \in Nat /\ (x \div d) * d <= x
    <3>1. x = (x \div d) * d + (x % d) /\ x % d \in 0..(d - 1) /\ x \div d \in Int
      BY <2>3
    <3>2. x \div d >= 0
      BY <2>3
    <3> QED
      BY <3>1, <3>2
  <2>4. k \in Nat /\ s \in Nat /\ s * n <= k
    BY <2>1, <2>2, <2>3
  <2>5. y \in 0..(n - 1)
    BY LocalPosition
  <2>6. s * y \in Nat /\ s * n \in Nat /\ s * y + s <= s * n
    BY <2>1, <2>4, <2>5, Multiples
  <2>7. low[a] = s * y + GhostDepth
    BY <1>1 DEF D!lStart
  <2>8. D(g)!lEnd(l)[a] = low[a] + s
    BY <1>1 DEF D!lEnd
  <2>9. high[a] = D(g)!lEnd(l)[a] - 1 /\ top[a] = D(g)!fs[a] - 1 /\ D(g)!fs[a] = k + 2 * GhostDepth
    BY <1>1 DEF D!Below, D!fs
  <2>10. D(g)!Origin[a] = 0
    BY DEF D!Origin
  <2> HIDE DEF low, high, top
  <2> QED
    BY <2>1, <2>4, <2>6, <2>7, <2>8, <2>9, <2>10
<1>3. /\ D(g)!Inside(l) = (low[1]..high[1]) \X (low[2]..high[2]) \X (low[3]..high[3])
      /\ D(g)!Cell = (0..top[1]) \X (0..top[2]) \X (0..top[3])
  BY DEF D!Inside, D!Cell, D!Box, D!X, D!Y, D!Z, D!Origin
<1> HIDE DEF low, high, top
<1>4. \A a \in 1..3 : low[a]..high[a] \subseteq 0..top[a]
  BY <1>2
<1> QED
  BY <1>3, <1>4

-----------------------------------------------------------------------------
\* The whole: every place of the domain is one cell of one block.

\* No two cells of the blocks of a launch are at the same place of the domain,
LEMMA DifferentPlaces ==
  ASSUME NEW g, Decomposed(g), NEW p \in D(g)!Process, NEW q \in D(g)!Process,
         NEW l \in D(g)!Local, NEW m \in D(g)!Local,
         NEW c \in D(g)!Inside(l), NEW d \in D(g)!Inside(m),
         \A a \in 1..3 : Coordinate(g, p, c, a) = Coordinate(g, q, d, a)
  PROVE  p = q /\ c = d /\ l = m
<1>1. ASSUME NEW a \in 1..3 PROVE D(g)!pPos(p)[a] = D(g)!pPos(q)[a] /\ c[a] = d[a]
  <2> DEFINE s == D(g)!ps[a]
             x == D(g)!pPos(p)[a]
             y == D(g)!pPos(q)[a]
             v == c[a] - GhostDepth
             w == d[a] - GhostDepth
  <2>1. s \in Nat \ {0} /\ x \in Nat /\ y \in Nat /\ GhostDepth \in Nat
    BY AlongAxis
  <2>2. c[a] \in Int /\ d[a] \in Int
    BY InsideCell
  <2>3. v \in 0..(s - 1)
    <3>1. /\ c[a] >= D(g)!ls[a] * l[a] + GhostDepth
          /\ c[a] < D(g)!ls[a] * l[a] + GhostDepth + D(g)!ls[a]
      BY InsideCell
    <3>2. D(g)!ls[a] * l[a] \in Nat /\ D(g)!ls[a] * l[a] + D(g)!ls[a] <= s /\ D(g)!ls[a] \in Nat
      BY AlongAxis
    <3> QED
      BY <2>1, <2>2, <3>1, <3>2
  <2>4. w \in 0..(s - 1)
    <3>1. /\ d[a] >= D(g)!ls[a] * m[a] + GhostDepth
          /\ d[a] < D(g)!ls[a] * m[a] + GhostDepth + D(g)!ls[a]
      BY InsideCell
    <3>2. D(g)!ls[a] * m[a] \in Nat /\ D(g)!ls[a] * m[a] + D(g)!ls[a] <= s /\ D(g)!ls[a] \in Nat
      BY AlongAxis
    <3> QED
      BY <2>1, <2>2, <3>1, <3>2
  <2>5. Coordinate(g, p, c, a) = x * s + c[a] - GhostDepth
        /\ Coordinate(g, q, d, a) = y * s + d[a] - GhostDepth
    BY DEF Coordinate
  <2>6. Coordinate(g, p, c, a) = Coordinate(g, q, d, a)
    OBVIOUS
  <2> HIDE DEF s, x, y
  <2>7. x * s + v = y * s + w
    <3>1. x * s \in Int /\ y * s \in Int
      BY <2>1
    <3> QED
      BY <2>1, <2>2, <2>5, <2>6, <3>1
  <2>8. v = w /\ x = y
    <3> HIDE DEF v, w
    <3> QED
      BY <2>1, <2>3, <2>4, <2>7, Digits
  <2> QED
    BY <2>1, <2>2, <2>8 DEF x, y
<1>2. D(g)!pPos(p) \in Positions(g.pt) /\ D(g)!pPos(q) \in Positions(g.pt)
  BY ProcessPosition DEF Decomposed
<1>3. D(g)!pPos(p) = D(g)!pPos(q)
  BY <1>1, <1>2 DEF Positions
<1>4. p = q
  BY <1>3, ProcessPosition DEF Decomposed
<1>5. c \in Int \X Int \X Int /\ d \in Int \X Int \X Int
  BY InsideCell
<1>6. c = d
  BY <1>1, <1>5
<1> QED
  BY <1>4, <1>6, BlocksApart

\* and every place of the domain is that of one: first along one axis,
LEMMA AlongDomain ==
  ASSUME NEW g, Decomposed(g), NEW a \in 1..3, NEW v \in 0..(g.N - 1)
  PROVE  \E x \in 0..(g.pt[a] - 1), y \in 0..(g.lt[a] - 1), z \in 0..(D(g)!ls[a] - 1) :
           v = x * D(g)!ps[a] + (D(g)!ls[a] * y + z)
<1> DEFINE s == D(g)!ps[a]
           k == D(g)!ls[a]
<1>1. /\ s \in Nat \ {0} /\ k \in Nat \ {0} /\ g.pt[a] \in Nat \ {0} /\ g.lt[a] \in Nat \ {0}
      /\ s = k * g.lt[a] /\ g.N = s * g.pt[a] /\ g.N \in Nat
  BY Sizes
<1> HIDE DEF s, k
<1>2. g.N = g.pt[a] * s /\ s = g.lt[a] * k
  BY <1>1
<1>3. PICK x \in 0..(g.pt[a] - 1), w \in 0..(s - 1) : v = x * s + w
  <2>1. v \in 0..(g.pt[a] * s - 1)
    BY <1>2
  <2>2. s \in Nat \ {0} /\ g.pt[a] \in Nat
    BY <1>1
  <2> QED
    BY ONLY <2>1, <2>2, DigitsExist
<1>4. PICK y \in 0..(g.lt[a] - 1), z \in 0..(k - 1) : w = y * k + z
  <2>1. w \in 0..(g.lt[a] * k - 1)
    BY <1>2, <1>3
  <2>2. k \in Nat \ {0} /\ g.lt[a] \in Nat
    BY <1>1
  <2> QED
    BY ONLY <2>1, <2>2, DigitsExist
<1>5. y * k = k * y
  BY <1>1
<1>6. v = x * s + (k * y + z)
  BY <1>3, <1>4, <1>5
<1> QED
  BY <1>3, <1>4, <1>6 DEF s, k

\* then along all three.
LEMMA EveryPlace ==
  ASSUME NEW g, Decomposed(g), NEW e \in (0..(g.N - 1)) \X (0..(g.N - 1)) \X (0..(g.N - 1))
  PROVE  \E p \in D(g)!Process, l \in D(g)!Local : \E c \in D(g)!Inside(l) :
           c \in Int \X Int \X Int /\ \A a \in 1..3 : Coordinate(g, p, c, a) = e[a]
<1>1. PICK x1 \in 0..(g.pt[1] - 1), y1 \in 0..(g.lt[1] - 1), z1 \in 0..(D(g)!ls[1] - 1) :
        e[1] = x1 * D(g)!ps[1] + (D(g)!ls[1] * y1 + z1)
  BY AlongDomain
<1>2. PICK x2 \in 0..(g.pt[2] - 1), y2 \in 0..(g.lt[2] - 1), z2 \in 0..(D(g)!ls[2] - 1) :
        e[2] = x2 * D(g)!ps[2] + (D(g)!ls[2] * y2 + z2)
  BY AlongDomain
<1>3. PICK x3 \in 0..(g.pt[3] - 1), y3 \in 0..(g.lt[3] - 1), z3 \in 0..(D(g)!ls[3] - 1) :
        e[3] = x3 * D(g)!ps[3] + (D(g)!ls[3] * y3 + z3)
  BY AlongDomain
<1> DEFINE x == <<x1, x2, x3>>
           l == <<y1, y2, y3>>
           z == <<z1, z2, z3>>
           At(a) == D(g)!ls[a] * l[a] + GhostDepth + z[a]
           c == <<At(1), At(2), At(3)>>
           p == D(g)!Rank(g.pt, x)
<1>4. x \in Positions(g.pt) /\ l \in Positions(g.lt)
  BY <1>1, <1>2, <1>3 DEF Positions
<1>5. p \in D(g)!Process /\ D(g)!pPos(p) = x
  BY <1>4, PositionOfRank DEF Decomposed
<1>6. l \in D(g)!Local
  BY <1>4, Shapes DEF Decomposed
<1>7. \A a \in 1..3 : z[a] \in 0..(D(g)!ls[a] - 1) /\ e[a] = x[a] * D(g)!ps[a] + (D(g)!ls[a] * l[a] + z[a])
  BY <1>1, <1>2, <1>3
<1> HIDE DEF x, l, z, p
<1>8. ASSUME NEW a \in 1..3
      PROVE  /\ c[a] = At(a) /\ At(a) \in Int
             /\ At(a) >= D(g)!ls[a] * l[a] + GhostDepth
             /\ At(a) < D(g)!ls[a] * l[a] + GhostDepth + D(g)!ls[a]
             /\ Coordinate(g, p, c, a) = e[a]
  <2>1. c[a] = At(a)
    OBVIOUS
  <2>2. /\ D(g)!ls[a] * l[a] \in Nat /\ GhostDepth \in Nat /\ D(g)!ls[a] \in Nat
        /\ D(g)!ps[a] \in Nat /\ x[a] \in Nat
    BY <1>5, <1>6, AlongAxis
  <2>3. x[a] * D(g)!ps[a] \in Int
    BY <2>2
  <2>4. z[a] \in 0..(D(g)!ls[a] - 1) /\ e[a] = x[a] * D(g)!ps[a] + (D(g)!ls[a] * l[a] + z[a])
    BY <1>7
  <2>5. Coordinate(g, p, c, a) = x[a] * D(g)!ps[a] + c[a] - GhostDepth
    BY <1>5 DEF Coordinate
  <2> QED
    BY <2>1, <2>2, <2>3, <2>4, <2>5
<1>9. c \in Int \X Int \X Int
  BY <1>8
<1> HIDE DEF c, At
<1>10. c \in D(g)!Inside(l)
  BY <1>6, <1>8, <1>9, InsideIff
<1> QED
  BY <1>5, <1>6, <1>8, <1>9, <1>10
=============================================================================
