---------------------- MODULE FloorplanGeometry_proofs ----------------------
(***************************************************************************)
(* Proofs about the normalisation of a proposed room, for every contour    *)
(* with integer coordinates: removing a flat corner changes neither the    *)
(* area nor the crossings of the walls nor the line an edge lies on, and   *)
(* an edge is always found to match the wall it lies on.                   *)
(***************************************************************************)
EXTENDS FloorplanGeometry, FiniteSetTheorems, WellFoundedInduction, TLAPS

Point == Int \X Int

-----------------------------------------------------------------------------
(* Points and lines. *)

LEMMA CrossIs ==
  ASSUME NEW a \in Point, NEW b \in Point, NEW c \in Point
  PROVE  /\ Cross(a, b, c) = (b[1] - a[1]) * (c[2] - a[2]) - (b[2] - a[2]) * (c[1] - a[1])
         /\ Cross(a, b, c) \in Int
BY DEF Point, Cross, CrossOf, Minus

LEMMA LineIs ==
  ASSUME NEW a \in Point, NEW b \in Point, NEW c \in Point
  PROVE  (Cross(a, b, c) = 0)
           <=> ((b[1] - a[1]) * (c[2] - a[2]) = (b[2] - a[2]) * (c[1] - a[1]))
<1> DEFINE x == (b[1] - a[1]) * (c[2] - a[2])  y == (b[2] - a[2]) * (c[1] - a[1])
<1>1. x \in Int /\ y \in Int
  <2>1. /\ a[1] \in Int /\ a[2] \in Int /\ b[1] \in Int /\ b[2] \in Int
        /\ c[1] \in Int /\ c[2] \in Int
    BY DEF Point
  <2> QED BY <2>1
<1>2. Cross(a, b, c) = x - y
  BY CrossIs
<1> HIDE DEF x, y
<1>3. (Cross(a, b, c) = 0) <=> (x = y)
  BY <1>1, <1>2
<1> QED BY <1>3 DEF x, y

LEMMA PointIs ==
  ASSUME NEW a \in Point, NEW b \in Point
  PROVE  /\ a[1] \in Int /\ a[2] \in Int
         /\ (a = b) <=> (a[1] = b[1] /\ a[2] = b[2])
BY DEF Point

LEMMA CrossTurns ==
  ASSUME NEW a \in Point, NEW b \in Point, NEW c \in Point
  PROVE  /\ Cross(b, a, c) = -Cross(a, b, c)
         /\ Cross(b, c, a) = Cross(a, b, c)
         /\ Cross(a, b, a) = 0 /\ Cross(a, b, b) = 0
         /\ Cross(a, b, c) \in Int
<1>1. /\ a[1] \in Int /\ a[2] \in Int /\ b[1] \in Int /\ b[2] \in Int
      /\ c[1] \in Int /\ c[2] \in Int
  BY PointIs
<1> QED BY CrossIs, <1>1

\* p divides the segment from a to b as m to n.
Divides(a, p, b, m, n) ==
  /\ m \in Nat \ {0} /\ n \in Nat \ {0}
  /\ n * (p[1] - a[1]) = m * (b[1] - p[1])
  /\ n * (p[2] - a[2]) = m * (b[2] - p[2])

LEMMA Sides ==
  ASSUME NEW a \in Point, NEW p \in Point, NEW b \in Point, NEW c \in Point, NEW d \in Point,
         NEW m, NEW n, Divides(a, p, b, m, n)
  PROVE  /\ Cross(a, b, p) = 0
         /\ n * Cross(a, p, c) = m * Cross(p, b, c)
         /\ Cross(a, b, c) = Cross(a, p, c) + Cross(p, b, c)
         /\ n * Cross(c, d, a) + m * Cross(c, d, b) = (m + n) * Cross(c, d, p)
<1>1. /\ a[1] \in Int /\ a[2] \in Int /\ b[1] \in Int /\ b[2] \in Int
      /\ c[1] \in Int /\ c[2] \in Int /\ d[1] \in Int /\ d[2] \in Int
      /\ p[1] \in Int /\ p[2] \in Int /\ m \in Nat \ {0} /\ n \in Nat \ {0}
  BY PointIs DEF Divides
<1> DEFINE x == p[1] - a[1]  y == p[2] - a[2]  z == b[1] - p[1]  w == b[2] - p[2]
           e == c[1] - p[1]  f == c[2] - p[2]  g == d[1] - c[1]  h == d[2] - c[2]
<1>2. x \in Int /\ y \in Int /\ z \in Int /\ w \in Int /\ e \in Int /\ f \in Int
      /\ g \in Int /\ h \in Int
  BY <1>1
<1>3. n * x = m * z /\ n * y = m * w
  BY DEF Divides
<1>4. /\ Cross(a, b, p) = (x + z) * y - (y + w) * x
      /\ Cross(a, p, c) = x * (y + f) - y * (x + e)
      /\ Cross(p, b, c) = z * f - w * e
      /\ Cross(a, b, c) = (x + z) * (y + f) - (y + w) * (x + e)
      /\ Cross(c, d, a) = g * (-(y + f)) - h * (-(x + e))
      /\ Cross(c, d, p) = g * (-f) - h * (-e)
      /\ Cross(c, d, b) = g * (w - f) - h * (z - e)
  <2>1. /\ b[1] - a[1] = x + z /\ b[2] - a[2] = y + w
        /\ c[1] - a[1] = x + e /\ c[2] - a[2] = y + f
        /\ a[1] - c[1] = -(x + e) /\ a[2] - c[2] = -(y + f)
        /\ p[1] - c[1] = -e /\ p[2] - c[2] = -f
        /\ b[1] - c[1] = z - e /\ b[2] - c[2] = w - f
    BY <1>1
  <2> QED BY <2>1, CrossIs
<1> HIDE DEF x, y, z, w, e, f, g, h
<1>5. z * y = w * x
  <2>1. m * (z * y) = (m * z) * y /\ m * (w * x) = (m * w) * x
    BY <1>1, <1>2
  <2>2. (n * x) * y = n * (x * y) /\ (n * y) * x = n * (x * y) /\ x * y \in Int
    BY <1>1, <1>2
  <2>3. m * (z * y) = m * (w * x)
    BY <1>3, <2>1, <2>2
  <2>4. z * y \in Int /\ w * x \in Int
    BY <1>2
  <2> QED BY <2>3, <2>4, <1>1
<1>6. Cross(a, b, p) = 0
  <2>1. (x + z) * y = x * y + z * y /\ (y + w) * x = x * y + w * x /\ x * y \in Int
    BY <1>2
  <2> QED BY <1>4, <1>5, <2>1, <1>2
<1>7. n * Cross(a, p, c) = m * Cross(p, b, c)
  <2>1. Cross(a, p, c) = x * f - y * e
    BY <1>2, <1>4
  <2>2. n * (x * f - y * e) = (n * x) * f - (n * y) * e
    BY <1>1, <1>2
  <2>3. m * (z * f - w * e) = (m * z) * f - (m * w) * e
    BY <1>1, <1>2
  <2> QED BY <1>3, <1>4, <2>1, <2>2, <2>3
<1>8. Cross(a, b, c) = Cross(a, p, c) + Cross(p, b, c)
  <2>1. (x + z) * (y + f) = x * (y + f) + z * y + z * f
        /\ (y + w) * (x + e) = y * (x + e) + w * x + w * e
    BY <1>2
  <2>2. /\ x * (y + f) \in Int /\ z * y \in Int /\ z * f \in Int
        /\ y * (x + e) \in Int /\ w * x \in Int /\ w * e \in Int
    BY <1>2
  <2> QED BY <1>4, <1>5, <2>1, <2>2
<1>9. n * Cross(c, d, a) + m * Cross(c, d, b) = (m + n) * Cross(c, d, p)
  <2> DEFINE q == g * (-f) - h * (-e)
  <2>1. Cross(c, d, a) = q - (g * y - h * x) /\ Cross(c, d, b) = q + (g * w - h * z)
    BY <1>2, <1>4
  <2>2. n * (g * y - h * x) = g * (n * y) - h * (n * x)
        /\ m * (g * w - h * z) = g * (m * w) - h * (m * z)
    BY <1>1, <1>2
  <2>3. n * (g * y - h * x) = m * (g * w - h * z)
    BY <1>3, <2>2
  <2>4. q \in Int /\ g * y - h * x \in Int /\ g * w - h * z \in Int
    BY <1>2
  <2>5. Cross(c, d, p) = q
    BY <1>4
  <2> DEFINE r == g * y - h * x  s == g * w - h * z
  <2> HIDE DEF q, r, s
  <2>6. n * (q - r) + m * (q + s) = n * q - n * r + m * q + m * s
        /\ (m + n) * q = m * q + n * q
    BY <1>1, <2>4 DEF r, s
  <2>7. n * r = m * s /\ n * r \in Int /\ n * q \in Int /\ m * q \in Int
    BY <1>1, <2>3, <2>4 DEF r, s
  <2> QED BY <2>1, <2>5, <2>6, <2>7 DEF r, s
<1> QED BY <1>6, <1>7, <1>8, <1>9

\* Between two numbers, in either order.
Between(x, y, z) == Least(x, z) <= y /\ y <= Most(x, z)

LEMMA InBoxIs ==
  ASSUME NEW a \in Point, NEW b \in Point, NEW p \in Point
  PROVE  InBox(a, b, p) <=> Between(a[1], p[1], b[1]) /\ Between(a[2], p[2], b[2])
BY DEF InBox, Between

\* A fraction of a length is no longer than the length.
LEMMA Fraction ==
  ASSUME NEW p \in Int, NEW q \in Int, NEW w \in Int, NEW y \in Int,
         p # 0, Between(0, q, p), p * y = w * q
  PROVE  Between(0, y, w)
<1> USE DEF Between, Least, Most
<1>1. CASE p > 0
  <2>1. 0 <= q /\ q <= p
    BY <1>1
  <2>2. CASE w >= 0
    <3>1. 0 <= w * q /\ w * q <= w * p
      BY <2>1, <2>2, <1>1
    <3>2. w * p = p * w
      OBVIOUS
    <3>3. y >= 0
      BY <1>1, <3>1
    <3>4. y <= w
      BY <1>1, <3>1, <3>2
    <3> QED BY <2>2, <3>3, <3>4
  <2>3. CASE w < 0
    <3>1. w * q <= 0 /\ w * p <= w * q
      BY <2>1, <2>3, <1>1
    <3>2. w * p = p * w
      OBVIOUS
    <3>3. y <= 0
      BY <1>1, <3>1
    <3>4. w <= y
      BY <1>1, <3>1, <3>2
    <3> QED BY <2>3, <3>3, <3>4
  <2> QED BY <2>2, <2>3
<1>2. CASE p < 0
  <2> DEFINE r == -p  u == -q
  <2>1. r \in Int /\ u \in Int /\ 0 <= u /\ u <= r /\ r > 0
    BY <1>2
  <2>2. r * y = w * u
    OBVIOUS
  <2> HIDE DEF r, u
  <2>3. CASE w >= 0
    <3>1. 0 <= w * u /\ w * u <= w * r
      BY <2>1, <2>3
    <3>2. w * r = r * w
      BY <2>1
    <3>3. y >= 0
      BY <2>1, <2>2, <3>1
    <3>4. y <= w
      BY <2>1, <2>2, <3>1, <3>2
    <3> QED BY <2>3, <3>3, <3>4
  <2>4. CASE w < 0
    <3>1. w * u <= 0 /\ w * r <= w * u
      BY <2>1, <2>4
    <3>2. w * r = r * w
      BY <2>1
    <3>3. y <= 0
      BY <2>1, <2>2, <3>1
    <3>4. w <= y
      BY <2>1, <2>2, <3>1, <3>2
    <3> QED BY <2>4, <3>3, <3>4
  <2> QED BY <2>3, <2>4
<1> QED BY <1>1, <1>2

\* A point of the line through a and b is on the segment if one coordinate that
\* tells a from b says so.
LEMMA OneAxis ==
  ASSUME NEW a \in Point, NEW b \in Point, NEW p \in Point, Cross(a, b, p) = 0,
         NEW k \in 1 .. 2, a[k] # b[k], Between(a[k], p[k], b[k])
  PROVE  OnSegment(a, b, p)
<1>1. /\ a[1] \in Int /\ a[2] \in Int /\ b[1] \in Int /\ b[2] \in Int
      /\ p[1] \in Int /\ p[2] \in Int
  BY PointIs
<1> DEFINE u == b[1] - a[1]  v == b[2] - a[2]  x == p[1] - a[1]  y == p[2] - a[2]
<1>2. u \in Int /\ v \in Int /\ x \in Int /\ y \in Int /\ u * y = v * x
  BY <1>1, LineIs
<1>3. CASE k = 1
  <2>1. u # 0 /\ Between(0, x, u)
    BY <1>1, <1>3 DEF Between, Least, Most
  <2> HIDE DEF u, v, x, y
  <2>2. Between(0, y, v)
    BY <1>2, <2>1, Fraction
  <2>3. Between(a[2], p[2], b[2])
    BY <1>1, <2>2 DEF Between, Least, Most, v, y
  <2> QED BY <1>3, <2>3, InBoxIs DEF OnSegment
<1>4. CASE k = 2
  <2>1. v # 0 /\ Between(0, y, v)
    BY <1>1, <1>4 DEF Between, Least, Most
  <2>2. v * x = u * y
    BY <1>2
  <2> HIDE DEF u, v, x, y
  <2>3. Between(0, x, u)
    BY <1>2, <2>1, <2>2, Fraction
  <2>4. Between(a[1], p[1], b[1])
    BY <1>1, <2>3 DEF Between, Least, Most, u, x
  <2> QED BY <1>4, <2>4, InBoxIs DEF OnSegment
<1> QED BY <1>3, <1>4

LEMMA OnSegmentIs ==
  ASSUME NEW a \in Point, NEW b \in Point, NEW p \in Point
  PROVE  /\ OnSegment(a, b, p) <=> /\ Cross(a, b, p) = 0
                                   /\ Between(a[1], p[1], b[1]) /\ Between(a[2], p[2], b[2])
         /\ OnSegment(a, b, p) => \A k \in 1 .. 2 : Between(a[k], p[k], b[k])
BY InBoxIs DEF OnSegment

\* Points of one line are told apart by every coordinate that tells two of them
\* apart.
LEMMA AxisTells ==
  ASSUME NEW a \in Point, NEW b \in Point, NEW p \in Point, Cross(a, b, p) = 0,
         NEW k \in 1 .. 2, a[k] # b[k]
  PROVE  (p[k] = a[k] => p = a) /\ (p[k] = b[k] => p = b)
<1>1. /\ a[1] \in Int /\ a[2] \in Int /\ b[1] \in Int /\ b[2] \in Int
      /\ p[1] \in Int /\ p[2] \in Int
  BY PointIs
<1> DEFINE u == b[1] - a[1]  v == b[2] - a[2]  x == p[1] - a[1]  y == p[2] - a[2]
<1>2. u \in Int /\ v \in Int /\ x \in Int /\ y \in Int /\ u * y = v * x
  BY <1>1, LineIs
<1>3. k = 1 => u # 0 /\ (p[k] = a[k] <=> x = 0) /\ (p[k] = b[k] <=> x = u)
  BY <1>1
<1>4. k = 2 => v # 0 /\ (p[k] = a[k] <=> y = 0) /\ (p[k] = b[k] <=> y = v)
  BY <1>1
<1>5. (p = a <=> x = 0 /\ y = 0) /\ (p = b <=> x = u /\ y = v)
  BY <1>1, PointIs
<1> HIDE DEF u, v, x, y
<1>6. u # 0 => (x = 0 => y = 0) /\ (x = u => y = v)
  <2>1. ASSUME u # 0, x = 0 PROVE y = 0
    BY <1>2, <2>1
  <2>2. ASSUME u # 0, x = u PROVE y = v
    <3>1. u * y = u * v
      BY <1>2, <2>2
    <3> QED BY <1>2, <2>2, <3>1
  <2> QED BY <2>1, <2>2
<1>7. v # 0 => (y = 0 => x = 0) /\ (y = v => x = u)
  <2>1. ASSUME v # 0, y = 0 PROVE x = 0
    BY <1>2, <2>1
  <2>2. ASSUME v # 0, y = v PROVE x = u
    <3>1. v * x = v * u
      BY <1>2, <2>2
    <3> QED BY <1>2, <2>2, <3>1
  <2> QED BY <2>1, <2>2
<1> QED BY <1>3, <1>4, <1>5, <1>6, <1>7

\* A point of a segment other than its ends divides it.
LEMMA DividesIs ==
  ASSUME NEW a \in Point, NEW b \in Point, NEW p \in Point,
         OnSegment(a, b, p), p # a, p # b
  PROVE  /\ \E m, n : Divides(a, p, b, m, n)
         /\ \E k \in 1 .. 2 : a[k] # b[k]
         /\ \A k \in 1 .. 2 : a[k] # b[k] => (a[k] < p[k] /\ p[k] < b[k]) \/ (b[k] < p[k] /\ p[k] < a[k])
<1>1. /\ a[1] \in Int /\ a[2] \in Int /\ b[1] \in Int /\ b[2] \in Int
      /\ p[1] \in Int /\ p[2] \in Int
  BY PointIs
<1>2. Cross(a, b, p) = 0 /\ Between(a[1], p[1], b[1]) /\ Between(a[2], p[2], b[2])
  BY OnSegmentIs
<1>3. \E k \in 1 .. 2 : a[k] # b[k]
  <2>1. SUFFICES ASSUME a[1] = b[1], a[2] = b[2] PROVE FALSE
    OBVIOUS
  <2>2. p[1] = a[1] /\ p[2] = a[2]
    BY <1>1, <1>2, <2>1 DEF Between, Least, Most
  <2> QED BY <2>2, PointIs
<1>4. ASSUME NEW k \in 1 .. 2, a[k] # b[k]
      PROVE  (a[k] < p[k] /\ p[k] < b[k]) \/ (b[k] < p[k] /\ p[k] < a[k])
  <2>1. p[k] # a[k] /\ p[k] # b[k]
    BY <1>2, <1>4, AxisTells
  <2>2. Between(a[k], p[k], b[k]) /\ a[k] \in Int /\ b[k] \in Int /\ p[k] \in Int
    BY <1>1, <1>2, <1>4
  <2> QED BY <2>1, <2>2 DEF Between, Least, Most
<1> DEFINE x == p[1] - a[1]  y == p[2] - a[2]  z == b[1] - p[1]  w == b[2] - p[2]
<1>5. x \in Int /\ y \in Int /\ z \in Int /\ w \in Int /\ z * y = w * x
  <2>1. (x + z) * y = (y + w) * x
    <3>1. (b[1] - a[1]) * (p[2] - a[2]) = (b[2] - a[2]) * (p[1] - a[1])
      BY <1>2, LineIs
    <3>2. b[1] - a[1] = x + z /\ b[2] - a[2] = y + w
      BY <1>1
    <3> QED BY <3>1, <3>2
  <2>2. x \in Int /\ y \in Int /\ z \in Int /\ w \in Int
    BY <1>1
  <2> HIDE DEF x, y, z, w
  <2>3. (x + z) * y = x * y + z * y /\ (y + w) * x = x * y + w * x
        /\ x * y \in Int /\ z * y \in Int /\ w * x \in Int
    BY <2>2
  <2> QED BY <2>1, <2>2, <2>3
<1>6. CASE a[1] # b[1]
  <2>1. (x > 0 /\ z > 0) \/ (x < 0 /\ z < 0)
    BY <1>1, <1>4, <1>6
  <2> DEFINE m == IF x > 0 THEN x ELSE -x
             n == IF x > 0 THEN z ELSE -z
  <2>2. m \in Nat \ {0} /\ n \in Nat \ {0}
    BY <1>5, <2>1
  <2>3. n * x = m * z /\ n * y = m * w
    <3> HIDE DEF x, y, z, w
    <3>1. CASE x > 0
      BY <1>5, <3>1
    <3>2. CASE ~(x > 0)
      BY <1>5, <3>2
    <3> QED BY <3>1, <3>2
  <2>4. Divides(a, p, b, m, n)
    BY <2>2, <2>3 DEF Divides
  <2> QED BY <1>3, <1>4, <2>4
<1>7. CASE a[2] # b[2]
  <2>1. (y > 0 /\ w > 0) \/ (y < 0 /\ w < 0)
    BY <1>1, <1>4, <1>7
  <2> DEFINE m == IF y > 0 THEN y ELSE -y
             n == IF y > 0 THEN w ELSE -w
  <2>2. m \in Nat \ {0} /\ n \in Nat \ {0}
    BY <1>5, <2>1
  <2>3. n * x = m * z /\ n * y = m * w
    <3> HIDE DEF x, y, z, w
    <3>1. CASE y > 0
      BY <1>5, <3>1
    <3>2. CASE ~(y > 0)
      BY <1>5, <3>2
    <3> QED BY <3>1, <3>2
  <2>4. Divides(a, p, b, m, n)
    BY <2>2, <2>3 DEF Divides
  <2> QED BY <1>3, <1>4, <2>4
<1> QED BY <1>3, <1>6, <1>7

LEMMA Signs ==
  ASSUME NEW m \in Nat \ {0}, NEW n \in Nat \ {0}, NEW x \in Int, NEW y \in Int, n * x = m * y
  PROVE  (x > 0 <=> y > 0) /\ (x < 0 <=> y < 0) /\ (x = 0 <=> y = 0)
<1>1. (x > 0 => n * x > 0) /\ (x < 0 => n * x < 0) /\ (x = 0 => n * x = 0)
  OBVIOUS
<1>2. (y > 0 => m * y > 0) /\ (y < 0 => m * y < 0) /\ (y = 0 => m * y = 0)
  OBVIOUS
<1> QED BY <1>1, <1>2

\* A weighted mean lies between.
LEMMA Weighted ==
  ASSUME NEW m \in Nat \ {0}, NEW n \in Nat \ {0}, NEW x \in Int, NEW y \in Int, NEW z \in Int,
         n * x + m * y = (m + n) * z
  PROVE  /\ x > 0 /\ z < 0 => y < 0
         /\ x < 0 /\ z > 0 => y > 0
         /\ y > 0 /\ z < 0 => x < 0
         /\ y < 0 /\ z > 0 => x > 0
         /\ z = 0 => /\ (x > 0 <=> y < 0) /\ (x < 0 <=> y > 0) /\ (x = 0 <=> y = 0)
         /\ x = 0 => (y > 0 <=> z > 0) /\ (y < 0 <=> z < 0) /\ (y = 0 <=> z = 0)
<1> DEFINE nx == n * x  my == m * y  s == (m + n) * z
<1>1. nx \in Int /\ my \in Int /\ s \in Int /\ nx + my = s
  OBVIOUS
<1>2. (x > 0 <=> nx > 0) /\ (x < 0 <=> nx < 0) /\ (x = 0 <=> nx = 0)
  <2>1. (x > 0 => nx > 0) /\ (x < 0 => nx < 0) /\ (x = 0 => nx = 0)
    OBVIOUS
  <2> QED BY <2>1, <1>1
<1>3. (y > 0 <=> my > 0) /\ (y < 0 <=> my < 0) /\ (y = 0 <=> my = 0)
  <2>1. (y > 0 => my > 0) /\ (y < 0 => my < 0) /\ (y = 0 => my = 0)
    OBVIOUS
  <2> QED BY <2>1, <1>1
<1>4. (z > 0 <=> s > 0) /\ (z < 0 <=> s < 0) /\ (z = 0 <=> s = 0)
  <2>1. (z > 0 => s > 0) /\ (z < 0 => s < 0) /\ (z = 0 => s = 0)
    OBVIOUS
  <2> QED BY <2>1, <1>1
<1> HIDE DEF nx, my, s
<1> QED BY <1>1, <1>2, <1>3, <1>4

-----------------------------------------------------------------------------
(* A point inside a segment. *)

Inside(a, p, b) == OnSegment(a, b, p) /\ p # a /\ p # b

\* From elsewhere both parts are seen from the side the whole is seen from.
LEMMA SameSide ==
  ASSUME NEW a \in Point, NEW b \in Point, NEW p \in Point, NEW c \in Point, Inside(a, p, b)
  PROVE  /\ Cross(a, b, c) \in Int /\ Cross(a, p, c) \in Int /\ Cross(p, b, c) \in Int
         /\ Cross(a, p, c) > 0 <=> Cross(a, b, c) > 0
         /\ Cross(a, p, c) < 0 <=> Cross(a, b, c) < 0
         /\ Cross(p, b, c) > 0 <=> Cross(a, b, c) > 0
         /\ Cross(p, b, c) < 0 <=> Cross(a, b, c) < 0
         /\ Cross(a, p, c) = 0 <=> Cross(a, b, c) = 0
         /\ Cross(p, b, c) = 0 <=> Cross(a, b, c) = 0
<1>1. PICK m, n : Divides(a, p, b, m, n)
  BY DividesIs DEF Inside
<1> DEFINE x == Cross(a, p, c)  y == Cross(p, b, c)  z == Cross(a, b, c)
<1>2. m \in Nat \ {0} /\ n \in Nat \ {0} /\ n * x = m * y /\ z = x + y
  <2>1. ASSUME NEW d \in Point
        PROVE  /\ n * Cross(a, p, c) = m * Cross(p, b, c)
               /\ Cross(a, b, c) = Cross(a, p, c) + Cross(p, b, c)
               /\ n * Cross(c, d, a) + m * Cross(c, d, b) = (m + n) * Cross(c, d, p)
    BY <1>1, Sides
  <2> QED BY <1>1, <2>1 DEF Divides
<1>3. x \in Int /\ y \in Int /\ z \in Int
  BY CrossIs
<1> HIDE DEF x, y, z
<1>4. (x > 0 <=> y > 0) /\ (x < 0 <=> y < 0) /\ (x = 0 <=> y = 0)
  BY <1>2, <1>3, Signs
<1>5. /\ x > 0 <=> z > 0
      /\ x < 0 <=> z < 0
      /\ y > 0 <=> z > 0
      /\ y < 0 <=> z < 0
      /\ x = 0 <=> z = 0
      /\ y = 0 <=> z = 0
  BY <1>2, <1>3, <1>4
<1> QED BY <1>3, <1>5 DEF x, y, z

\* Seen from a line, the point is between the ends.
LEMMA SeenBetween ==
  ASSUME NEW a \in Point, NEW b \in Point, NEW p \in Point, NEW c \in Point, NEW d \in Point,
         Inside(a, p, b)
  PROVE  /\ Cross(c, d, a) \in Int /\ Cross(c, d, p) \in Int /\ Cross(c, d, b) \in Int
         /\ Cross(c, d, a) > 0 /\ Cross(c, d, p) < 0 => Cross(c, d, b) < 0
         /\ Cross(c, d, a) < 0 /\ Cross(c, d, p) > 0 => Cross(c, d, b) > 0
         /\ Cross(c, d, b) > 0 /\ Cross(c, d, p) < 0 => Cross(c, d, a) < 0
         /\ Cross(c, d, b) < 0 /\ Cross(c, d, p) > 0 => Cross(c, d, a) > 0
         /\ Cross(c, d, p) = 0 =>
              /\ Cross(c, d, a) > 0 <=> Cross(c, d, b) < 0
              /\ Cross(c, d, a) < 0 <=> Cross(c, d, b) > 0
              /\ Cross(c, d, a) = 0 <=> Cross(c, d, b) = 0
         /\ Cross(c, d, a) = 0 =>
              /\ Cross(c, d, b) > 0 <=> Cross(c, d, p) > 0
              /\ Cross(c, d, b) < 0 <=> Cross(c, d, p) < 0
              /\ Cross(c, d, b) = 0 <=> Cross(c, d, p) = 0
<1>1. PICK m, n : Divides(a, p, b, m, n)
  BY DividesIs DEF Inside
<1> DEFINE x == Cross(c, d, a)  y == Cross(c, d, b)  z == Cross(c, d, p)
<1>2. m \in Nat \ {0} /\ n \in Nat \ {0} /\ n * x + m * y = (m + n) * z
  BY <1>1, Sides DEF Divides
<1>3. x \in Int /\ y \in Int /\ z \in Int
  BY CrossIs
<1> HIDE DEF x, y, z
<1>4. /\ x > 0 /\ z < 0 => y < 0
      /\ x < 0 /\ z > 0 => y > 0
      /\ y > 0 /\ z < 0 => x < 0
      /\ y < 0 /\ z > 0 => x > 0
      /\ z = 0 => /\ (x > 0 <=> y < 0) /\ (x < 0 <=> y > 0) /\ (x = 0 <=> y = 0)
      /\ x = 0 => (y > 0 <=> z > 0) /\ (y < 0 <=> z < 0) /\ (y = 0 <=> z = 0)
  BY <1>2, <1>3, Weighted
<1> QED BY <1>3, <1>4 DEF x, y, z

\* Reversing the line changes nothing.
LEMMA InsideTurned ==
  ASSUME NEW a \in Point, NEW b \in Point, NEW p \in Point
  PROVE  /\ OnSegment(b, a, p) <=> OnSegment(a, b, p)
         /\ Inside(b, p, a) <=> Inside(a, p, b)
<1>1. /\ a[1] \in Int /\ a[2] \in Int /\ b[1] \in Int /\ b[2] \in Int
      /\ p[1] \in Int /\ p[2] \in Int
  BY PointIs
<1>2. \A k \in 1 .. 2 : Between(a[k], p[k], b[k]) <=> Between(b[k], p[k], a[k])
  BY <1>1 DEF Between, Least, Most
<1>3. Cross(a, b, p) = 0 <=> Cross(b, a, p) = 0
  BY CrossTurns
<1>4. OnSegment(b, a, p) <=> OnSegment(a, b, p)
  BY <1>2, <1>3, OnSegmentIs
<1> QED BY <1>4 DEF Inside

\* The parts are segments of their own, with the same axes.
LEMMA PartAxes ==
  ASSUME NEW a \in Point, NEW b \in Point, NEW p \in Point, Inside(a, p, b)
  PROVE  /\ \E k \in 1 .. 2 : a[k] # b[k]
         /\ \A k \in 1 .. 2 : a[k] # b[k] =>
              /\ a[k] # p[k] /\ p[k] # b[k]
              /\ a[k] \in Int /\ b[k] \in Int /\ p[k] \in Int
              /\ (a[k] < p[k] /\ p[k] < b[k]) \/ (b[k] < p[k] /\ p[k] < a[k])
<1>1. /\ a[1] \in Int /\ a[2] \in Int /\ b[1] \in Int /\ b[2] \in Int
      /\ p[1] \in Int /\ p[2] \in Int
  BY PointIs
<1>2. \A k \in 1 .. 2 : a[k] \in Int /\ b[k] \in Int /\ p[k] \in Int
  BY <1>1
<1> QED BY <1>2, DividesIs DEF Inside

\* What is on a part is on the whole.
LEMMA PartInWhole ==
  ASSUME NEW a \in Point, NEW b \in Point, NEW p \in Point, NEW c \in Point, Inside(a, p, b)
  PROVE  /\ OnSegment(a, p, c) => OnSegment(a, b, c)
         /\ OnSegment(p, b, c) => OnSegment(a, b, c)
<1>1. PICK k \in 1 .. 2 : /\ a[k] # b[k] /\ a[k] # p[k] /\ p[k] # b[k]
                          /\ a[k] \in Int /\ b[k] \in Int /\ p[k] \in Int
                          /\ (a[k] < p[k] /\ p[k] < b[k]) \/ (b[k] < p[k] /\ p[k] < a[k])
  BY PartAxes
<1>2. c[k] \in Int
  BY PointIs
<1>3. ASSUME OnSegment(a, p, c) PROVE OnSegment(a, b, c)
  <2>1. Cross(a, b, c) = 0 /\ Between(a[k], c[k], p[k])
    BY <1>3, SameSide, OnSegmentIs
  <2>2. Between(a[k], c[k], b[k])
    BY <1>1, <1>2, <2>1 DEF Between, Least, Most
  <2> QED BY <1>1, <2>1, <2>2, OneAxis
<1>4. ASSUME OnSegment(p, b, c) PROVE OnSegment(a, b, c)
  <2>1. Cross(a, b, c) = 0 /\ Between(p[k], c[k], b[k])
    BY <1>4, SameSide, OnSegmentIs
  <2>2. Between(a[k], c[k], b[k])
    BY <1>1, <1>2, <2>1 DEF Between, Least, Most
  <2> QED BY <1>1, <2>1, <2>2, OneAxis
<1> QED BY <1>3, <1>4

\* What is on the whole is on a part.
LEMMA WholeInParts ==
  ASSUME NEW a \in Point, NEW b \in Point, NEW p \in Point, NEW c \in Point, Inside(a, p, b),
         OnSegment(a, b, c)
  PROVE  OnSegment(a, p, c) \/ OnSegment(p, b, c)
<1>1. PICK k \in 1 .. 2 : /\ a[k] # b[k] /\ a[k] # p[k] /\ p[k] # b[k]
                          /\ a[k] \in Int /\ b[k] \in Int /\ p[k] \in Int
                          /\ (a[k] < p[k] /\ p[k] < b[k]) \/ (b[k] < p[k] /\ p[k] < a[k])
  BY PartAxes
<1>2. c[k] \in Int
  BY PointIs
<1>3. Cross(a, b, c) = 0 /\ Between(a[k], c[k], b[k])
  BY OnSegmentIs
<1>4. Cross(a, p, c) = 0 /\ Cross(p, b, c) = 0
  BY <1>3, SameSide
<1>5. Between(a[k], c[k], p[k]) \/ Between(p[k], c[k], b[k])
  BY <1>1, <1>2, <1>3 DEF Between, Least, Most
<1> QED BY <1>1, <1>4, <1>5, OneAxis

-----------------------------------------------------------------------------
(* Two segments. *)

\* Seen along one axis, the segments have more than a point in common.
OverlapAlong(a, b, c, d, k) ==
  /\ a[k] # b[k] /\ c[k] # d[k]
  /\ a[k] < c[k] \/ a[k] < d[k] \/ b[k] < c[k] \/ b[k] < d[k]
  /\ c[k] < a[k] \/ c[k] < b[k] \/ d[k] < a[k] \/ d[k] < b[k]

LEMMA Cancel ==
  ASSUME NEW u \in Int, NEW v \in Int, NEW p \in Int, NEW q \in Int, NEW x \in Int,
         NEW y \in Int, u * q = v * p, u * (q + y) = v * (p + x)
  PROVE  u * y = v * x
<1>1. u * y = u * (q + y) - u * q
  OBVIOUS
<1>2. v * x = v * (p + x) - v * p
  OBVIOUS
<1> DEFINE i == u * q  j == u * (q + y)
<1>3. u * y = j - i /\ v * x = j - i
  BY <1>1, <1>2
<1> HIDE DEF i, j
<1> QED BY <1>3

\* Along a line both coordinates order alike, or both the other way round.
LEMMA SameOrder ==
  ASSUME NEW a \in Point, NEW b \in Point, NEW x \in Point, NEW y \in Point,
         Cross(a, b, x) = 0, Cross(a, b, y) = 0, a[1] # b[1], a[2] # b[2]
  PROVE  IF a[1] < b[1] <=> a[2] < b[2] THEN x[1] < y[1] <=> x[2] < y[2]
                                        ELSE x[1] < y[1] <=> y[2] < x[2]
<1>1. /\ a[1] \in Int /\ a[2] \in Int /\ b[1] \in Int /\ b[2] \in Int
      /\ x[1] \in Int /\ x[2] \in Int /\ y[1] \in Int /\ y[2] \in Int
  BY PointIs
<1> DEFINE u == b[1] - a[1]  v == b[2] - a[2]  e == y[1] - x[1]  f == y[2] - x[2]
           r == x[1] - a[1]  s == x[2] - a[2]
<1>2. u * s = v * r /\ u * (s + f) = v * (r + e)
  <2>1. s + f = y[2] - a[2] /\ r + e = y[1] - a[1]
    BY <1>1
  <2> QED BY <2>1, LineIs
<1>3. /\ u \in Int /\ v \in Int /\ e \in Int /\ f \in Int /\ r \in Int /\ s \in Int
      /\ u # 0 /\ v # 0
      /\ (a[1] < b[1] <=> u > 0) /\ (a[2] < b[2] <=> v > 0)
      /\ (x[1] < y[1] <=> e > 0) /\ (x[2] < y[2] <=> f > 0) /\ (y[2] < x[2] <=> f < 0)
  BY <1>1
<1> HIDE DEF u, v, e, f, r, s
<1>4. u * f = v * e
  BY <1>2, <1>3, Cancel
<1>5. (u > 0 <=> v > 0) => (e > 0 <=> f > 0)
  <2>1. CASE u > 0 /\ v > 0
    <3>1. u \in Nat \ {0} /\ v \in Nat \ {0}
      BY <1>3, <2>1
    <3> QED BY <1>3, <1>4, <3>1, Signs
  <2>2. CASE u < 0 /\ v < 0
    <3>1. -u \in Nat \ {0} /\ -v \in Nat \ {0} /\ (-u) * f = (-v) * e
      BY <1>3, <1>4, <2>2
    <3> QED BY <1>3, <3>1, Signs
  <2> QED BY <1>3, <2>1, <2>2
<1>6. ~(u > 0 <=> v > 0) => (e > 0 <=> f < 0)
  <2>1. CASE u > 0 /\ v < 0
    <3>1. u \in Nat \ {0} /\ -v \in Nat \ {0} /\ u * (-f) = (-v) * e /\ -f \in Int
      BY <1>3, <1>4, <2>1
    <3>2. -f > 0 <=> e > 0
      BY <1>3, <3>1, Signs
    <3> QED BY <1>3, <3>2
  <2>2. CASE u < 0 /\ v > 0
    <3>1. -u \in Nat \ {0} /\ v \in Nat \ {0} /\ (-u) * (-f) = v * e /\ -f \in Int
      BY <1>3, <1>4, <2>2
    <3>2. -f > 0 <=> e > 0
      BY <1>3, <3>1, Signs
    <3> QED BY <1>3, <3>2
  <2> QED BY <1>3, <2>1, <2>2
<1> QED BY <1>3, <1>5, <1>6

\* Whichever axis tells a from b decides alike.
LEMMA OverlapAxis ==
  ASSUME NEW a \in Point, NEW b \in Point, NEW c \in Point, NEW d \in Point,
         NEW k \in 1 .. 2, a[k] # b[k]
  PROVE  CollinearOverlap(a, b, c, d) <=>
           Cross(a, b, c) = 0 /\ Cross(a, b, d) = 0 /\ OverlapAlong(a, b, c, d, k)
<1>1. /\ a[1] \in Int /\ a[2] \in Int /\ b[1] \in Int /\ b[2] \in Int
      /\ c[1] \in Int /\ c[2] \in Int /\ d[1] \in Int /\ d[2] \in Int
  BY PointIs
<1> DEFINE u == Minus(b, a)
           K == IF u[1] * u[1] >= u[2] * u[2] THEN 1 ELSE 2
           Common(i) == Least(Most(a[i], b[i]), Most(c[i], d[i]))
                          > Most(Least(a[i], b[i]), Least(c[i], d[i]))
<1>2. CollinearOverlap(a, b, c, d) <=> Cross(a, b, c) = 0 /\ Cross(a, b, d) = 0 /\ Common(K)
  BY DEF CollinearOverlap
<1>3. K \in 1 .. 2 /\ a[K] # b[K]
  <2>1. u[1] = b[1] - a[1] /\ u[2] = b[2] - a[2]
    BY DEF Minus
  <2> DEFINE x == u[1]  y == u[2]
  <2>2. x \in Int /\ y \in Int /\ (a[1] # b[1] <=> x # 0) /\ (a[2] # b[2] <=> y # 0)
    BY <1>1, <2>1
  <2>3. x # 0 \/ y # 0
    BY <2>2
  <2>4. K = IF x * x >= y * y THEN 1 ELSE 2
    OBVIOUS
  <2> HIDE DEF u, x, y, K
  <2>5. CASE x = 0
    <3>1. x * x = 0 /\ y * y > 0
      BY <2>2, <2>3, <2>5
    <3>2. ~(x * x >= y * y)
      BY <2>2, <3>1
    <3>3. K = 2
      BY <2>4, <3>2, Zenon
    <3> QED BY <2>2, <2>3, <2>5, <3>3
  <2>6. CASE y = 0
    <3>1. x * x >= y * y
      BY <2>2, <2>6
    <3>2. K = 1
      BY <2>4, <3>1
    <3> QED BY <2>2, <2>3, <2>6, <3>2
  <2> QED BY <2>2, <2>4, <2>5, <2>6
<1> HIDE DEF K
<1>4. \A i \in 1 .. 2 : Common(i) <=> OverlapAlong(a, b, c, d, i)
  <2>1. \A i \in 1 .. 2 : a[i] \in Int /\ b[i] \in Int /\ c[i] \in Int /\ d[i] \in Int
    BY <1>1
  <2> QED BY <2>1 DEF OverlapAlong, Least, Most
<1>5. ASSUME Cross(a, b, c) = 0, Cross(a, b, d) = 0, a[1] # b[1], a[2] # b[2]
      PROVE  OverlapAlong(a, b, c, d, 1) <=> OverlapAlong(a, b, c, d, 2)
  <2>1. Cross(a, b, a) = 0 /\ Cross(a, b, b) = 0
    BY CrossTurns
  <2>2. \A x, y \in {a, b, c, d} :
          IF a[1] < b[1] <=> a[2] < b[2] THEN x[1] < y[1] <=> x[2] < y[2]
                                         ELSE x[1] < y[1] <=> y[2] < x[2]
    BY <1>5, <2>1, SameOrder
  <2>3. CASE a[1] < b[1] <=> a[2] < b[2]
    <3>1. \A x, y \in {a, b, c, d} : x[1] < y[1] <=> x[2] < y[2]
      BY <2>2, <2>3
    <3>2. c[1] # d[1] <=> c[2] # d[2]
      BY <1>1, <3>1
    <3> QED BY <1>5, <3>1, <3>2 DEF OverlapAlong
  <2>4. CASE ~(a[1] < b[1] <=> a[2] < b[2])
    <3>1. \A x, y \in {a, b, c, d} : x[1] < y[1] <=> y[2] < x[2]
      BY <2>2, <2>4
    <3>2. c[1] # d[1] <=> c[2] # d[2]
      BY <1>1, <3>1
    <3> QED BY <1>5, <3>1, <3>2 DEF OverlapAlong
  <2> QED BY <2>3, <2>4
<1>6. k = K \/ (a[1] # b[1] /\ a[2] # b[2])
  BY <1>3
<1> QED BY <1>2, <1>3, <1>4, <1>5, <1>6

\* Points of the line through a and b see each other on one line.
LEMMA LinesMeet ==
  ASSUME NEW a \in Point, NEW b \in Point, NEW c \in Point, NEW d \in Point, NEW e \in Point,
         a # b, Cross(a, b, c) = 0, Cross(a, b, d) = 0, Cross(a, b, e) = 0
  PROVE  Cross(c, d, e) = 0
<1>1. /\ a[1] \in Int /\ a[2] \in Int /\ b[1] \in Int /\ b[2] \in Int
      /\ c[1] \in Int /\ c[2] \in Int /\ d[1] \in Int /\ d[2] \in Int
      /\ e[1] \in Int /\ e[2] \in Int
  BY PointIs
<1> DEFINE u == b[1] - a[1]  v == b[2] - a[2]
           p == c[1] - a[1]  q == c[2] - a[2]
           x == d[1] - c[1]  y == d[2] - c[2]
           z == e[1] - c[1]  w == e[2] - c[2]
<1>2. /\ u \in Int /\ v \in Int /\ p \in Int /\ q \in Int /\ x \in Int /\ y \in Int
      /\ z \in Int /\ w \in Int
      /\ u # 0 \/ v # 0
  BY <1>1, PointIs
<1>3. u * q = v * p /\ u * (q + y) = v * (p + x) /\ u * (q + w) = v * (p + z)
  <2>1. /\ q + y = d[2] - a[2] /\ p + x = d[1] - a[1]
        /\ q + w = e[2] - a[2] /\ p + z = e[1] - a[1]
    BY <1>1
  <2> QED BY <2>1, LineIs
<1>4. Cross(c, d, e) = x * w - y * z
  BY CrossIs
<1> HIDE DEF u, v, p, q, x, y, z, w
<1>5. u * y = v * x /\ u * w = v * z
  BY <1>2, <1>3, Cancel
<1>6. u * (x * w - y * z) = 0
  <2>1. u * (x * w - y * z) = x * (u * w) - (u * y) * z
    BY <1>2
  <2>2. x * (v * z) - (v * x) * z = 0
    BY <1>2
  <2> QED BY <1>5, <2>1, <2>2
<1>7. v * (x * w - y * z) = 0
  <2>1. v * (x * w - y * z) = (v * x) * w - y * (v * z)
    BY <1>2
  <2>2. (u * y) * w - y * (u * w) = 0
    BY <1>2
  <2> QED BY <1>5, <2>1, <2>2
<1> DEFINE s == x * w - y * z
<1>8. s \in Int
  BY <1>2
<1>9. u * s = 0 /\ v * s = 0
  BY <1>6, <1>7
<1> HIDE DEF s
<1>10. s = 0
  BY <1>2, <1>8, <1>9
<1> QED BY <1>4, <1>10 DEF s

LEMMA AnAxis ==
  ASSUME NEW a \in Point, NEW b \in Point, a # b
  PROVE  \E k \in 1 .. 2 : a[k] # b[k]
BY PointIs

LEMMA Coordinates ==
  ASSUME NEW a \in Point, NEW k \in 1 .. 2 PROVE a[k] \in Int
BY DEF Point

LEMMA EndsOnSegment ==
  ASSUME NEW a \in Point, NEW b \in Point
  PROVE  OnSegment(a, b, a) /\ OnSegment(a, b, b)
<1>1. Cross(a, b, a) = 0 /\ Cross(a, b, b) = 0
  BY CrossTurns
<1>2. /\ Between(a[1], a[1], b[1]) /\ Between(a[2], a[2], b[2])
      /\ Between(a[1], b[1], b[1]) /\ Between(a[2], b[2], b[2])
  BY PointIs DEF Between, Least, Most
<1> QED BY <1>1, <1>2, OnSegmentIs

LEMMA OverlapMeets ==
  ASSUME NEW a \in Point, NEW b \in Point, NEW c \in Point, NEW d \in Point,
         Cross(a, b, c) = 0, Cross(a, b, d) = 0, NEW k \in 1 .. 2, OverlapAlong(a, b, c, d, k)
  PROVE  Meet(a, b, c, d)
<1>1. a[k] # b[k] /\ c[k] # d[k] /\ a # b
  BY DEF OverlapAlong
<1>2. Cross(c, d, a) = 0 /\ Cross(c, d, b) = 0
  BY <1>1, LinesMeet, CrossTurns
<1>3. a[k] \in Int /\ b[k] \in Int /\ c[k] \in Int /\ d[k] \in Int
  BY Coordinates
<1>4. \/ Between(a[k], c[k], b[k]) \/ Between(a[k], d[k], b[k])
      \/ Between(c[k], a[k], d[k]) \/ Between(c[k], b[k], d[k])
  BY <1>3 DEF OverlapAlong, Between, Least, Most
<1>5. \/ OnSegment(a, b, c) \/ OnSegment(a, b, d) \/ OnSegment(c, d, a) \/ OnSegment(c, d, b)
  BY <1>1, <1>2, <1>4, OneAxis
<1> QED BY <1>5 DEF Meet

\* Segments with a point in common meet.
LEMMA MeetAt ==
  ASSUME NEW a \in Point, NEW b \in Point, NEW c \in Point, NEW d \in Point, NEW p \in Point,
         OnSegment(a, b, p), OnSegment(c, d, p)
  PROVE  Meet(a, b, c, d)
<1>1. CASE p \in {a, b, c, d}
  BY <1>1 DEF Meet
<1>2. CASE p \notin {a, b, c, d}
  <2>1. Inside(a, p, b) /\ Inside(c, p, d)
    BY <1>2 DEF Inside
  <2>2. Cross(a, b, p) = 0 /\ Cross(c, d, p) = 0
    BY OnSegmentIs
  <2>3. c # d
    BY <2>1, PartAxes
  <2>4. /\ Cross(a, b, c) \in Int /\ Cross(a, b, d) \in Int
        /\ Cross(a, b, c) > 0 <=> Cross(a, b, d) < 0
        /\ Cross(a, b, c) < 0 <=> Cross(a, b, d) > 0
        /\ Cross(a, b, c) = 0 <=> Cross(a, b, d) = 0
    BY <2>1, <2>2, SeenBetween
  <2>5. /\ Cross(c, d, a) \in Int /\ Cross(c, d, b) \in Int
        /\ Cross(c, d, a) > 0 <=> Cross(c, d, b) < 0
        /\ Cross(c, d, a) < 0 <=> Cross(c, d, b) > 0
        /\ Cross(c, d, a) = 0 <=> Cross(c, d, b) = 0
    BY <2>1, <2>2, SeenBetween
  <2>6. CASE Cross(a, b, c) # 0 /\ Cross(c, d, a) # 0
    BY <2>4, <2>5, <2>6 DEF Meet, Opposite
  <2>7. CASE Cross(a, b, c) = 0 \/ Cross(c, d, a) = 0
    <3>1. Cross(a, b, c) = 0 /\ Cross(a, b, d) = 0
      <4>1. CASE Cross(c, d, a) = 0
        <5>1. Cross(c, d, c) = 0
          BY CrossTurns
        <5>2. Cross(a, b, c) = 0
          BY <2>3, <2>5, <4>1, <5>1, LinesMeet
        <5> QED BY <2>4, <5>2
      <4> QED BY <2>4, <2>7, <4>1
    <3>2. PICK k \in 1 .. 2 : /\ a[k] # b[k] /\ a[k] # p[k] /\ p[k] # b[k]
                              /\ (a[k] < p[k] /\ p[k] < b[k]) \/ (b[k] < p[k] /\ p[k] < a[k])
      BY <2>1, PartAxes
    <3>3. c[k] # p[k] /\ d[k] # p[k]
      <4>1. Cross(a, p, c) = 0 /\ Cross(a, p, d) = 0
        BY <2>1, <3>1, SameSide
      <4> QED BY <1>2, <3>2, <4>1, AxisTells
    <3>4. a[k] \in Int /\ b[k] \in Int /\ c[k] \in Int /\ d[k] \in Int /\ p[k] \in Int
      BY Coordinates
    <3>5. (c[k] < p[k] /\ p[k] < d[k]) \/ (d[k] < p[k] /\ p[k] < c[k])
      <4>1. Between(c[k], p[k], d[k])
        BY OnSegmentIs
      <4> QED BY <3>3, <3>4, <4>1 DEF Between, Least, Most
    <3>6. OverlapAlong(a, b, c, d, k)
      BY <3>2, <3>4, <3>5 DEF OverlapAlong
    <3> QED BY <3>1, <3>6, OverlapMeets
  <2> QED BY <2>6, <2>7
<1> QED BY <1>1, <1>2

LEMMA MeetTurned ==
  ASSUME NEW a \in Point, NEW b \in Point, NEW c \in Point, NEW d \in Point
  PROVE  /\ Meet(b, a, c, d) <=> Meet(a, b, c, d)
         /\ Meet(a, b, d, c) <=> Meet(a, b, c, d)
         /\ Meet(c, d, a, b) <=> Meet(a, b, c, d)
<1>1. /\ Cross(b, a, c) = -Cross(a, b, c) /\ Cross(b, a, d) = -Cross(a, b, d)
      /\ Cross(d, c, a) = -Cross(c, d, a) /\ Cross(d, c, b) = -Cross(c, d, b)
      /\ Cross(a, b, c) \in Int /\ Cross(a, b, d) \in Int
      /\ Cross(c, d, a) \in Int /\ Cross(c, d, b) \in Int
  BY CrossTurns
<1>2. /\ OnSegment(b, a, c) <=> OnSegment(a, b, c)
      /\ OnSegment(b, a, d) <=> OnSegment(a, b, d)
      /\ OnSegment(d, c, a) <=> OnSegment(c, d, a)
      /\ OnSegment(d, c, b) <=> OnSegment(c, d, b)
  BY InsideTurned
<1> QED BY <1>1, <1>2 DEF Meet, Opposite

LEMMA OverlapTurned ==
  ASSUME NEW a \in Point, NEW b \in Point, NEW c \in Point, NEW d \in Point, a # b
  PROVE  /\ CollinearOverlap(b, a, c, d) <=> CollinearOverlap(a, b, c, d)
         /\ CollinearOverlap(a, b, d, c) <=> CollinearOverlap(a, b, c, d)
         /\ CollinearOverlap(a, b, c, d) => CollinearOverlap(c, d, a, b)
         /\ CollinearOverlap(a, b, c, d) => Meet(a, b, c, d)
<1>1. PICK k \in 1 .. 2 : a[k] # b[k]
  BY AnAxis
<1>2. /\ Cross(b, a, c) = -Cross(a, b, c) /\ Cross(b, a, d) = -Cross(a, b, d)
      /\ Cross(a, b, c) \in Int /\ Cross(a, b, d) \in Int
  BY CrossTurns
<1>3. /\ OverlapAlong(b, a, c, d, k) <=> OverlapAlong(a, b, c, d, k)
      /\ OverlapAlong(a, b, d, c, k) <=> OverlapAlong(a, b, c, d, k)
      /\ OverlapAlong(c, d, a, b, k) <=> OverlapAlong(a, b, c, d, k)
  BY DEF OverlapAlong
<1>4. CollinearOverlap(b, a, c, d) <=> CollinearOverlap(a, b, c, d)
  BY <1>1, <1>2, <1>3, OverlapAxis
<1>5. CollinearOverlap(a, b, d, c) <=> CollinearOverlap(a, b, c, d)
  BY <1>1, <1>2, <1>3, OverlapAxis
<1>6. ASSUME CollinearOverlap(a, b, c, d)
      PROVE  CollinearOverlap(c, d, a, b) /\ Meet(a, b, c, d)
  <2>1. Cross(a, b, c) = 0 /\ Cross(a, b, d) = 0 /\ OverlapAlong(a, b, c, d, k)
    BY <1>1, <1>6, OverlapAxis
  <2>2. Cross(c, d, a) = 0 /\ Cross(c, d, b) = 0
    BY <2>1, LinesMeet, CrossTurns
  <2>3. c[k] # d[k]
    BY <2>1 DEF OverlapAlong
  <2> QED BY <1>3, <2>1, <2>2, <2>3, OverlapAxis, OverlapMeets
<1> QED BY <1>4, <1>5, <1>6

\* What meets a part meets the whole.
LEMMA PartMeets ==
  ASSUME NEW a \in Point, NEW b \in Point, NEW p \in Point, NEW c \in Point, NEW d \in Point,
         Inside(a, p, b), Meet(a, p, c, d)
  PROVE  Meet(a, b, c, d)
<1>1. CASE Opposite(Cross(a, p, c), Cross(a, p, d)) /\ Opposite(Cross(c, d, a), Cross(c, d, p))
  <2>1. Opposite(Cross(a, b, c), Cross(a, b, d))
    BY <1>1, SameSide DEF Opposite
  <2>2. Opposite(Cross(c, d, a), Cross(c, d, b))
    BY <1>1, SeenBetween DEF Opposite
  <2> QED BY <2>1, <2>2 DEF Meet
<1>2. CASE OnSegment(a, p, c) \/ OnSegment(a, p, d)
  BY <1>2, PartInWhole DEF Meet
<1>3. CASE OnSegment(c, d, a)
  BY <1>3 DEF Meet
<1>4. CASE OnSegment(c, d, p)
  BY <1>4, MeetAt DEF Inside
<1> QED BY <1>1, <1>2, <1>3, <1>4 DEF Meet

\* The point of a line where it is crossed is between those on either side.
LEMMA Crossing ==
  ASSUME NEW c \in Point, NEW d \in Point, NEW p \in Point, NEW a \in Point, NEW b \in Point,
         Cross(c, d, p) = 0, Cross(a, b, p) = 0, Opposite(Cross(a, b, c), Cross(a, b, d))
  PROVE  OnSegment(c, d, p)
<1>1. c # d
  <2>1. Cross(a, b, c) \in Int /\ Cross(a, b, d) \in Int
    BY CrossIs
  <2> QED BY <2>1 DEF Opposite
<1>2. PICK k \in 1 .. 2 : c[k] # d[k]
  BY <1>1, AnAxis
<1>3. SUFFICES ASSUME ~Between(c[k], p[k], d[k]) PROVE FALSE
  BY <1>2, OneAxis
<1>4. c[k] \in Int /\ d[k] \in Int /\ p[k] \in Int
  BY Coordinates
<1>5. p # c /\ p # d
  BY <1>3, <1>4 DEF Between, Least, Most
<1>6. (p[k] # d[k] /\ Between(p[k], c[k], d[k])) \/ (p[k] # c[k] /\ Between(p[k], d[k], c[k]))
  BY <1>2, <1>3, <1>4 DEF Between, Least, Most
<1>7. Cross(c, d, c) = 0 /\ Cross(c, d, d) = 0
  BY CrossTurns
<1>8. Cross(p, d, c) = 0 /\ Cross(p, c, d) = 0
  BY <1>1, <1>7, LinesMeet
<1>9. Inside(p, c, d) \/ Inside(p, d, c)
  BY <1>1, <1>5, <1>6, <1>8, OneAxis DEF Inside
<1>10. CASE Inside(p, c, d)
  BY <1>10, SeenBetween DEF Opposite
<1>11. CASE Inside(p, d, c)
  BY <1>11, SeenBetween DEF Opposite
<1> QED BY <1>9, <1>10, <1>11

\* What meets the whole meets a part.
LEMMA WholeMeets ==
  ASSUME NEW a \in Point, NEW b \in Point, NEW p \in Point, NEW c \in Point, NEW d \in Point,
         Inside(a, p, b), Meet(a, b, c, d)
  PROVE  Meet(a, p, c, d) \/ Meet(p, b, c, d)
<1>1. CASE Opposite(Cross(a, b, c), Cross(a, b, d)) /\ Opposite(Cross(c, d, a), Cross(c, d, b))
  <2>1. Opposite(Cross(a, p, c), Cross(a, p, d)) /\ Opposite(Cross(p, b, c), Cross(p, b, d))
    BY <1>1, SameSide DEF Opposite
  <2>2. Cross(c, d, a) \in Int /\ Cross(c, d, b) \in Int /\ Cross(c, d, p) \in Int
    BY CrossIs
  <2>3. CASE Cross(c, d, p) = 0
    <3>1. Cross(a, b, p) = 0
      BY OnSegmentIs DEF Inside
    <3>2. OnSegment(c, d, p)
      BY <1>1, <2>3, <3>1, Crossing
    <3> QED BY <3>2 DEF Meet
  <2>4. CASE Cross(c, d, p) # 0
    <3>1. Opposite(Cross(c, d, a), Cross(c, d, p)) \/ Opposite(Cross(c, d, p), Cross(c, d, b))
      BY <1>1, <2>2, <2>4 DEF Opposite
    <3> QED BY <2>1, <3>1 DEF Meet
  <2> QED BY <2>3, <2>4
<1>2. CASE OnSegment(a, b, c)
  BY <1>2, WholeInParts DEF Meet
<1>3. CASE OnSegment(a, b, d)
  BY <1>3, WholeInParts DEF Meet
<1>4. CASE OnSegment(c, d, a) \/ OnSegment(c, d, b)
  BY <1>4 DEF Meet
<1> QED BY <1>1, <1>2, <1>3, <1>4 DEF Meet

\* The same of more than a point.
LEMMA PartOverlaps ==
  ASSUME NEW a \in Point, NEW b \in Point, NEW p \in Point, NEW c \in Point, NEW d \in Point,
         Inside(a, p, b), CollinearOverlap(a, p, c, d)
  PROVE  CollinearOverlap(a, b, c, d)
<1>1. PICK k \in 1 .. 2 : /\ a[k] # b[k] /\ a[k] # p[k] /\ p[k] # b[k]
                          /\ a[k] \in Int /\ b[k] \in Int /\ p[k] \in Int
                          /\ (a[k] < p[k] /\ p[k] < b[k]) \/ (b[k] < p[k] /\ p[k] < a[k])
  BY PartAxes
<1>2. Cross(a, p, c) = 0 /\ Cross(a, p, d) = 0 /\ OverlapAlong(a, p, c, d, k)
  BY <1>1, OverlapAxis
<1>3. Cross(a, b, c) = 0 /\ Cross(a, b, d) = 0
  BY <1>2, SameSide
<1>4. c[k] \in Int /\ d[k] \in Int
  BY Coordinates
<1>5. OverlapAlong(a, b, c, d, k)
  BY <1>1, <1>2, <1>4 DEF OverlapAlong
<1> QED BY <1>1, <1>3, <1>5, OverlapAxis

LEMMA WholeOverlaps ==
  ASSUME NEW a \in Point, NEW b \in Point, NEW p \in Point, NEW c \in Point, NEW d \in Point,
         Inside(a, p, b), CollinearOverlap(a, b, c, d)
  PROVE  CollinearOverlap(a, p, c, d) \/ CollinearOverlap(p, b, c, d)
<1>1. PICK k \in 1 .. 2 : /\ a[k] # b[k] /\ a[k] # p[k] /\ p[k] # b[k]
                          /\ a[k] \in Int /\ b[k] \in Int /\ p[k] \in Int
                          /\ (a[k] < p[k] /\ p[k] < b[k]) \/ (b[k] < p[k] /\ p[k] < a[k])
  BY PartAxes
<1>2. Cross(a, b, c) = 0 /\ Cross(a, b, d) = 0 /\ OverlapAlong(a, b, c, d, k)
  BY <1>1, OverlapAxis
<1>3. Cross(a, p, c) = 0 /\ Cross(a, p, d) = 0 /\ Cross(p, b, c) = 0 /\ Cross(p, b, d) = 0
  BY <1>2, SameSide
<1>4. c[k] \in Int /\ d[k] \in Int
  BY Coordinates
<1>5. OverlapAlong(a, p, c, d, k) \/ OverlapAlong(p, b, c, d, k)
  BY <1>1, <1>2, <1>4 DEF OverlapAlong
<1> QED BY <1>1, <1>3, <1>5, OverlapAxis

\* The parts of a segment have one point in common.
LEMMA PartsApart ==
  ASSUME NEW a \in Point, NEW b \in Point, NEW p \in Point, Inside(a, p, b)
  PROVE  ~CollinearOverlap(a, p, p, b) /\ ~CollinearOverlap(p, b, a, p)
<1>1. PICK k \in 1 .. 2 : /\ a[k] # b[k] /\ a[k] # p[k] /\ p[k] # b[k]
                          /\ a[k] \in Int /\ b[k] \in Int /\ p[k] \in Int
                          /\ (a[k] < p[k] /\ p[k] < b[k]) \/ (b[k] < p[k] /\ p[k] < a[k])
  BY PartAxes
<1>2. ~OverlapAlong(a, p, p, b, k) /\ ~OverlapAlong(p, b, a, p, k)
  BY <1>1 DEF OverlapAlong
<1> QED BY <1>1, <1>2, OverlapAxis

\* A segment that ends where another begins, and meets it elsewhere, overlaps it.
LEMMA CornerMeets ==
  ASSUME NEW a \in Point, NEW b \in Point, NEW p \in Point, NEW c \in Point,
         Inside(a, p, b), Meet(p, b, c, a)
  PROVE  CollinearOverlap(a, b, c, a)
<1>1. PICK k \in 1 .. 2 : /\ a[k] # b[k] /\ a[k] # p[k] /\ p[k] # b[k]
                          /\ a[k] \in Int /\ b[k] \in Int /\ p[k] \in Int
                          /\ (a[k] < p[k] /\ p[k] < b[k]) \/ (b[k] < p[k] /\ p[k] < a[k])
  BY PartAxes
<1>2. c[k] \in Int
  BY Coordinates
<1>3. Cross(p, b, a) = 0 /\ Cross(a, b, a) = 0
  BY CrossTurns, SameSide
<1>4. ~OnSegment(p, b, a)
  <2>1. ~Between(p[k], a[k], b[k])
    BY <1>1 DEF Between, Least, Most
  <2> QED BY <2>1, OnSegmentIs
<1>5. OnSegment(p, b, c) \/ OnSegment(c, a, p) \/ OnSegment(c, a, b)
  BY <1>3, <1>4 DEF Meet, Opposite
<1>6. Cross(a, b, c) = 0
  <2>1. CASE OnSegment(p, b, c)
    BY <2>1, OnSegmentIs, SameSide
  <2>2. CASE OnSegment(c, a, p)
    <3>1. Cross(a, p, c) = 0
      BY <2>2, OnSegmentIs, CrossTurns
    <3> QED BY <3>1, SameSide
  <2>3. CASE OnSegment(c, a, b)
    BY <2>3, OnSegmentIs, CrossTurns
  <2> QED BY <1>5, <2>1, <2>2, <2>3
<1>7. Between(p[k], c[k], b[k]) \/ Between(c[k], p[k], a[k]) \/ Between(c[k], b[k], a[k])
  BY <1>5, OnSegmentIs
<1>8. OverlapAlong(a, b, c, a, k)
  BY <1>1, <1>2, <1>7 DEF OverlapAlong, Between, Least, Most
<1> QED BY <1>1, <1>3, <1>6, <1>8, OverlapAxis

\* A segment between two points of another is in it.
LEMMA SegmentIn ==
  ASSUME NEW c \in Point, NEW d \in Point, NEW p \in Point, NEW e \in Point, NEW f \in Point,
         OnSegment(c, d, p), OnSegment(e, f, c), OnSegment(e, f, d)
  PROVE  OnSegment(e, f, p)
<1>1. CASE p = c \/ p = d
  BY <1>1
<1>2. CASE p # c /\ p # d
  <2>1. Inside(c, p, d) /\ Cross(e, f, c) = 0 /\ Cross(e, f, d) = 0
    BY <1>2, OnSegmentIs DEF Inside
  <2>2. Cross(e, f, p) = 0
    BY <2>1, SeenBetween
  <2>3. \A k \in 1 .. 2 : /\ c[k] \in Int /\ d[k] \in Int /\ p[k] \in Int
                          /\ e[k] \in Int /\ f[k] \in Int
                          /\ Between(c[k], p[k], d[k])
                          /\ Between(e[k], c[k], f[k]) /\ Between(e[k], d[k], f[k])
    BY OnSegmentIs, Coordinates
  <2>4. \A k \in 1 .. 2 : Between(e[k], p[k], f[k])
    BY <2>3 DEF Between, Least, Most
  <2> QED BY <2>2, <2>4, OnSegmentIs
<1> QED BY <1>1, <1>2

-----------------------------------------------------------------------------
(* A contour with one corner removed. *)

Following(n, i) == IF i = n THEN 1 ELSE i + 1
Preceding(n, i) == IF i = 1 THEN n ELSE i - 1

\* A corner's number before and after the removal of corner k.
Old(k, j) == IF j < k THEN j ELSE j + 1
New(k, i) == IF i < k THEN i ELSE i - 1

LEMMA Ring ==
  ASSUME NEW n \in Nat, n > 3, NEW k \in 1 .. n
  PROVE  /\ \A j \in 1 .. n - 1 :
              /\ Old(k, j) \in (1 .. n) \ {k} /\ New(k, Old(k, j)) = j
              /\ Old(k, j) # Preceding(n, k) =>
                   Old(k, Following(n - 1, j)) = Following(n, Old(k, j))
              /\ Old(k, j) = Preceding(n, k) => Old(k, Following(n - 1, j)) = Following(n, k)
         /\ \A i \in (1 .. n) \ {k} : New(k, i) \in 1 .. n - 1 /\ Old(k, New(k, i)) = i
         /\ \A i \in 1 .. n :
              /\ Following(n, i) \in 1 .. n /\ Preceding(n, i) \in 1 .. n
              /\ Following(n, i) # i /\ Preceding(n, i) # i
              /\ Following(n, i) = k <=> i = Preceding(n, k)
         /\ Following(n, k) # Preceding(n, k)
         /\ Following(n, Following(n, k)) # Preceding(n, k)
BY DEF Old, New, Following, Preceding

LEMMA RingAt ==
  ASSUME NEW n \in Nat, n > 3, NEW k \in 1 .. n, NEW j \in 1 .. n - 1
  PROVE  /\ Old(k, j) \in 1 .. n /\ Old(k, j) # k /\ New(k, Old(k, j)) = j
         /\ Following(n - 1, j) \in 1 .. n - 1
         /\ Old(k, Following(n - 1, j)) =
              IF Old(k, j) = Preceding(n, k) THEN Following(n, k) ELSE Following(n, Old(k, j))
         /\ Preceding(n, k) \in 1 .. n /\ Preceding(n, k) # k
         /\ Following(n, Preceding(n, k)) = k
BY DEF Old, New, Following, Preceding

LEMMA AfterIs ==
  ASSUME NEW pts \in Seq(Point), NEW i \in 1 .. Len(pts)
  PROVE  /\ After(pts, i) = pts[Following(Len(pts), i)]
         /\ Before(pts, i) = pts[Preceding(Len(pts), i)]
         /\ Following(Len(pts), i) \in 1 .. Len(pts) /\ Preceding(Len(pts), i) \in 1 .. Len(pts)
         /\ pts[i] \in Point /\ After(pts, i) \in Point /\ Before(pts, i) \in Point
<1>1. /\ After(pts, i) = pts[Following(Len(pts), i)]
      /\ Before(pts, i) = pts[Preceding(Len(pts), i)]
  BY DEF After, Before, Following, Preceding
<1>2. Following(Len(pts), i) \in 1 .. Len(pts) /\ Preceding(Len(pts), i) \in 1 .. Len(pts)
  BY DEF Following, Preceding
<1>3. \A j \in 1 .. Len(pts) : pts[j] \in Point
  OBVIOUS
<1> QED BY <1>1, <1>2, <1>3

LEMMA NeighboursIs ==
  ASSUME NEW pts \in Seq(Point), NEW i \in 1 .. Len(pts), NEW j \in 1 .. Len(pts)
  PROVE  Neighbours(pts, i, j) <=> Following(Len(pts), i) = j \/ Following(Len(pts), j) = i
<1>1. ASSUME NEW n \in Nat, NEW x \in 1 .. n PROVE (x % n) + 1 = Following(n, x)
  <2>1. CASE x = n
    <3>1. n > 0 /\ n % n = 0
      BY <2>1
    <3> QED BY <2>1, <3>1 DEF Following
  <2>2. CASE x # n
    <3>1. x < n /\ x % n = x
      BY <2>2
    <3> QED BY <2>2, <3>1 DEF Following
  <2> QED BY <2>1, <2>2
<1>2. Len(pts) \in Nat
  OBVIOUS
<1> QED BY <1>1, <1>2 DEF Neighbours

LEMMA ConcatIs ==
  ASSUME NEW S, NEW s \in Seq(S), NEW t \in Seq(S)
  PROVE  /\ s \o t \in Seq(S) /\ Len(s \o t) = Len(s) + Len(t)
         /\ \A j \in 1 .. Len(s) + Len(t) :
              (s \o t)[j] = IF j <= Len(s) THEN s[j] ELSE t[j - Len(s)]
OBVIOUS

LEMMA RemoveAtIs ==
  ASSUME NEW pts \in Seq(Point), NEW k \in 1 .. Len(pts)
  PROVE  /\ RemoveAt(pts, k) \in Seq(Point)
         /\ Len(RemoveAt(pts, k)) = Len(pts) - 1
         /\ \A j \in 1 .. Len(pts) - 1 : RemoveAt(pts, k)[j] = pts[Old(k, j)]
<1> DEFINE s == SubSeq(pts, 1, k - 1)  t == SubSeq(pts, k + 1, Len(pts))
<1>1. s \in Seq(Point) /\ Len(s) = k - 1 /\ \A j \in 1 .. k - 1 : s[j] = pts[j]
  OBVIOUS
<1>2. t \in Seq(Point) /\ Len(t) = Len(pts) - k /\ \A j \in 1 .. Len(pts) - k : t[j] = pts[k + j]
  OBVIOUS
<1>3. RemoveAt(pts, k) = s \o t
  BY DEF RemoveAt
<1> HIDE DEF s, t
<1>4. s \o t \in Seq(Point) /\ Len(s \o t) = Len(pts) - 1
  <2>1. s \o t \in Seq(Point) /\ Len(s \o t) = Len(s) + Len(t)
    BY <1>1, <1>2, ConcatIs
  <2>2. Len(pts) \in Nat /\ (k - 1) + (Len(pts) - k) = Len(pts) - 1
    OBVIOUS
  <2> QED BY <1>1, <1>2, <2>1, <2>2
<1>5. \A j \in 1 .. Len(pts) - 1 : (s \o t)[j] = IF j <= k - 1 THEN s[j] ELSE t[j - (k - 1)]
  <2>1. \A j \in 1 .. Len(s) + Len(t) : (s \o t)[j] = IF j <= Len(s) THEN s[j] ELSE t[j - Len(s)]
    BY <1>1, <1>2, ConcatIs
  <2>2. Len(s) + Len(t) = Len(pts) - 1 /\ Len(s) = k - 1
    BY <1>1, <1>2
  <2> QED BY <2>1, <2>2
<1>6. ASSUME NEW j \in 1 .. Len(pts) - 1 PROVE (s \o t)[j] = pts[Old(k, j)]
  <2>1. CASE j < k
    BY <1>1, <1>5, <2>1 DEF Old
  <2>2. CASE ~(j < k)
    <3>1. j - (k - 1) \in 1 .. Len(pts) - k /\ k + (j - (k - 1)) = j + 1
      BY <2>2
    <3>2. (s \o t)[j] = t[j - (k - 1)]
      <4>1. ~(j <= k - 1)
        BY <2>2
      <4> QED BY <1>5, <4>1
    <3>3. t[j - (k - 1)] = pts[k + (j - (k - 1))]
      BY <1>2, <3>1
    <3>4. Old(k, j) = j + 1
      BY <2>2 DEF Old
    <3> QED BY <3>1, <3>2, <3>3, <3>4
  <2> QED BY <2>1, <2>2
<1> QED BY <1>3, <1>4, <1>6

\* Corners i and j of a contour begin walls that must not meet as they do.
Clash(pts, i, j) ==
  /\ Meet(pts[i], After(pts, i), pts[j], After(pts, j))
  /\ ~Neighbours(pts, i, j) \/ CollinearOverlap(pts[i], After(pts, i), pts[j], After(pts, j))

LEMMA ClashTurned ==
  ASSUME NEW pts \in Seq(Point), ~ZeroEdge(pts), NEW i \in DOMAIN pts, NEW j \in DOMAIN pts,
         Clash(pts, i, j)
  PROVE  /\ Clash(pts, j, i)
         /\ i # j => SelfIntersects(pts)
<1>1. i \in 1 .. Len(pts) /\ j \in 1 .. Len(pts)
  OBVIOUS
<1>2. /\ pts[i] \in Point /\ After(pts, i) \in Point /\ pts[i] # After(pts, i)
      /\ pts[j] \in Point /\ After(pts, j) \in Point
  BY <1>1, AfterIs DEF ZeroEdge
<1>3. Neighbours(pts, i, j) <=> Neighbours(pts, j, i)
  BY DEF Neighbours
<1>4. Clash(pts, j, i)
  BY <1>2, <1>3, MeetTurned, OverlapTurned DEF Clash
<1>5. i < j \/ j < i \/ i = j
  BY <1>1
<1> QED BY <1>4, <1>5 DEF SelfIntersects, Clash

\* Every wall of the rest is a wall of the contour, except the one over the gap.
LEMMA RemovedIs ==
  ASSUME NEW pts \in Seq(Point), Len(pts) > 3, NEW k \in 1 .. Len(pts),
         NEW i \in 1 .. Len(pts), i # k
  PROVE  LET n == Len(pts)
             q == RemoveAt(pts, k)
         IN  /\ New(k, i) \in 1 .. n - 1 /\ New(k, i) \in DOMAIN q
             /\ q[New(k, i)] = pts[i]
             /\ After(q, New(k, i)) =
                  IF i = Preceding(n, k) THEN After(pts, k) ELSE After(pts, i)
             /\ \A h \in 1 .. n : h # k =>
                  (Following(n - 1, New(k, i)) = New(k, h)
                     <=> (IF i = Preceding(n, k) THEN Following(n, k) ELSE Following(n, i)) = h)
<1> DEFINE n == Len(pts)
           q == RemoveAt(pts, k)
           j == New(k, i)
<1>1. n \in Nat /\ n > 3
  OBVIOUS
<1>2. q \in Seq(Point) /\ Len(q) = n - 1 /\ \A x \in 1 .. n - 1 : q[x] = pts[Old(k, x)]
  BY RemoveAtIs
<1>3. j \in 1 .. n - 1 /\ Old(k, j) = i
  BY <1>1, Ring
<1>4. q[j] = pts[i] /\ j \in DOMAIN q
  BY <1>2, <1>3
<1>5. Following(n - 1, j) \in 1 .. n - 1
  BY <1>1, <1>3, RingAt
<1>6. Old(k, Following(n - 1, j)) =
        IF i = Preceding(n, k) THEN Following(n, k) ELSE Following(n, i)
  <2> HIDE DEF n, j
  <2> QED BY <1>1, <1>3, RingAt DEF n
<1>7. After(q, j) = q[Following(n - 1, j)]
  <2>1. j \in 1 .. Len(q)
    BY <1>2, <1>3
  <2> HIDE DEF n, j, q
  <2> QED BY <1>2, <2>1, AfterIs
<1>8. After(q, j) = IF i = Preceding(n, k) THEN After(pts, k) ELSE After(pts, i)
  BY <1>2, <1>5, <1>6, <1>7, AfterIs
<1>9. ASSUME NEW h \in 1 .. n, h # k
      PROVE  Following(n - 1, j) = New(k, h)
               <=> (IF i = Preceding(n, k) THEN Following(n, k) ELSE Following(n, i)) = h
  <2>1. New(k, h) \in 1 .. n - 1 /\ Old(k, New(k, h)) = h
    BY <1>1, <1>9, Ring
  <2>2. New(k, Old(k, Following(n - 1, j))) = Following(n - 1, j)
    BY <1>1, <1>5, Ring
  <2> QED BY <1>6, <2>1, <2>2
<1> QED BY <1>3, <1>4, <1>8, <1>9

\* The corner is inside the wall over the gap.
LEMMA FlatIs ==
  ASSUME NEW pts \in Seq(Point), Len(pts) > 3, NEW k \in 1 .. Len(pts), Flat(pts, k),
         ~ZeroEdge(pts)
  PROVE  /\ Inside(Before(pts, k), pts[k], After(pts, k))
         /\ Before(pts, k) = pts[Preceding(Len(pts), k)]
         /\ After(pts, Preceding(Len(pts), k)) = pts[k]
         /\ Preceding(Len(pts), k) \in 1 .. Len(pts) /\ Preceding(Len(pts), k) # k
         /\ Before(pts, k) \in Point /\ pts[k] \in Point /\ After(pts, k) \in Point
<1> DEFINE n == Len(pts)
           b == Preceding(n, k)
<1>1. n \in Nat /\ n > 3
  OBVIOUS
<1>2. b \in 1 .. n /\ b # k /\ Following(n, b) = k
  <2>1. 1 \in 1 .. n - 1
    BY <1>1
  <2> QED BY <1>1, <2>1, RingAt
<1>3. Before(pts, k) = pts[b] /\ After(pts, b) = pts[k]
  BY <1>2, AfterIs
<1>4. pts[b] # pts[k] /\ pts[k] # After(pts, k)
  BY <1>2, <1>3 DEF ZeroEdge
<1>5. Before(pts, k) \in Point /\ pts[k] \in Point /\ After(pts, k) \in Point
  BY AfterIs
<1> QED BY <1>2, <1>3, <1>4, <1>5 DEF Inside, Flat

LEMMA RemovedNoZero ==
  ASSUME NEW pts \in Seq(Point), Len(pts) > 3, NEW k \in 1 .. Len(pts), Flat(pts, k),
         ~ZeroEdge(pts)
  PROVE  ~ZeroEdge(RemoveAt(pts, k))
<1> DEFINE n == Len(pts)
           q == RemoveAt(pts, k)
           b == Preceding(n, k)
<1>1. SUFFICES ASSUME NEW j \in DOMAIN q, q[j] = After(q, j) PROVE FALSE
  BY DEF ZeroEdge
<1>2. j \in 1 .. n - 1
  BY RemoveAtIs
<1>3. Old(k, j) \in 1 .. n /\ Old(k, j) # k /\ New(k, Old(k, j)) = j
  BY <1>2, Ring
<1> DEFINE i == Old(k, j)
<1> HIDE DEF i
<1>4. i \in 1 .. n /\ i # k /\ New(k, i) = j
  BY <1>3 DEF i
<1>5. q[j] = pts[i] /\ After(q, j) = IF i = b THEN After(pts, k) ELSE After(pts, i)
  BY <1>4, RemovedIs
<1>6. CASE i = b
  <2>1. Inside(pts[b], pts[k], After(pts, k)) /\ pts[b] \in Point /\ pts[k] \in Point
        /\ After(pts, k) \in Point
    BY FlatIs
  <2>2. pts[b] # After(pts, k)
    BY <2>1, PartAxes
  <2> QED BY <1>1, <1>5, <1>6, <2>2
<1>7. CASE i # b
  <2>1. i \in DOMAIN pts
    BY <1>4
  <2> QED BY <1>1, <1>5, <1>7, <2>1 DEF ZeroEdge
<1> QED BY <1>6, <1>7

\* Walls away from the gap clash as before.
LEMMA ClashElsewhere ==
  ASSUME NEW pts \in Seq(Point), Len(pts) > 3, NEW k \in 1 .. Len(pts),
         NEW i \in 1 .. Len(pts), i # k, i # Preceding(Len(pts), k),
         NEW h \in 1 .. Len(pts), h # k, h # Preceding(Len(pts), k)
  PROVE  Clash(pts, i, h) <=> Clash(RemoveAt(pts, k), New(k, i), New(k, h))
<1> DEFINE n == Len(pts)
           q == RemoveAt(pts, k)
           x == New(k, i)
           y == New(k, h)
<1>1. q \in Seq(Point) /\ Len(q) = n - 1
  BY RemoveAtIs
<1>2. /\ x \in 1 .. n - 1 /\ q[x] = pts[i] /\ After(q, x) = After(pts, i)
      /\ Following(n - 1, x) = y <=> Following(n, i) = h
  BY RemovedIs
<1>3. /\ y \in 1 .. n - 1 /\ q[y] = pts[h] /\ After(q, y) = After(pts, h)
      /\ Following(n - 1, y) = x <=> Following(n, h) = i
  BY RemovedIs
<1>4. Neighbours(q, x, y) <=> Neighbours(pts, i, h)
  BY <1>1, <1>2, <1>3, NeighboursIs
<1> QED BY <1>2, <1>3, <1>4 DEF Clash

\* A wall that clashes with the one over the gap clashes with a part of it.
LEMMA ClashOfWhole ==
  ASSUME NEW pts \in Seq(Point), Len(pts) > 3, NEW k \in 1 .. Len(pts), Flat(pts, k),
         ~ZeroEdge(pts), NEW i \in 1 .. Len(pts), i # k, i # Preceding(Len(pts), k),
         Clash(RemoveAt(pts, k), New(k, Preceding(Len(pts), k)), New(k, i))
  PROVE  Clash(pts, Preceding(Len(pts), k), i) \/ Clash(pts, k, i)
<1> DEFINE n == Len(pts)
           q == RemoveAt(pts, k)
           b == Preceding(n, k)
           x == New(k, b)
           y == New(k, i)
           A == pts[b]  P == pts[k]  B == After(pts, k)  C == pts[i]  D == After(pts, i)
<1>1. n \in Nat /\ n > 3 /\ q \in Seq(Point) /\ Len(q) = n - 1
  BY RemoveAtIs
<1>2. /\ Inside(A, P, B) /\ After(pts, b) = P /\ b \in 1 .. n /\ b # k
      /\ A \in Point /\ P \in Point /\ B \in Point
  BY FlatIs
<1>3. C \in Point /\ D \in Point
  BY AfterIs
<1>4. /\ x \in 1 .. n - 1 /\ q[x] = A /\ After(q, x) = B
      /\ Following(n - 1, x) = y <=> Following(n, k) = i
  BY <1>2, RemovedIs
<1>5. /\ y \in 1 .. n - 1 /\ q[y] = C /\ After(q, y) = D
      /\ Following(n - 1, y) = x <=> Following(n, i) = b
  BY <1>2, RemovedIs
<1>6. /\ Following(n, b) = k /\ (Following(n, i) = k <=> i = b)
  BY <1>1, <1>2, Ring
<1>7. /\ Neighbours(q, x, y) <=> Following(n, k) = i \/ Following(n, i) = b
      /\ Neighbours(pts, b, i) <=> Following(n, i) = b
      /\ Neighbours(pts, k, i) <=> Following(n, k) = i
  BY <1>1, <1>2, <1>4, <1>5, <1>6, NeighboursIs
<1>8. Meet(A, B, C, D) /\ (~Neighbours(q, x, y) \/ CollinearOverlap(A, B, C, D))
  BY <1>4, <1>5 DEF Clash
<1>9. CASE ~Neighbours(q, x, y)
  <2>1. Meet(A, P, C, D) \/ Meet(P, B, C, D)
    BY <1>2, <1>3, <1>8, WholeMeets
  <2> QED BY <1>2, <1>7, <1>9, <2>1 DEF Clash
<1>10. CASE CollinearOverlap(A, B, C, D)
  <2>1. CollinearOverlap(A, P, C, D) \/ CollinearOverlap(P, B, C, D)
    BY <1>2, <1>3, <1>10, WholeOverlaps
  <2>2. A # P /\ P # B
    BY <1>2 DEF Inside
  <2>3. \/ CollinearOverlap(A, P, C, D) /\ Meet(A, P, C, D)
        \/ CollinearOverlap(P, B, C, D) /\ Meet(P, B, C, D)
    BY <1>2, <1>3, <2>1, <2>2, OverlapTurned
  <2> QED BY <1>2, <2>3 DEF Clash
<1> QED BY <1>8, <1>9, <1>10

\* And the other way round.
LEMMA ClashOfPart ==
  ASSUME NEW pts \in Seq(Point), Len(pts) > 3, NEW k \in 1 .. Len(pts), Flat(pts, k),
         ~ZeroEdge(pts), NEW i \in 1 .. Len(pts), i # k, i # Preceding(Len(pts), k),
         Clash(pts, Preceding(Len(pts), k), i) \/ Clash(pts, k, i)
  PROVE  Clash(RemoveAt(pts, k), New(k, Preceding(Len(pts), k)), New(k, i))
<1> DEFINE n == Len(pts)
           q == RemoveAt(pts, k)
           b == Preceding(n, k)
           x == New(k, b)
           y == New(k, i)
           A == pts[b]  P == pts[k]  B == After(pts, k)  C == pts[i]  D == After(pts, i)
<1>1. n \in Nat /\ n > 3 /\ q \in Seq(Point) /\ Len(q) = n - 1
  BY RemoveAtIs
<1>2. /\ Inside(A, P, B) /\ After(pts, b) = P /\ b \in 1 .. n /\ b # k
      /\ A \in Point /\ P \in Point /\ B \in Point
  BY FlatIs
<1>3. C \in Point /\ D \in Point
  BY AfterIs
<1>4. /\ x \in 1 .. n - 1 /\ q[x] = A /\ After(q, x) = B
      /\ Following(n - 1, x) = y <=> Following(n, k) = i
  BY <1>2, RemovedIs
<1>5. /\ y \in 1 .. n - 1 /\ q[y] = C /\ After(q, y) = D
      /\ Following(n - 1, y) = x <=> Following(n, i) = b
  BY <1>2, RemovedIs
<1>6. /\ Following(n, b) = k /\ (Following(n, i) = k <=> i = b)
      /\ Following(n, k) # b /\ Following(n, Following(n, k)) # b
  BY <1>1, <1>2, Ring
<1>7. /\ Neighbours(q, x, y) <=> Following(n, k) = i \/ Following(n, i) = b
      /\ Neighbours(pts, b, i) <=> Following(n, i) = b
      /\ Neighbours(pts, k, i) <=> Following(n, k) = i
  BY <1>1, <1>2, <1>4, <1>5, <1>6, NeighboursIs
<1>8. Inside(B, P, A) /\ A # P /\ P # B /\ A # B
  BY <1>2, InsideTurned, PartAxes DEF Inside
<1>9. Following(n, k) = i => C = B
  BY AfterIs
<1>10. Following(n, i) = b => D = A
  BY AfterIs
<1>11. CASE Clash(pts, b, i)
  <2>1. Meet(A, P, C, D) /\ (~Neighbours(pts, b, i) \/ CollinearOverlap(A, P, C, D))
    BY <1>2, <1>11 DEF Clash
  <2>2. Meet(A, B, C, D)
    BY <1>2, <1>3, <2>1, PartMeets
  <2>3. CASE Following(n, i) = b
    BY <1>2, <1>3, <1>4, <1>5, <1>7, <2>1, <2>2, <2>3, PartOverlaps DEF Clash
  <2>4. CASE Following(n, k) = i
    <3>1. Meet(P, A, D, B)
      BY <1>2, <1>3, <1>9, <2>1, <2>4, MeetTurned
    <3>2. CollinearOverlap(B, A, D, B)
      BY <1>2, <1>3, <1>8, <3>1, CornerMeets
    <3>3. CollinearOverlap(A, B, B, D)
      BY <1>2, <1>3, <1>8, <3>2, OverlapTurned
    <3> QED BY <1>4, <1>5, <1>9, <2>2, <2>4, <3>3 DEF Clash
  <2> QED BY <1>4, <1>5, <1>7, <2>2, <2>3, <2>4 DEF Clash
<1>12. CASE Clash(pts, k, i)
  <2>1. Meet(P, B, C, D) /\ (~Neighbours(pts, k, i) \/ CollinearOverlap(P, B, C, D))
    BY <1>12 DEF Clash
  <2>2. Meet(A, B, C, D)
    <3>1. Meet(B, P, C, D)
      BY <1>2, <1>3, <2>1, MeetTurned
    <3>2. Meet(B, A, C, D)
      BY <1>2, <1>3, <1>8, <3>1, PartMeets
    <3> QED BY <1>2, <1>3, <3>2, MeetTurned
  <2>3. CASE Following(n, k) = i
    <3>1. CollinearOverlap(B, P, C, D)
      BY <1>2, <1>3, <1>7, <1>8, <2>1, <2>3, OverlapTurned
    <3>2. CollinearOverlap(B, A, C, D)
      BY <1>2, <1>3, <1>8, <3>1, PartOverlaps
    <3>3. CollinearOverlap(A, B, C, D)
      BY <1>2, <1>3, <1>8, <3>2, OverlapTurned
    <3> QED BY <1>4, <1>5, <2>2, <3>3 DEF Clash
  <2>4. CASE Following(n, i) = b
    <3>1. CollinearOverlap(A, B, C, A)
      BY <1>2, <1>3, <1>10, <2>1, <2>4, CornerMeets
    <3> QED BY <1>4, <1>5, <1>10, <2>2, <2>4, <3>1 DEF Clash
  <2> QED BY <1>4, <1>5, <1>7, <2>2, <2>3, <2>4 DEF Clash
<1> QED BY <1>11, <1>12

\* Removing a flat corner neither resolves a clash nor makes one.
LEMMA RemovalClashes ==
  ASSUME NEW pts \in Seq(Point), Len(pts) > 3, NEW k \in 1 .. Len(pts), Flat(pts, k),
         ~ZeroEdge(pts)
  PROVE  SelfIntersects(pts) <=> SelfIntersects(RemoveAt(pts, k))
<1> DEFINE n == Len(pts)
           q == RemoveAt(pts, k)
           b == Preceding(n, k)
<1>1. n \in Nat /\ n > 3 /\ q \in Seq(Point) /\ Len(q) = n - 1 /\ ~ZeroEdge(q)
  BY RemoveAtIs, RemovedNoZero
<1>2. /\ Inside(pts[b], pts[k], After(pts, k)) /\ After(pts, b) = pts[k]
      /\ b \in 1 .. n /\ b # k
      /\ pts[b] \in Point /\ pts[k] \in Point /\ After(pts, k) \in Point
  BY FlatIs
<1>3. ASSUME SelfIntersects(pts) PROVE SelfIntersects(q)
  <2>1. PICK i \in 1 .. n, j \in 1 .. n : i # j /\ Clash(pts, i, j)
    BY <1>3 DEF SelfIntersects, Clash
  <2>2. Clash(pts, j, i)
    <3>1. i \in DOMAIN pts /\ j \in DOMAIN pts
      OBVIOUS
    <3> QED BY <2>1, <3>1, ClashTurned
  <2>3. ASSUME NEW x \in 1 .. n, NEW y \in 1 .. n, x # y, x # k, y # k,
               Clash(q, New(k, x), New(k, y))
        PROVE  SelfIntersects(q)
    <3>1. New(k, x) \in 1 .. n - 1 /\ New(k, y) \in 1 .. n - 1 /\ New(k, x) # New(k, y)
      BY <1>1, <2>3, Ring
    <3>2. New(k, x) \in DOMAIN q /\ New(k, y) \in DOMAIN q
      BY <1>1, <3>1
    <3> QED BY <1>1, <2>3, <3>1, <3>2, ClashTurned
  <2>4. CASE i \notin {b, k} /\ j \notin {b, k}
    BY <2>1, <2>3, <2>4, ClashElsewhere
  <2>5. CASE i \in {b, k} /\ j \notin {b, k}
    BY <1>2, <2>1, <2>3, <2>5, ClashOfPart
  <2>6. CASE i \notin {b, k} /\ j \in {b, k}
    BY <1>2, <2>2, <2>3, <2>6, ClashOfPart
  <2>7. CASE i \in {b, k} /\ j \in {b, k}
    <3>1. Clash(pts, b, k)
      BY <2>1, <2>2, <2>7
    <3>2. Neighbours(pts, b, k)
      BY <1>1, <1>2, Ring, NeighboursIs
    <3> QED BY <1>2, <3>1, <3>2, PartsApart DEF Clash
  <2> QED BY <2>4, <2>5, <2>6, <2>7
<1>4. ASSUME SelfIntersects(q) PROVE SelfIntersects(pts)
  <2>1. PICK x \in 1 .. n - 1, y \in 1 .. n - 1 : x # y /\ Clash(q, x, y)
    BY <1>1, <1>4 DEF SelfIntersects, Clash
  <2>2. Clash(q, y, x)
    BY <1>1, <2>1, ClashTurned
  <2>3. PICK i \in 1 .. n : i # k /\ New(k, i) = x
    <3>1. Old(k, x) \in 1 .. n /\ Old(k, x) # k /\ New(k, Old(k, x)) = x
      BY <1>1, RingAt
    <3> HIDE DEF n
    <3> QED BY <3>1
  <2>4. PICK j \in 1 .. n : j # k /\ New(k, j) = y
    <3>1. Old(k, y) \in 1 .. n /\ Old(k, y) # k /\ New(k, Old(k, y)) = y
      BY <1>1, RingAt
    <3> HIDE DEF n
    <3> QED BY <3>1
  <2>5. \A h \in 1 .. n : (h = i \/ h = j \/ h = k \/ h = b) => h \in DOMAIN pts
    OBVIOUS
  <2>6. CASE i # b /\ j # b
    <3>1. Clash(pts, i, j)
      BY <2>1, <2>3, <2>4, <2>6, ClashElsewhere
    <3> QED BY <2>1, <2>3, <2>4, <3>1, ClashTurned
  <2>7. CASE i = b /\ j # b
    <3>1. Clash(pts, b, j) \/ Clash(pts, k, j)
      BY <2>1, <2>3, <2>4, <2>7, ClashOfWhole
    <3> QED BY <1>2, <2>4, <2>7, <3>1, ClashTurned
  <2>8. CASE i # b /\ j = b
    <3>1. Clash(pts, b, i) \/ Clash(pts, k, i)
      BY <2>2, <2>3, <2>4, <2>8, ClashOfWhole
    <3> QED BY <1>2, <2>3, <2>8, <3>1, ClashTurned
  <2>9. CASE i = b /\ j = b
    BY <2>1, <2>3, <2>4, <2>9
  <2> QED BY <2>6, <2>7, <2>8, <2>9
<1> QED BY <1>3, <1>4

-----------------------------------------------------------------------------
(* Recursion over the corners. *)

LEMMA LeastIs ==
  ASSUME NEW T \in SUBSET Nat, T # {}
  PROVE  \E m \in T : \A n \in T : m <= n
<1>1. PICK m \in T : \A n \in T : <<n, m>> \notin OpToRel(<, Nat)
  BY NatLessThanWellFounded, WFMin, Zenon
<1>2. \A n \in T : n \in Nat /\ m \in Nat /\ ~(n < m)
  BY <1>1 DEF OpToRel
<1> QED BY <1>2

LEMMA UpTo ==
  ASSUME NEW n \in Nat, NEW T, 0 \in T, \A m \in 1 .. n : m - 1 \in T => m \in T
  PROVE  \A m \in 0 .. n : m \in T
<1> DEFINE B == {m \in 0 .. n : m \notin T}
<1>1. SUFFICES ASSUME B # {} PROVE FALSE
  OBVIOUS
<1>2. B \in SUBSET Nat
  OBVIOUS
<1>3. PICK m \in B : \A i \in B : m <= i
  <2> HIDE DEF B
  <2> QED BY <1>1, <1>2, LeastIs
<1>4. m \in 1 .. n /\ m - 1 \in 0 .. n /\ ~(m <= m - 1)
  BY <1>3
<1>5. m - 1 \in T
  BY <1>3, <1>4
<1> QED BY <1>3, <1>4, <1>5

\* g takes n steps of F from x.
Walks(S, x, F, n, g) ==
  g \in [0 .. n -> S] /\ g[0] = x /\ \A m \in 1 .. n : g[m] = F[<<m, g[m - 1]>>]

LEMMA Recursion ==
  ASSUME NEW S, NEW x \in S, NEW F \in [Nat \X S -> S], NEW n \in Nat
  PROVE  \E g : Walks(S, x, F, n, g)
<1> DEFINE Runs(g, i) ==
             g \in [0 .. i -> S] /\ g[0] = x /\ \A m \in 1 .. i : g[m] = F[<<m, g[m - 1]>>]
           T == {i \in Nat : \E g : Runs(g, i)}
<1>1. 0 \in T
  <2>1. Runs([m \in 0 .. 0 |-> x], 0)
    OBVIOUS
  <2> QED BY <2>1
<1>2. ASSUME NEW i \in 1 .. n, i - 1 \in T PROVE i \in T
  <2>1. PICK g : Runs(g, i - 1)
    BY <1>2
  <2> DEFINE h == [m \in 0 .. i |-> IF m = i THEN F[<<i, g[i - 1]>>] ELSE g[m]]
  <2>2. \A m \in 0 .. i - 1 : h[m] = g[m] /\ g[m] \in S
    BY <2>1
  <2>3. h[i] = F[<<i, g[i - 1]>>] /\ g[i - 1] \in S /\ i \in Nat
    BY <2>1
  <2>4. h[i] \in S
    BY <2>3
  <2>5. h \in [0 .. i -> S]
    <3>1. \A m \in 0 .. i : m = i \/ m \in 0 .. i - 1
      OBVIOUS
    <3>2. \A m \in 0 .. i : h[m] \in S
      <4> TAKE m \in 0 .. i
      <4> HIDE DEF h
      <4> QED BY <2>2, <2>4, <3>1
    <3> QED BY <3>2
  <2>6. ASSUME NEW m \in 1 .. i PROVE h[m] = F[<<m, h[m - 1]>>]
    <3>1. CASE m = i
      <4>1. i - 1 \in 0 .. i - 1
        OBVIOUS
      <4>2. h[i - 1] = g[i - 1]
        BY <2>2, <4>1
      <4> QED BY <2>3, <3>1, <4>2
    <3>2. CASE m # i
      <4>1. m \in 1 .. i - 1 /\ m \in 0 .. i - 1 /\ m - 1 \in 0 .. i - 1
        BY <3>2
      <4> HIDE DEF h
      <4> QED BY <2>1, <2>2, <4>1
    <3> QED BY <3>1, <3>2
  <2>7. h[0] = x
    BY <2>1, <2>2
  <2> HIDE DEF h
  <2>8. Runs(h, i)
    BY <2>5, <2>6, <2>7
  <2> QED BY <2>8
<1>3. n \in T
  <2> HIDE DEF T
  <2>1. \A m \in 1 .. n : m - 1 \in T => m \in T
    BY <1>2
  <2> QED BY <1>1, <2>1, UpTo
<1> QED BY <1>3 DEF Walks

LEMMA CrossOfIs ==
  ASSUME NEW a \in Point, NEW b \in Point
  PROVE  CrossOf(a, b) \in Int /\ CrossOf(a, b) = a[1] * b[2] - a[2] * b[1]
<1>1. a[1] \in Int /\ a[2] \in Int /\ b[1] \in Int /\ b[2] \in Int
  BY PointIs
<1> QED BY <1>1 DEF CrossOf

\* The sums of the walls' contributions to the area.
Sums(pts, g) ==
  /\ g \in [0 .. Len(pts) -> Int]
  /\ g[0] = 0
  /\ \A m \in 1 .. Len(pts) : g[m] = g[m - 1] + CrossOf(pts[m], After(pts, m))

LEMMA AreaIs ==
  ASSUME NEW pts \in Seq(Point)
  PROVE  \E g : Sums(pts, g) /\ TwiceArea(pts) = g[Len(pts)]
<1> DEFINE n == Len(pts)
           c(m) == CrossOf(pts[m], After(pts, m))
           f == CHOOSE h : h = [m \in 0 .. n |-> IF m = 0 THEN 0 ELSE h[m - 1] + c(m)]
           F == [p \in Nat \X Int |-> IF p[1] \in 1 .. n THEN p[2] + c(p[1]) ELSE 0]
<1>1. n \in Nat
  OBVIOUS
<1>2. \A m \in 1 .. n : c(m) \in Int
  <2>1. \A m \in 1 .. n : pts[m] \in Point /\ After(pts, m) \in Point
    BY AfterIs
  <2> QED BY <2>1, CrossOfIs
<1> HIDE DEF n, c
<1>3. F \in [Nat \X Int -> Int]
  BY <1>2
<1> HIDE DEF F
<1>4. PICK g \in [0 .. n -> Int] : g[0] = 0 /\ \A m \in 1 .. n : g[m] = F[<<m, g[m - 1]>>]
  <2>1. 0 \in Int
    OBVIOUS
  <2> HIDE DEF f
  <2>2. \E g : Walks(Int, 0, F, n, g)
    BY <1>1, <1>3, <2>1, Recursion
  <2> QED BY <2>2 DEF Walks
<1>5. \A m \in 1 .. n : g[m] = g[m - 1] + c(m)
  <2> TAKE m \in 1 .. n
  <2>1. m \in Nat /\ g[m - 1] \in Int
    BY <1>1
  <2>2. F[<<m, g[m - 1]>>] = g[m - 1] + c(m)
    BY <2>1 DEF F
  <2> QED BY <1>4, <2>2
<1>6. g = [m \in 0 .. n |-> IF m = 0 THEN 0 ELSE g[m - 1] + c(m)]
  BY <1>1, <1>4, <1>5
<1>7. f = [m \in 0 .. n |-> IF m = 0 THEN 0 ELSE f[m - 1] + c(m)]
  BY <1>6
<1>8. TwiceArea(pts) = f[n]
  BY DEF TwiceArea, n, c
<1> HIDE DEF f
<1>9. f[0] = 0 /\ \A m \in 1 .. n : f[m] = f[m - 1] + c(m)
  BY <1>1, <1>7
<1>10. \A m \in 0 .. n : f[m] \in Int
  <2> DEFINE T == {m \in 0 .. n : f[m] \in Int}
  <2>1. 0 \in T
    BY <1>1, <1>9
  <2>2. \A m \in 1 .. n : m - 1 \in T => m \in T
    BY <1>1, <1>2, <1>9
  <2>3. \A m \in 0 .. n : m \in T
    <3> HIDE DEF T
    <3> QED BY <1>1, <2>1, <2>2, UpTo
  <2> QED BY <2>3
<1>11. f \in [0 .. n -> Int]
  BY <1>7, <1>10
<1>12. Sums(pts, f)
  BY <1>9, <1>11 DEF Sums, n, c
<1> QED BY <1>8, <1>12 DEF n

\* The contributions of the parts of a wall add up.
LEMMA FlatAdds ==
  ASSUME NEW a \in Point, NEW p \in Point, NEW b \in Point, Cross(a, b, p) = 0
  PROVE  CrossOf(a, b) = CrossOf(a, p) + CrossOf(p, b)
<1>1. /\ a[1] \in Int /\ a[2] \in Int /\ b[1] \in Int /\ b[2] \in Int
      /\ p[1] \in Int /\ p[2] \in Int
  BY PointIs
<1>2. Cross(a, b, p) = CrossOf(a, b) - CrossOf(a, p) - CrossOf(p, b)
  <2>1. (b[1] - a[1]) * (p[2] - a[2]) - (b[2] - a[2]) * (p[1] - a[1])
          = (a[1] * b[2] - a[2] * b[1]) - (a[1] * p[2] - a[2] * p[1])
              - (p[1] * b[2] - p[2] * b[1])
    BY <1>1
  <2> QED BY <2>1, CrossIs, CrossOfIs
<1>3. CrossOf(a, b) \in Int /\ CrossOf(a, p) \in Int /\ CrossOf(p, b) \in Int
  BY CrossOfIs
<1> QED BY <1>2, <1>3

LEMMA RemovalArea ==
  ASSUME NEW pts \in Seq(Point), Len(pts) > 3, NEW k \in 1 .. Len(pts), Flat(pts, k)
  PROVE  TwiceArea(RemoveAt(pts, k)) = TwiceArea(pts)
<1> DEFINE n == Len(pts)
           q == RemoveAt(pts, k)
           b == Preceding(n, k)
           c(i) == CrossOf(pts[i], After(pts, i))
           e(j) == CrossOf(q[j], After(q, j))
<1>1. n \in Nat /\ n > 3 /\ q \in Seq(Point) /\ Len(q) = n - 1
  BY RemoveAtIs
<1>2. PICK g : Sums(pts, g) /\ TwiceArea(pts) = g[n]
  BY AreaIs
<1>3. PICK h : Sums(q, h) /\ TwiceArea(q) = h[n - 1]
  BY <1>1, AreaIs
<1>4. /\ g[0] = 0 /\ \A m \in 0 .. n : g[m] \in Int
      /\ \A m \in 1 .. n : g[m] = g[m - 1] + c(m)
  BY <1>2 DEF Sums
<1>5. /\ h[0] = 0 /\ \A m \in 0 .. n - 1 : h[m] \in Int
      /\ \A m \in 1 .. n - 1 : h[m] = h[m - 1] + e(m)
  BY <1>1, <1>3 DEF Sums
<1>6. /\ b \in 1 .. n /\ b # k /\ Following(n, b) = k
  <2>1. 1 \in 1 .. n - 1
    BY <1>1
  <2> QED BY <1>1, <2>1, RingAt
<1>7. CrossOf(pts[b], After(pts, k)) = c(b) + c(k)
  <2>1. /\ Before(pts, k) = pts[b] /\ After(pts, b) = pts[k]
        /\ pts[b] \in Point /\ pts[k] \in Point /\ After(pts, k) \in Point
    BY <1>6, AfterIs
  <2>2. Cross(pts[b], After(pts, k), pts[k]) = 0
    BY <2>1 DEF Flat, OnSegment
  <2> QED BY <2>1, <2>2, FlatAdds
<1>8. \A j \in 1 .. n - 1 : e(j) = IF Old(k, j) = b THEN c(b) + c(k) ELSE c(Old(k, j))
  <2> TAKE j \in 1 .. n - 1
  <2>1. Old(k, j) \in 1 .. n /\ Old(k, j) # k /\ New(k, Old(k, j)) = j
    BY <1>1, RingAt
  <2> DEFINE i == Old(k, j)
  <2> HIDE DEF i
  <2>2. i \in 1 .. n /\ i # k /\ New(k, i) = j
    BY <2>1 DEF i
  <2>3. q[j] = pts[i] /\ After(q, j) = IF i = b THEN After(pts, k) ELSE After(pts, i)
    BY <2>2, RemovedIs
  <2>4. e(j) = IF i = b THEN c(b) + c(k) ELSE c(i)
    BY <1>7, <2>3
  <2> QED BY <2>4 DEF i
<1>9. \A i \in 1 .. n : c(i) \in Int
  BY AfterIs, CrossOfIs
<1> HIDE DEF c, e, n, q
<1>10. CASE k > 1
  <2> DEFINE T == {m \in 0 .. n - 1 : h[m] = IF m < k - 1 THEN g[m] ELSE g[m + 1]}
  <2>1. b = k - 1 /\ k \in 1 .. n
    BY <1>10 DEF Preceding, n
  <2>2. 0 \in T
    BY <1>1, <1>4, <1>5, <1>10, <2>1
  <2>3. ASSUME NEW m \in 1 .. n - 1, m - 1 \in T PROVE m \in T
    <3>1. h[m] = h[m - 1] + e(m)
      BY <1>5
    <3>2. CASE m < k - 1
      <4>1. Old(k, m) = m /\ m # b
        BY <2>1, <3>2 DEF Old
      <4>2. e(m) = c(m)
        BY <1>8, <4>1
      <4>3. h[m - 1] = g[m - 1] /\ g[m] = g[m - 1] + c(m)
        BY <1>1, <1>4, <2>3, <3>2
      <4> QED BY <3>1, <3>2, <4>2, <4>3
    <3>3. CASE m = k - 1
      <4>1. Old(k, m) = b
        BY <2>1, <3>3 DEF Old
      <4>2. e(m) = c(b) + c(k)
        BY <1>8, <4>1
      <4>3. h[m - 1] = g[m - 1]
        BY <2>3, <3>3
      <4>4. g[m] = g[m - 1] + c(m) /\ g[m + 1] = g[m] + c(m + 1)
        BY <1>1, <1>4
      <4>5. m = b /\ m + 1 = k /\ g[m - 1] \in Int /\ c(b) \in Int /\ c(k) \in Int
        BY <1>1, <1>4, <1>6, <1>9, <2>1, <3>3
      <4>6. h[m] = g[m + 1]
        BY <3>1, <4>2, <4>3, <4>4, <4>5
      <4> QED BY <3>3, <4>6
    <3>4. CASE m > k - 1
      <4>1. Old(k, m) = m + 1 /\ m + 1 # b
        BY <2>1, <3>4 DEF Old
      <4>2. e(m) = c(m + 1)
        BY <1>8, <4>1
      <4>3. h[m - 1] = g[m]
        <5>1. ~(m - 1 < k - 1) /\ (m - 1) + 1 = m
          BY <2>1, <3>4
        <5> QED BY <2>3, <5>1
      <4>4. g[m + 1] = g[m] + c(m + 1)
        <5>1. m + 1 \in 1 .. n /\ (m + 1) - 1 = m
          BY <1>1
        <5> QED BY <1>4, <5>1
      <4> QED BY <3>1, <3>4, <4>2, <4>3, <4>4
    <3> QED BY <2>1, <3>2, <3>3, <3>4
  <2>4. n - 1 \in T
    <3>1. \A m \in 0 .. n - 1 : m \in T
      <4>1. n - 1 \in Nat
        BY <1>1
      <4> HIDE DEF T
      <4> QED BY <2>2, <2>3, <4>1, UpTo
    <3> QED BY <1>1, <3>1
  <2>5. ~(n - 1 < k - 1) /\ (n - 1) + 1 = n
    BY <1>1, <2>1
  <2> QED BY <1>2, <1>3, <2>4, <2>5 DEF q
<1>11. CASE k = 1
  <2> DEFINE T == {m \in 0 .. n - 2 : h[m] = g[m + 1] - g[1]}
  <2>1. b = n
    BY <1>11 DEF Preceding
  <2>2. 0 \in T
    BY <1>1, <1>4, <1>5
  <2>3. ASSUME NEW m \in 1 .. n - 2, m - 1 \in T PROVE m \in T
    <3>1. h[m] = h[m - 1] + e(m)
      BY <1>1, <1>5
    <3>2. Old(k, m) = m + 1 /\ m + 1 # b
      BY <1>1, <1>11, <2>1 DEF Old
    <3>3. e(m) = c(m + 1)
      BY <1>1, <1>8, <3>2
    <3>4. h[m - 1] = g[m] - g[1] /\ g[m + 1] = g[m] + c(m + 1)
      <4>1. m + 1 \in 1 .. n /\ (m + 1) - 1 = m /\ (m - 1) + 1 = m
        BY <1>1
      <4> QED BY <1>4, <2>3, <4>1
    <3>5. g[m] \in Int /\ g[1] \in Int /\ c(m + 1) \in Int
      <4>1. m \in 0 .. n /\ 1 \in 0 .. n /\ m + 1 \in 1 .. n
        BY <1>1
      <4> QED BY <1>4, <1>9, <4>1
    <3>6. h[m] = g[m + 1] - g[1]
      BY <3>1, <3>3, <3>4, <3>5
    <3> QED BY <3>6
  <2>4. h[n - 2] = g[n - 1] - g[1]
    <3>1. \A m \in 0 .. n - 2 : m \in T
      <4>1. n - 2 \in Nat
        BY <1>1
      <4> HIDE DEF T
      <4> QED BY <2>2, <2>3, <4>1, UpTo
    <3>2. n - 2 \in 0 .. n - 2 /\ (n - 2) + 1 = n - 1
      BY <1>1
    <3> QED BY <3>1, <3>2
  <2>5. h[n - 1] = h[n - 2] + e(n - 1)
    <3>1. n - 1 \in 1 .. n - 1 /\ (n - 1) - 1 = n - 2
      BY <1>1
    <3> QED BY <1>5, <3>1
  <2>6. e(n - 1) = c(n) + c(1)
    <3>1. n - 1 \in 1 .. n - 1 /\ Old(k, n - 1) = n
      BY <1>1, <1>11 DEF Old
    <3> QED BY <1>8, <1>11, <2>1, <3>1
  <2>7. g[n] = g[n - 1] + c(n) /\ g[1] = g[0] + c(1)
    BY <1>1, <1>4
  <2>8. g[n - 1] \in Int /\ g[1] \in Int /\ c(n) \in Int /\ c(1) \in Int
    BY <1>1, <1>4, <1>9
  <2>9. h[n - 1] = g[n]
    BY <1>4, <2>4, <2>5, <2>6, <2>7, <2>8
  <2> QED BY <1>2, <1>3, <2>9 DEF q
<1>12. k \in 1 .. n
  BY DEF n
<1> QED BY <1>1, <1>10, <1>11, <1>12

-----------------------------------------------------------------------------
(* The reduced contour. *)

\* Edge i of pts lies on wall w of s.
OnWall(pts, i, s, w) ==
  /\ OnSegment(s[w], After(s, w), pts[i])
  /\ OnSegment(s[w], After(s, w), After(pts, i))

\* Every edge of pts lies on a wall of s, and no wall is without an edge.
Follows(pts, s) ==
  /\ \A i \in 1 .. Len(pts) : \E w \in 1 .. Len(s) : OnWall(pts, i, s, w)
  /\ \A w \in 1 .. Len(s) : \E i \in 1 .. Len(pts) : OnWall(pts, i, s, w)

LEMMA OnOwnWall ==
  ASSUME NEW pts \in Seq(Point), NEW i \in 1 .. Len(pts)
  PROVE  OnWall(pts, i, pts, i)
<1>1. pts[i] \in Point /\ After(pts, i) \in Point
  BY AfterIs
<1> QED BY <1>1, EndsOnSegment DEF OnWall

LEMMA FollowsOnce ==
  ASSUME NEW pts \in Seq(Point), Len(pts) > 3, NEW k \in 1 .. Len(pts), Flat(pts, k)
  PROVE  Follows(pts, RemoveAt(pts, k))
<1> DEFINE n == Len(pts)
           q == RemoveAt(pts, k)
           b == Preceding(n, k)
<1>1. n \in Nat /\ n > 3 /\ q \in Seq(Point) /\ Len(q) = n - 1
  BY RemoveAtIs
<1>2. b \in 1 .. n /\ b # k /\ Following(n, b) = k
  <2>1. 1 \in 1 .. n - 1
    BY <1>1
  <2> QED BY <1>1, <2>1, RingAt
<1>3. /\ Before(pts, k) = pts[b] /\ After(pts, b) = pts[k]
      /\ pts[b] \in Point /\ pts[k] \in Point /\ After(pts, k) \in Point
  BY <1>2, AfterIs
<1>4. /\ OnSegment(pts[b], After(pts, k), pts[k])
      /\ OnSegment(pts[b], After(pts, k), pts[b])
      /\ OnSegment(pts[b], After(pts, k), After(pts, k))
  BY <1>3, EndsOnSegment DEF Flat
<1>5. /\ New(k, b) \in 1 .. n - 1 /\ q[New(k, b)] = pts[b]
      /\ After(q, New(k, b)) = After(pts, k)
  BY <1>2, RemovedIs DEF q, n, b
<1>6. OnWall(pts, b, q, New(k, b)) /\ OnWall(pts, k, q, New(k, b))
  BY <1>3, <1>4, <1>5 DEF OnWall
<1>7. ASSUME NEW i \in 1 .. n, i # k, i # b
      PROVE  New(k, i) \in 1 .. n - 1 /\ OnWall(pts, i, q, New(k, i))
  <2>1. /\ New(k, i) \in 1 .. n - 1 /\ q[New(k, i)] = pts[i]
        /\ After(q, New(k, i)) = After(pts, i)
    BY <1>7, RemovedIs DEF q, n, b
  <2>2. OnWall(pts, i, pts, i)
    BY OnOwnWall
  <2> QED BY <2>1, <2>2 DEF OnWall
<1>8. ASSUME NEW w \in 1 .. n - 1 PROVE \E i \in 1 .. n : OnWall(pts, i, q, w)
  <2>1. Old(k, w) \in 1 .. n /\ Old(k, w) # k /\ New(k, Old(k, w)) = w
    BY <1>1, RingAt
  <2>2. CASE Old(k, w) = b
    BY <1>2, <1>6, <2>1, <2>2
  <2>3. CASE Old(k, w) # b
    BY <1>7, <2>1, <2>3
  <2> QED BY <2>2, <2>3
<1>9. ASSUME NEW i \in 1 .. n PROVE \E w \in 1 .. n - 1 : OnWall(pts, i, q, w)
  <2>1. CASE i = k \/ i = b
    BY <1>5, <1>6, <2>1
  <2>2. CASE i # k /\ i # b
    BY <1>7, <2>2
  <2> QED BY <2>1, <2>2
<1> HIDE DEF q
<1>10. Follows(pts, q)
  BY <1>1, <1>8, <1>9 DEF Follows
<1> QED BY <1>10 DEF q

LEMMA OnWallChain ==
  ASSUME NEW pts \in Seq(Point), NEW s \in Seq(Point), NEW q \in Seq(Point),
         NEW i \in 1 .. Len(pts), NEW w \in 1 .. Len(s), NEW v \in 1 .. Len(q),
         OnWall(pts, i, s, w), OnWall(s, w, q, v)
  PROVE  OnWall(pts, i, q, v)
<1>1. /\ pts[i] \in Point /\ After(pts, i) \in Point /\ s[w] \in Point
      /\ After(s, w) \in Point /\ q[v] \in Point /\ After(q, v) \in Point
  BY AfterIs
<1>2. /\ OnSegment(s[w], After(s, w), pts[i]) /\ OnSegment(s[w], After(s, w), After(pts, i))
      /\ OnSegment(q[v], After(q, v), s[w]) /\ OnSegment(q[v], After(q, v), After(s, w))
  BY DEF OnWall
<1>3. OnSegment(q[v], After(q, v), pts[i])
  BY <1>1, <1>2, SegmentIn
<1>4. OnSegment(q[v], After(q, v), After(pts, i))
  BY <1>1, <1>2, SegmentIn
<1> QED BY <1>3, <1>4 DEF OnWall

LEMMA FollowsChain ==
  ASSUME NEW pts \in Seq(Point), NEW s \in Seq(Point), NEW q \in Seq(Point),
         Follows(pts, s), Follows(s, q)
  PROVE  Follows(pts, q)
<1>1. ASSUME NEW i \in 1 .. Len(pts) PROVE \E v \in 1 .. Len(q) : OnWall(pts, i, q, v)
  <2>1. PICK w \in 1 .. Len(s) : OnWall(pts, i, s, w)
    BY DEF Follows
  <2>2. PICK v \in 1 .. Len(q) : OnWall(s, w, q, v)
    BY DEF Follows
  <2> QED BY <2>1, <2>2, OnWallChain
<1>2. ASSUME NEW v \in 1 .. Len(q) PROVE \E i \in 1 .. Len(pts) : OnWall(pts, i, q, v)
  <2>1. PICK w \in 1 .. Len(s) : OnWall(s, w, q, v)
    BY DEF Follows
  <2>2. PICK i \in 1 .. Len(pts) : OnWall(pts, i, s, w)
    BY DEF Follows
  <2> QED BY <2>1, <2>2, OnWallChain
<1> QED BY <1>1, <1>2 DEF Follows

\* s is pts with some flat corners removed.
Reduces(pts, s) ==
  /\ s \in Seq(Point) /\ Len(s) <= Len(pts) /\ (Len(pts) >= 3 => Len(s) >= 3)
  /\ TwiceArea(s) = TwiceArea(pts)
  /\ Follows(pts, s)
  /\ ~ZeroEdge(pts) => ~ZeroEdge(s) /\ (SelfIntersects(pts) <=> SelfIntersects(s))

LEMMA ReducesItself ==
  ASSUME NEW pts \in Seq(Point) PROVE Reduces(pts, pts)
<1>1. Follows(pts, pts)
  BY OnOwnWall DEF Follows
<1>2. Len(pts) \in Nat
  OBVIOUS
<1> QED BY <1>1, <1>2 DEF Reduces

LEMMA ReducesOnce ==
  ASSUME NEW pts \in Seq(Point), Len(pts) > 3, NEW k \in 1 .. Len(pts), Flat(pts, k)
  PROVE  Reduces(pts, RemoveAt(pts, k))
<1>1. /\ RemoveAt(pts, k) \in Seq(Point) /\ Len(RemoveAt(pts, k)) = Len(pts) - 1
      /\ Len(pts) \in Nat
  BY RemoveAtIs
<1>2. TwiceArea(RemoveAt(pts, k)) = TwiceArea(pts)
  BY RemovalArea
<1>3. Follows(pts, RemoveAt(pts, k))
  BY FollowsOnce
<1>4. ~ZeroEdge(pts) => /\ ~ZeroEdge(RemoveAt(pts, k))
                        /\ SelfIntersects(pts) <=> SelfIntersects(RemoveAt(pts, k))
  BY RemovedNoZero, RemovalClashes
<1> QED BY <1>1, <1>2, <1>3, <1>4 DEF Reduces

LEMMA ReducesChain ==
  ASSUME NEW pts \in Seq(Point), NEW s, NEW q, Reduces(pts, s), Reduces(s, q)
  PROVE  Reduces(pts, q)
<1>1. s \in Seq(Point) /\ q \in Seq(Point)
  BY DEF Reduces
<1>2. Len(s) \in Nat /\ Len(q) \in Nat /\ Len(pts) \in Nat
  BY <1>1
<1>3. Follows(pts, q)
  BY <1>1, FollowsChain DEF Reduces
<1> QED BY <1>1, <1>2, <1>3 DEF Reduces

LEMMA ShorterIs ==
  ASSUME NEW pts \in Seq(Point)
  PROVE  /\ Shorter(pts) \in Seq(Point) /\ Reduces(pts, Shorter(pts))
         /\ Redundant(pts) = {} => Shorter(pts) = pts
         /\ Redundant(pts) # {} => Len(Shorter(pts)) = Len(pts) - 1
<1>1. CASE Redundant(pts) = {}
  BY <1>1, ReducesItself DEF Shorter
<1>2. CASE Redundant(pts) # {}
  <2> DEFINE k == Min(Redundant(pts))
  <2>1. Redundant(pts) \in SUBSET Nat /\ Redundant(pts) \subseteq 1 .. Len(pts)
    BY DEF Redundant
  <2>2. \E m \in Redundant(pts) : \A j \in Redundant(pts) : m <= j
    BY <1>2, <2>1, LeastIs
  <2>3. k \in Redundant(pts)
    BY <2>2 DEF Min
  <2> HIDE DEF k
  <2>4. k \in 1 .. Len(pts) /\ Len(pts) > 3 /\ Flat(pts, k)
    BY <2>1, <2>3 DEF Redundant
  <2>5. Reduces(pts, RemoveAt(pts, k)) /\ RemoveAt(pts, k) \in Seq(Point)
        /\ Len(RemoveAt(pts, k)) = Len(pts) - 1
    BY <2>4, ReducesOnce, RemoveAtIs
  <2>6. Shorter(pts) = RemoveAt(pts, k)
    BY <1>2 DEF Shorter, k
  <2> QED BY <1>2, <2>5, <2>6
<1> QED BY <1>1, <1>2

LEMMA ReducedIs ==
  ASSUME NEW pts \in Seq(Point)
  PROVE  Reduces(pts, Reduced(pts)) /\ Redundant(Reduced(pts)) = {}
<1> DEFINE n == Len(pts)
           f == CHOOSE h : h = [m \in 0 .. n |-> IF m = 0 THEN pts ELSE Shorter(h[m - 1])]
           F == [p \in Nat \X Seq(Point) |-> Shorter(p[2])]
<1>1. n \in Nat
  OBVIOUS
<1>2. F \in [Nat \X Seq(Point) -> Seq(Point)]
  BY ShorterIs
<1>3. PICK g : Walks(Seq(Point), pts, F, n, g)
  <2> HIDE DEF F, n, f
  <2> QED BY <1>1, <1>2, Recursion
<1>4. /\ g \in [0 .. n -> Seq(Point)] /\ g[0] = pts
      /\ \A m \in 1 .. n : g[m] = F[<<m, g[m - 1]>>]
  BY <1>3 DEF Walks
<1> HIDE DEF n
<1>5. \A m \in 1 .. n : g[m] = Shorter(g[m - 1]) /\ g[m - 1] \in Seq(Point)
  <2> TAKE m \in 1 .. n
  <2>1. m - 1 \in 0 .. n /\ m \in Nat
    BY <1>1
  <2>2. g[m - 1] \in Seq(Point)
    BY <1>4, <2>1
  <2>3. F[<<m, g[m - 1]>>] = Shorter(g[m - 1])
    BY <2>1, <2>2
  <2> QED BY <1>4, <2>2, <2>3
<1> HIDE DEF F
<1>6. g = [m \in 0 .. n |-> IF m = 0 THEN pts ELSE Shorter(g[m - 1])]
  <2>1. \A m \in 0 .. n : m = 0 \/ m \in 1 .. n
    BY <1>1
  <2> QED BY <1>4, <1>5, <2>1
<1>7. f = [m \in 0 .. n |-> IF m = 0 THEN pts ELSE Shorter(f[m - 1])]
  BY <1>6
<1>8. Reduced(pts) = f[n]
  BY DEF Reduced, n
<1> HIDE DEF f
<1>9. f[0] = pts /\ \A m \in 1 .. n : f[m] = Shorter(f[m - 1])
  BY <1>1, <1>7
<1> DEFINE T == {m \in 0 .. n : /\ Reduces(pts, f[m])
                                /\ Redundant(f[m]) = {} \/ Len(f[m]) <= n - m}
<1>10. 0 \in T
  <2>1. Reduces(pts, pts)
    BY ReducesItself
  <2>2. Len(pts) <= n - 0 /\ 0 \in 0 .. n
    BY <1>1 DEF n
  <2> QED BY <1>9, <2>1, <2>2
<1>11. ASSUME NEW m \in 1 .. n, m - 1 \in T PROVE m \in T
  <2>1. /\ Reduces(pts, f[m - 1])
        /\ Redundant(f[m - 1]) = {} \/ Len(f[m - 1]) <= n - (m - 1)
    BY <1>11
  <2>2. f[m - 1] \in Seq(Point) /\ f[m] = Shorter(f[m - 1])
    BY <1>9, <2>1 DEF Reduces
  <2>3. Reduces(f[m - 1], f[m])
    BY <2>2, ShorterIs
  <2>4. Reduces(pts, f[m])
    BY <2>1, <2>3, ReducesChain
  <2>5. Redundant(f[m]) = {} \/ Len(f[m]) <= n - m
    <3>1. CASE Redundant(f[m - 1]) = {}
      BY <2>2, <3>1, ShorterIs
    <3>2. CASE Redundant(f[m - 1]) # {}
      <4>1. Len(f[m]) = Len(f[m - 1]) - 1
        BY <2>2, <3>2, ShorterIs
      <4>2. Len(f[m - 1]) \in Nat
        BY <2>2
      <4> QED BY <1>1, <2>1, <3>2, <4>1, <4>2
    <3> QED BY <3>1, <3>2
  <2>6. m \in 0 .. n
    OBVIOUS
  <2> QED BY <2>4, <2>5, <2>6
<1>12. \A m \in 0 .. n : m \in T
  <2> HIDE DEF T
  <2> QED BY <1>1, <1>10, <1>11, UpTo
<1>13. n \in 0 .. n
  BY <1>1
<1>14. Reduces(pts, f[n]) /\ (Redundant(f[n]) = {} \/ Len(f[n]) <= n - n)
  BY <1>12, <1>13
<1>15. ASSUME Len(f[n]) <= n - n PROVE Redundant(f[n]) = {}
  <2>1. f[n] \in Seq(Point)
    BY <1>14 DEF Reduces
  <2>2. ~(Len(f[n]) > 3)
    BY <1>1, <1>15, <2>1
  <2> QED BY <2>2 DEF Redundant
<1> QED BY <1>8, <1>14, <1>15

-----------------------------------------------------------------------------
(* What is left has no flat corner. *)

LEMMA Shoelace ==
  ASSUME NEW u \in Point, NEW v \in Point, NEW w \in Point
  PROVE  (v[1] - u[1]) * (w[2] - u[2]) - (v[2] - u[2]) * (w[1] - u[1])
           = (u[1] * v[2] - u[2] * v[1]) + (v[1] * w[2] - v[2] * w[1])
               + (w[1] * u[2] - w[2] * u[1])
<1> DEFINE a == u[1]  b == u[2]  p == v[1]  q == v[2]  x == w[1]  y == w[2]
<1>1. a \in Int /\ b \in Int /\ p \in Int /\ q \in Int /\ x \in Int /\ y \in Int
  BY PointIs
<1> HIDE DEF a, b, p, q, x, y
<1>2. (p - a) * (y - b) = p * y - p * b - a * y + a * b
  BY <1>1
<1>3. (q - b) * (x - a) = q * x - q * a - b * x + b * a
  BY <1>1
<1>4. a * b = b * a /\ a * q = q * a /\ b * p = p * b /\ x * b = b * x /\ y * a = a * y
  BY <1>1
<1> DEFINE ab == a * b  aq == a * q  bp == b * p  py == p * y  qx == q * x  bx == b * x
           ay == a * y
<1>5. /\ ab \in Int /\ aq \in Int /\ bp \in Int /\ py \in Int /\ qx \in Int
      /\ bx \in Int /\ ay \in Int
  BY <1>1
<1>6. /\ (p - a) * (y - b) = py - bp - ay + ab /\ (q - b) * (x - a) = qx - aq - bx + ab
      /\ x * b = bx /\ y * a = ay
  BY <1>2, <1>3, <1>4
<1> HIDE DEF ab, aq, bp, py, qx, bx, ay
<1>7. (p - a) * (y - b) - (q - b) * (x - a) = (aq - bp) + (py - qx) + (bx - ay)
  BY <1>5, <1>6
<1>8. (p - a) * (y - b) - (q - b) * (x - a)
        = (a * q - b * p) + (p * y - q * x) + (x * b - y * a)
  BY <1>6, <1>7 DEF aq, bp, py, qx
<1> QED BY <1>8 DEF a, b, p, q, x, y

LEMMA TriangleArea ==
  ASSUME NEW pts \in Seq(Point), Len(pts) = 3
  PROVE  \A k \in 1 .. 3 : TwiceArea(pts) = Cross(Before(pts, k), pts[k], After(pts, k))
<1> DEFINE c(i) == CrossOf(pts[i], After(pts, i))
<1>1. PICK g : Sums(pts, g) /\ TwiceArea(pts) = g[Len(pts)]
  BY AreaIs
<1>2. g[0] = 0 /\ \A m \in 1 .. 3 : g[m] = g[m - 1] + c(m)
  BY <1>1 DEF Sums
<1>3. g[1] = g[0] + c(1) /\ g[2] = g[1] + c(2) /\ g[3] = g[2] + c(3)
  BY <1>2
<1>4. /\ After(pts, 1) = pts[2] /\ After(pts, 2) = pts[3] /\ After(pts, 3) = pts[1]
      /\ Before(pts, 1) = pts[3] /\ Before(pts, 2) = pts[1] /\ Before(pts, 3) = pts[2]
  BY DEF After, Before
<1>5. pts[1] \in Point /\ pts[2] \in Point /\ pts[3] \in Point
  <2>1. 1 \in 1 .. Len(pts) /\ 2 \in 1 .. Len(pts) /\ 3 \in 1 .. Len(pts)
    OBVIOUS
  <2> HIDE DEF c
  <2> QED BY <2>1, AfterIs
<1> DEFINE a == pts[1]
           p == pts[2]
           b == pts[3]
<1>6. /\ c(1) = CrossOf(a, p) /\ c(2) = CrossOf(p, b) /\ c(3) = CrossOf(b, a)
  BY <1>4
<1>7. CrossOf(a, p) \in Int /\ CrossOf(p, b) \in Int /\ CrossOf(b, a) \in Int
  BY <1>5, CrossOfIs
<1> HIDE DEF c, a, p, b
<1>8. TwiceArea(pts) = CrossOf(a, p) + CrossOf(p, b) + CrossOf(b, a)
  BY <1>1, <1>2, <1>3, <1>6, <1>7
<1>9. Cross(a, p, b) = CrossOf(a, p) + CrossOf(p, b) + CrossOf(b, a)
  <2>1. /\ a \in Point /\ p \in Point /\ b \in Point
    BY <1>5 DEF a, p, b
  <2>2. /\ a[1] \in Int /\ a[2] \in Int /\ b[1] \in Int /\ b[2] \in Int
        /\ p[1] \in Int /\ p[2] \in Int
    BY <2>1, PointIs
  <2>3. (p[1] - a[1]) * (b[2] - a[2]) - (p[2] - a[2]) * (b[1] - a[1])
          = (a[1] * p[2] - a[2] * p[1]) + (p[1] * b[2] - p[2] * b[1])
              + (b[1] * a[2] - b[2] * a[1])
    BY <2>1, Shoelace
  <2> QED BY <2>1, <2>3, CrossIs, CrossOfIs
<1>10. Cross(b, a, p) = Cross(a, p, b) /\ Cross(p, b, a) = Cross(a, p, b)
  <2>1. /\ a \in Point /\ p \in Point /\ b \in Point
    BY <1>5 DEF a, p, b
  <2> QED BY <2>1, CrossTurns
<1>11. \A k \in 1 .. 3 : k = 1 \/ k = 2 \/ k = 3
  OBVIOUS
<1>12. /\ Cross(Before(pts, 1), pts[1], After(pts, 1)) = Cross(b, a, p)
       /\ Cross(Before(pts, 2), pts[2], After(pts, 2)) = Cross(a, p, b)
       /\ Cross(Before(pts, 3), pts[3], After(pts, 3)) = Cross(p, b, a)
  BY <1>4 DEF a, p, b
<1> QED BY <1>8, <1>9, <1>10, <1>11, <1>12

LEMMA Opposed == ASSUME NEW x \in Int PROVE x + (-x) = 0
OBVIOUS

LEMMA FlatIsRedundant ==
  ASSUME NEW pts \in Seq(Point), Simple(pts), NEW k \in 1 .. Len(pts), Flat(pts, k)
  PROVE  k \in Redundant(pts)
<1>1. Len(pts) \in Nat /\ Len(pts) >= 3 /\ ~ZeroEdge(pts) /\ TwiceArea(pts) # 0
      /\ ~SelfIntersects(pts)
  BY DEF Simple
<1>2. CASE Len(pts) = 3
  <2>1. Before(pts, k) \in Point /\ pts[k] \in Point /\ After(pts, k) \in Point
    BY AfterIs
  <2>2. Cross(Before(pts, k), After(pts, k), pts[k]) = 0
    BY DEF Flat, OnSegment
  <2>3. Cross(Before(pts, k), pts[k], After(pts, k)) = 0
    <3> DEFINE a == Before(pts, k)
               p == pts[k]
               b == After(pts, k)
    <3> HIDE DEF a, p, b
    <3>1. a \in Point /\ p \in Point /\ b \in Point /\ Cross(a, b, p) = 0
      BY <2>1, <2>2 DEF a, p, b
    <3>2. Cross(a, p, b) = Cross(b, a, p) /\ Cross(b, a, p) = -Cross(a, b, p)
      BY <3>1, CrossTurns
    <3>4. Cross(a, b, p) \in Int /\ Cross(b, a, p) \in Int
      BY <3>1, CrossIs
    <3>3. Cross(a, b, p) + Cross(b, a, p) = 0
      BY <3>2, <3>4, Opposed
    <3>5. Cross(a, p, b) = 0
      <4>1. Cross(a, b, p) = 0 /\ Cross(a, p, b) = Cross(b, a, p)
        BY <3>1, <3>2
      <4> QED BY <3>3, <3>4, <4>1
    <3> QED BY <3>5 DEF a, p, b
  <2>4. k \in 1 .. 3
    BY <1>2
  <2>5. TwiceArea(pts) = 0
    BY <1>2, <2>3, <2>4, TriangleArea
  <2>6. FALSE
    BY <1>1, <2>5
  <2> QED BY <2>6
<1>3. CASE Len(pts) > 3
  <2>1. ~ZeroEdge(RemoveAt(pts, k)) /\ ~SelfIntersects(RemoveAt(pts, k))
    BY <1>1, <1>3, RemovedNoZero, RemovalClashes
  <2>2. TwiceArea(RemoveAt(pts, k)) # 0
    BY <1>1, <1>3, RemovalArea
  <2>3. Len(RemoveAt(pts, k)) >= 3
    BY <1>1, <1>3, RemoveAtIs
  <2>4. Simple(RemoveAt(pts, k))
    BY <2>1, <2>2, <2>3 DEF Simple
  <2> QED BY <1>3, <2>4 DEF Redundant
<1>4. Len(pts) = 3 \/ Len(pts) > 3
  <2> DEFINE n == Len(pts)
  <2>1. n \in Nat /\ n >= 3
    BY <1>1
  <2> HIDE DEF n
  <2>2. n = 3 \/ n > 3
    BY <2>1
  <2> QED BY <2>2 DEF n
<1> QED BY <1>2, <1>3, <1>4

LEMMA NoFlat ==
  ASSUME NEW pts \in Seq(Point), Simple(pts), Redundant(pts) = {}
  PROVE  \A k \in DOMAIN pts : ~Flat(pts, k)
<1>1. \A k \in 1 .. Len(pts) : Flat(pts, k) => k \in Redundant(pts)
  BY FlatIsRedundant
<1>2. DOMAIN pts = 1 .. Len(pts) /\ \A k : k \notin Redundant(pts)
  OBVIOUS
<1> QED BY <1>1, <1>2

-----------------------------------------------------------------------------
(* A wall an edge lies on is found. *)

LEMMA SquareIs ==
  ASSUME NEW x \in Int
  PROVE  x * x \in Nat /\ (x # 0 => x * x > 0)
<1>1. x * x \in Int
  OBVIOUS
<1>2. x >= 0 => x * x >= 0
  OBVIOUS
<1>3. x <= 0 => x * x >= 0
  OBVIOUS
<1>4. x # 0 => x * x # 0
  OBVIOUS
<1> QED BY <1>1, <1>2, <1>3, <1>4

LEMMA ProductIs ==
  ASSUME NEW x \in Int, NEW y \in Int, x > 0, y > 0 PROVE x * y > 0
OBVIOUS

LEMMA Extremes ==
  ASSUME NEW n \in Nat \ {0}, NEW f, \A i \in 1 .. n : f[i] \in Int
  PROVE  /\ \E i \in 1 .. n : \A j \in 1 .. n : f[j] <= f[i]
         /\ \E i \in 1 .. n : \A j \in 1 .. n : f[i] <= f[j]
<1> DEFINE High(m) == \E i \in 1 .. m + 1 : \A j \in 1 .. m + 1 : f[j] <= f[i]
           Low(m) == \E i \in 1 .. m + 1 : \A j \in 1 .. m + 1 : f[i] <= f[j]
           T == {m \in 0 .. n - 1 : High(m) /\ Low(m)}
<1>1. 0 \in T
  <2>1. 1 .. 0 + 1 = {1} /\ f[1] <= f[1] /\ 0 \in 0 .. n - 1
    OBVIOUS
  <2> QED BY <2>1
<1>2. ASSUME NEW m \in 1 .. n - 1, m - 1 \in T PROVE m \in T
  <2>1. m \in 0 .. n - 1 /\ (m - 1) + 1 = m /\ m + 1 \in 1 .. m + 1
        /\ 1 .. m \subseteq 1 .. m + 1 /\ 1 .. m + 1 \subseteq 1 .. n
        /\ \A j \in 1 .. m + 1 : j \in 1 .. m \/ j = m + 1
    OBVIOUS
  <2>2. PICK h \in 1 .. m : \A j \in 1 .. m : f[j] <= f[h]
    BY <1>2, <2>1
  <2>3. PICK l \in 1 .. m : \A j \in 1 .. m : f[l] <= f[j]
    BY <1>2, <2>1
  <2>4. \A j \in 1 .. m + 1 : f[j] \in Int
    BY <2>1
  <2>5. High(m)
    <3>1. CASE f[m + 1] <= f[h]
      <4>1. h \in 1 .. m + 1 /\ \A j \in 1 .. m + 1 : f[j] <= f[h]
        BY <2>1, <2>2, <3>1
      <4> QED BY <4>1
    <3>2. CASE ~(f[m + 1] <= f[h])
      <4>1. f[h] <= f[m + 1] /\ f[h] \in Int /\ f[m + 1] \in Int
        BY <2>1, <2>4, <3>2
      <4>2. \A j \in 1 .. m + 1 : f[j] <= f[m + 1]
        BY <2>1, <2>2, <2>4, <4>1
      <4> QED BY <2>1, <4>2
    <3> QED BY <3>1, <3>2
  <2>6. Low(m)
    <3>1. CASE f[l] <= f[m + 1]
      <4>1. l \in 1 .. m + 1 /\ \A j \in 1 .. m + 1 : f[l] <= f[j]
        BY <2>1, <2>3, <3>1
      <4> QED BY <4>1
    <3>2. CASE ~(f[l] <= f[m + 1])
      <4>1. f[m + 1] <= f[l] /\ f[l] \in Int /\ f[m + 1] \in Int
        BY <2>1, <2>4, <3>2
      <4>2. \A j \in 1 .. m + 1 : f[m + 1] <= f[j]
        BY <2>1, <2>3, <2>4, <4>1
      <4> QED BY <2>1, <4>2
    <3> QED BY <3>1, <3>2
  <2> QED BY <2>1, <2>5, <2>6
<1>3. n - 1 \in T
  <2>1. n - 1 \in Nat /\ n - 1 \in 0 .. n - 1
    OBVIOUS
  <2> HIDE DEF T
  <2> QED BY <1>1, <1>2, <2>1, UpTo
<1>4. (n - 1) + 1 = n
  OBVIOUS
<1> QED BY <1>3, <1>4

LEMMA DiagonalIs ==
  ASSUME NEW pts \in Seq(Point), Len(pts) > 0
  PROVE  Diagonal2(pts) \in Nat
<1> DEFINE V(k) == {p[k] : p \in ToSet(pts)}
           Spread(k) == Max(V(k)) - Min(V(k))
<1>1. ASSUME NEW k \in 1 .. 2 PROVE Spread(k) \in Int
  <2> DEFINE f == [i \in 1 .. Len(pts) |-> pts[i][k]]
             n == Len(pts)
  <2>1. n \in Nat \ {0} /\ \A i \in 1 .. n : f[i] \in Int
    <3>1. \A i \in 1 .. n : pts[i] \in Point
      OBVIOUS
    <3>2. \A i \in 1 .. n : pts[i][k] \in Int
      BY <3>1, Coordinates
    <3> QED BY <3>2
  <2>2. /\ \E i \in 1 .. n : \A j \in 1 .. n : f[j] <= f[i]
        /\ \E i \in 1 .. n : \A j \in 1 .. n : f[i] <= f[j]
    <3> HIDE DEF f, n
    <3> QED BY <2>1, Extremes
  <2>3. V(k) = {f[i] : i \in 1 .. n}
    BY DEF ToSet
  <2> HIDE DEF f, n, V
  <2>4. /\ \E x \in V(k) : \A y \in V(k) : x >= y
        /\ \E x \in V(k) : \A y \in V(k) : x =< y
        /\ \A x \in V(k) : x \in Int
    BY <2>1, <2>2, <2>3
  <2>5. Max(V(k)) \in V(k) /\ Min(V(k)) \in V(k)
    BY <2>4 DEF Max, Min
  <2> QED BY <2>4, <2>5
<1>2. Diagonal2(pts) = Spread(1) * Spread(1) + Spread(2) * Spread(2)
  BY DEF Diagonal2
<1> HIDE DEF Spread
<1>3. Spread(1) \in Int /\ Spread(2) \in Int
  BY <1>1
<1>4. Spread(1) * Spread(1) \in Nat /\ Spread(2) * Spread(2) \in Nat
  BY <1>3, SquareIs
<1> QED BY <1>2, <1>4

\* A coordinate between two others, as a part of the way.
LEMMA PartOfTheWay ==
  ASSUME NEW x \in Int, NEW u \in Int, Between(0, u, x)
  PROVE  u * x \in Nat /\ u * x <= x * x
<1>1. CASE x >= 0
  <2>1. 0 <= u /\ u <= x
    BY <1>1 DEF Between, Least, Most
  <2>2. u * x >= 0 /\ (x - u) * x >= 0
    BY <1>1, <2>1
  <2>3. (x - u) * x = x * x - u * x
    OBVIOUS
  <2> QED BY <2>2, <2>3
<1>2. CASE x < 0
  <2>1. x <= u /\ u <= 0
    BY <1>2 DEF Between, Least, Most
  <2>2. u * x >= 0 /\ (x - u) * x >= 0
    BY <1>2, <2>1
  <2>3. (x - u) * x = x * x - u * x
    OBVIOUS
  <2> QED BY <2>2, <2>3
<1> QED BY <1>1, <1>2

LEMMA Shifted ==
  ASSUME NEW c \in Int, NEW a \in Int, NEW d \in Int, Between(c, a, d)
  PROVE  Between(0, a - c, d - c)
BY DEF Between, Least, Most

\* Of parallel vectors the product of the lengths is the inner product.
LEMMA Lagrange ==
  ASSUME NEW x \in Int, NEW y \in Int, NEW g \in Int, NEW h \in Int, g * y = h * x
  PROVE  (g * x + h * y) * (g * x + h * y) = (x * x + y * y) * (g * g + h * h)
<1> DEFINE t == g * y - h * x
<1>1. t = 0
  OBVIOUS
<1>2. (g * x + h * y) * (g * x + h * y) + t * t = (x * x + y * y) * (g * g + h * h)
  OBVIOUS
<1>3. (g * x + h * y) * (g * x + h * y) \in Int /\ t * t = 0
  BY <1>1
<1> QED BY <1>2, <1>3

\* What an edge and the wall it lies on have to do with each other.
LEMMA EdgeAlongWall ==
  ASSUME NEW a \in Point, NEW b \in Point, NEW c \in Point, NEW d \in Point,
         OnSegment(c, d, a), OnSegment(c, d, b), a # b
  PROVE  LET s == Minus(d, c)
             e == Minus(b, a)
         IN  /\ Square(s) \in Int /\ Square(s) > 0 /\ Square(e) \in Int /\ Square(e) > 0
             /\ CrossOf(e, s) = 0
             /\ CrossOf(s, Minus(a, c)) = 0 /\ CrossOf(s, Minus(b, c)) = 0
             /\ Dot(Minus(a, c), s) \in 0 .. Square(s) /\ Dot(Minus(b, c), s) \in 0 .. Square(s)
             /\ Dot(e, s) = Dot(Minus(b, c), s) - Dot(Minus(a, c), s)
             /\ Dot(e, s) * Dot(e, s) = Square(s) * Square(e)
<1> DEFINE x == d[1] - c[1]
           y == d[2] - c[2]
           u == a[1] - c[1]
           v == a[2] - c[2]
           p == b[1] - c[1]
           q == b[2] - c[2]
           g == b[1] - a[1]
           h == b[2] - a[2]
<1>1. /\ a[1] \in Int /\ a[2] \in Int /\ b[1] \in Int /\ b[2] \in Int
      /\ c[1] \in Int /\ c[2] \in Int /\ d[1] \in Int /\ d[2] \in Int
  BY PointIs
<1>2. /\ x \in Int /\ y \in Int /\ u \in Int /\ v \in Int /\ p \in Int /\ q \in Int
      /\ g \in Int /\ h \in Int /\ g = p - u /\ h = q - v
  BY <1>1
<1>3. x * v = y * u /\ x * q = y * p
  <2>1. Cross(c, d, a) = 0 /\ Cross(c, d, b) = 0
    BY DEF OnSegment
  <2> QED BY <2>1, LineIs
<1>4. /\ Between(0, u, x) /\ Between(0, v, y) /\ Between(0, p, x) /\ Between(0, q, y)
  <2>1. /\ Between(c[1], a[1], d[1]) /\ Between(c[2], a[2], d[2])
        /\ Between(c[1], b[1], d[1]) /\ Between(c[2], b[2], d[2])
    BY OnSegmentIs
  <2> QED BY <1>1, <2>1, Shifted
<1>5. g # 0 \/ h # 0
  <2>1. ~(a[1] = b[1] /\ a[2] = b[2])
    BY PointIs
  <2> QED BY <1>1, <2>1
<1> DEFINE s == Minus(d, c)
           e == Minus(b, a)
<1>6. /\ Square(s) = x * x + y * y /\ Square(e) = g * g + h * h
      /\ Dot(Minus(a, c), s) = u * x + v * y /\ Dot(Minus(b, c), s) = p * x + q * y
      /\ Dot(e, s) = g * x + h * y /\ CrossOf(e, s) = g * y - h * x
      /\ CrossOf(s, Minus(a, c)) = x * v - y * u /\ CrossOf(s, Minus(b, c)) = x * q - y * p
  BY DEF Square, Dot, CrossOf, Minus
<1> HIDE DEF x, y, u, v, p, q, g, h, s, e
<1>7. g * y = h * x
  <2>1. g * y = p * y - u * y /\ h * x = q * x - v * x
    BY <1>2
  <2>2. p * y = y * p /\ u * y = y * u /\ q * x = x * q /\ v * x = x * v
    BY <1>2
  <2> QED BY <1>3, <2>1, <2>2
<1>8. /\ x * x \in Nat /\ y * y \in Nat /\ g * g \in Nat /\ h * h \in Nat
      /\ x # 0 => x * x > 0
      /\ y # 0 => y * y > 0
      /\ g # 0 => g * g > 0
      /\ h # 0 => h * h > 0
  BY <1>2, SquareIs
<1>9. x # 0 \/ y # 0
  <2>1. x = 0 => u = 0 /\ p = 0
    BY <1>2, <1>4 DEF Between, Least, Most
  <2>2. y = 0 => v = 0 /\ q = 0
    BY <1>2, <1>4 DEF Between, Least, Most
  <2> QED BY <1>2, <1>5, <2>1, <2>2
<1>10. x * x + y * y > 0 /\ g * g + h * h > 0 /\ x * x + y * y \in Int /\ g * g + h * h \in Int
  BY <1>5, <1>8, <1>9
<1>11. u * x + v * y \in 0 .. x * x + y * y /\ p * x + q * y \in 0 .. x * x + y * y
  <2>1. /\ u * x \in Nat /\ u * x <= x * x /\ v * y \in Nat /\ v * y <= y * y
        /\ p * x \in Nat /\ p * x <= x * x /\ q * y \in Nat /\ q * y <= y * y
    BY <1>2, <1>4, PartOfTheWay
  <2> QED BY <1>8, <2>1
<1>12. g * x + h * y = (p * x + q * y) - (u * x + v * y)
  <2>1. g * x = p * x - u * x /\ h * y = q * y - v * y
    BY <1>2
  <2>2. p * x \in Int /\ u * x \in Int /\ q * y \in Int /\ v * y \in Int
    BY <1>2
  <2> QED BY <2>1, <2>2
<1>13. (g * x + h * y) * (g * x + h * y) = (x * x + y * y) * (g * g + h * h)
  BY <1>2, <1>7, Lagrange
<1>14. g * y - h * x = 0 /\ x * v - y * u = 0 /\ x * q - y * p = 0
  <2>1. g * y \in Int /\ x * v \in Int /\ x * q \in Int
    BY <1>2
  <2> QED BY <1>3, <1>7, <2>1
<1>15. /\ Square(s) \in Int /\ Square(s) > 0 /\ Square(e) \in Int /\ Square(e) > 0
       /\ CrossOf(e, s) = 0
       /\ CrossOf(s, Minus(a, c)) = 0 /\ CrossOf(s, Minus(b, c)) = 0
  BY <1>6, <1>10, <1>14
<1>16. /\ Dot(Minus(a, c), s) \in 0 .. Square(s) /\ Dot(Minus(b, c), s) \in 0 .. Square(s)
       /\ Dot(e, s) = Dot(Minus(b, c), s) - Dot(Minus(a, c), s)
       /\ Dot(e, s) * Dot(e, s) = Square(s) * Square(e)
  BY <1>6, <1>11, <1>12, <1>13
<1> QED BY <1>15, <1>16 DEF s, e

LEMMA Covered ==
  ASSUME NEW sq \in Int, sq > 0, NEW from \in 0 .. sq, NEW to \in 0 .. sq, from # to
  PROVE  LET shared == Least(Most(from, to), sq) - Most(Least(from, to), 0)
         IN  shared > 0 /\ (shared = to - from \/ shared = from - to)
BY DEF Least, Most

LEMMA EdgeIsCovered ==
  ASSUME NEW a \in Point, NEW b \in Point, NEW c \in Point, NEW d \in Point,
         OnSegment(c, d, a), OnSegment(c, d, b), a # b
  PROVE  Covers(a, b, c, Minus(d, c))
<1> DEFINE s == Minus(d, c)
           e == Minus(b, a)
           sq == Square(s)
           w == Square(e)
           from == Dot(Minus(a, c), s)
           to == Dot(Minus(b, c), s)
           shared == Least(Most(from, to), sq) - Most(Least(from, to), 0)
           D == Dot(e, s)
<1>1. /\ sq \in Int /\ sq > 0 /\ w \in Int /\ w > 0
      /\ from \in 0 .. sq /\ to \in 0 .. sq /\ D = to - from /\ D * D = sq * w
  BY EdgeAlongWall
<1>2. Covers(a, b, c, s) <=> shared > 0 /\ 25 * shared * shared >= 16 * sq * w
  BY DEF Covers
<1> HIDE DEF sq, w, from, to, D
<1>3. sq * w > 0 /\ sq * w \in Int
  BY <1>1, ProductIs
<1>4. D # 0 /\ D \in Int
  BY <1>1, <1>3
<1>5. from # to
  BY <1>1, <1>4
<1>6. shared > 0 /\ (shared = to - from \/ shared = from - to)
  BY <1>1, <1>5, Covered
<1> HIDE DEF shared
<1>7. shared \in Int
  BY <1>1, <1>6
<1>8. shared * shared = sq * w
  <2>1. (from - to) * (from - to) = (to - from) * (to - from)
    BY <1>1
  <2> QED BY <1>1, <1>6, <2>1
<1>9. 25 * shared * shared = 25 * (shared * shared) /\ 16 * sq * w = 16 * (sq * w)
  BY <1>1, <1>7
<1>10. 25 * shared * shared >= 16 * sq * w
  <2> DEFINE z == sq * w
  <2>1. z \in Int /\ z > 0
    BY <1>3
  <2> HIDE DEF z
  <2>2. 25 * z >= 16 * z
    BY <2>1
  <2> QED BY <1>8, <1>9, <2>2 DEF z
<1> QED BY <1>2, <1>6, <1>10

LEMMA WallFound ==
  ASSUME NEW pts \in Seq(Point), NEW s \in Seq(Point), NEW i \in 1 .. Len(pts),
         NEW w \in 1 .. Len(s), OnWall(pts, i, s, w), pts[i] # After(pts, i)
  PROVE  w \in Matches(pts[i], After(pts, i), s)
<1> DEFINE a == pts[i]
           b == After(pts, i)
           c == s[w]
           d == After(s, w)
           v == Edge(s, w)
           d2 == Diagonal2(<<a, b>> \o s)
<1>1. a \in Point /\ b \in Point /\ c \in Point /\ d \in Point
  BY AfterIs
<1>2. OnSegment(c, d, a) /\ OnSegment(c, d, b) /\ a # b
  BY DEF OnWall
<1>3. v = Minus(d, c)
  BY DEF Edge
<1>4. d2 \in Nat
  <2>1. <<a, b>> \in Seq(Point) /\ Len(<<a, b>>) = 2
    BY <1>1
  <2>2. <<a, b>> \o s \in Seq(Point) /\ Len(<<a, b>> \o s) = 2 + Len(s)
    <3> HIDE DEF a, b
    <3> QED BY <2>1, ConcatIs
  <2>3. Len(<<a, b>> \o s) > 0
    BY <2>2
  <2> QED BY <2>2, <2>3, DiagonalIs
<1> HIDE DEF a, b, c, d, v, d2
<1>5. /\ Square(v) \in Int /\ Square(v) > 0
      /\ Square(Minus(b, a)) \in Int /\ Square(Minus(b, a)) > 0
      /\ CrossOf(Minus(b, a), v) = 0
      /\ CrossOf(v, Minus(a, c)) = 0 /\ CrossOf(v, Minus(b, c)) = 0
  BY <1>1, <1>2, <1>3, EdgeAlongWall
<1>6. Parallel(Minus(b, a), v)
  <2> DEFINE x == Square(Minus(b, a))
             y == Square(v)
  <2>1. x \in Int /\ y \in Int /\ x > 0 /\ y > 0
    BY <1>5
  <2>2. Parallel(Minus(b, a), v) <=> 625 * 0 * 0 <= 27 * x * y
    BY <1>5 DEF Parallel
  <2> HIDE DEF x, y
  <2>3. x * y > 0 /\ 27 * x * y = 27 * (x * y) /\ x * y \in Int
    BY <2>1, ProductIs
  <2> QED BY <2>2, <2>3
<1>7. Covers(a, b, c, v)
  BY <1>1, <1>2, <1>3, EdgeIsCovered
<1>8. Close(a, c, v, d2) /\ Close(b, c, v, d2)
  <2> DEFINE y == Square(v)
  <2>1. y \in Int /\ y > 0
    BY <1>5
  <2>2. /\ Close(a, c, v, d2) <=> 15625 * 0 * 0 <= 4 * d2 * y
        /\ Close(b, c, v, d2) <=> 15625 * 0 * 0 <= 4 * d2 * y
    BY <1>5 DEF Close
  <2> HIDE DEF y
  <2>3. d2 * y >= 0 /\ 4 * d2 * y = 4 * (d2 * y) /\ d2 * y \in Int
    BY <1>4, <2>1
  <2> QED BY <2>2, <2>3
<1>9. w \in DOMAIN s /\ s[w] = c /\ Edge(s, w) = v /\ Diagonal2(<<a, b>> \o s) = d2
  BY DEF c, v, d2
<1>10. w \in Matches(a, b, s)
  BY <1>2, <1>5, <1>6, <1>7, <1>8, <1>9 DEF Matches
<1> QED BY <1>10 DEF a, b

-----------------------------------------------------------------------------
(* The simplified contour. *)

LEMMA MatchIsWall ==
  ASSUME NEW pts \in Seq(Point), NEW s \in Seq(Point), NEW i \in 1 .. Len(pts),
         NEW w \in 1 .. Len(s), OnWall(pts, i, s, w), pts[i] # After(pts, i)
  PROVE  LET m == Matches(pts[i], After(pts, i), s)
             j == OnlyMatch(pts[i], After(pts, i), s)
         IN  /\ j # 0 => j = w
             /\ j = 0 => Cardinality(m) > 1
<1> DEFINE m == Matches(pts[i], After(pts, i), s)
           j == OnlyMatch(pts[i], After(pts, i), s)
<1>1. w \in m
  BY WallFound
<1>2. IsFiniteSet(m)
  <2>1. m \in SUBSET (1 .. Len(s))
    BY DEF Matches
  <2>2. IsFiniteSet(1 .. Len(s))
    <3>1. 1 \in Int /\ Len(s) \in Int
      OBVIOUS
    <3> QED BY <3>1, FS_Interval
  <2> HIDE DEF m
  <2> QED BY <2>1, <2>2, FS_Subset
<1>3. j = IF Cardinality(m) = 1 THEN Min(m) ELSE 0
  BY DEF OnlyMatch
<1> HIDE DEF m, j
<1>4. Cardinality(m) \in Nat /\ Cardinality(m) # 0
  BY <1>1, <1>2, FS_CardinalityType, FS_EmptySet
<1>5. CASE Cardinality(m) = 1
  <2>1. PICK x : m = {x}
    BY <1>2, <1>5, FS_Singleton
  <2>2. m = {w}
    BY <1>1, <2>1
  <2>3. Min(m) \in m
    <3>1. w \in Nat
      OBVIOUS
    <3>2. \E y \in m : \A z \in m : y =< z
      BY <2>2, <3>1
    <3> QED BY <3>2 DEF Min
  <2>4. j = w /\ w # 0
    BY <1>3, <1>5, <2>2, <2>3
  <2> QED BY <2>4 DEF j
<1>6. CASE Cardinality(m) # 1
  <2>1. j = 0 /\ Cardinality(m) > 1
    BY <1>3, <1>4, <1>6
  <2> QED BY <2>1 DEF j, m
<1> QED BY <1>5, <1>6

\* What a room is normalised to, compared with what was proposed.
Faithful(pts, new) ==
  /\ new.contour \in Seq(Point) /\ Len(new.contour) <= Len(pts)
  /\ new.walls \in [1 .. Len(pts) -> 1 .. Len(new.contour)]
  /\ TwiceArea(new.contour) = TwiceArea(pts)
  /\ Simple(new.contour) <=> Simple(pts)
  /\ \A i \in 1 .. Len(pts) : OnWall(pts, i, new.contour, new.walls[i])
  /\ \A w \in 1 .. Len(new.contour) : \E i \in 1 .. Len(pts) : new.walls[i] = w

\* One wall is not left in two, unless an edge can be said to lie on two.
Merged(pts, new) ==
  Simple(pts) =>
    \/ \A k \in 1 .. Len(new.contour) : ~Flat(new.contour, k)
    \/ /\ new.contour = pts
       /\ \E i \in 1 .. Len(pts) :
            Cardinality(Matches(pts[i], After(pts, i), Reduced(pts))) > 1

LEMMA KeepIs ==
  ASSUME NEW pts \in Seq(Point) PROVE Faithful(pts, Keep(pts)) /\ Keep(pts).contour = pts
<1> DEFINE new == Keep(pts)
<1>1. new.contour = pts /\ new.walls = [i \in 1 .. Len(pts) |-> i]
  BY DEF Keep
<1>2. \A i \in 1 .. Len(pts) : OnWall(pts, i, pts, i)
  BY OnOwnWall
<1>3. Len(pts) \in Nat
  OBVIOUS
<1> HIDE DEF new
<1>4. Faithful(pts, new)
  BY <1>1, <1>2, <1>3 DEF Faithful
<1> QED BY <1>1, <1>4 DEF new

LEMMA SimplifiedIs ==
  ASSUME NEW pts \in Seq(Point), Len(pts) >= 3
  PROVE  Faithful(pts, Simplified(pts)) /\ Merged(pts, Simplified(pts))
<1> DEFINE s == Reduced(pts)
           walls == Mapping(pts, s)
           Lost == \E i \in DOMAIN walls : walls[i] = 0
<1>1. Reduces(pts, s) /\ Redundant(s) = {}
  BY ReducedIs
<1>2. /\ s \in Seq(Point) /\ Len(s) <= Len(pts) /\ Len(s) >= 3
      /\ TwiceArea(s) = TwiceArea(pts) /\ Follows(pts, s)
      /\ ~ZeroEdge(pts) => ~ZeroEdge(s) /\ (SelfIntersects(pts) <=> SelfIntersects(s))
  BY <1>1 DEF Reduces
<1>3. DOMAIN walls = 1 .. Len(pts) /\ DOMAIN pts = 1 .. Len(pts)
      /\ \A i \in 1 .. Len(pts) : walls[i] = OnlyMatch(pts[i], After(pts, i), s)
  BY DEF Mapping
<1>4. Simplified(pts) = IF ~Simple(s) \/ Lost
                        THEN Keep(pts) ELSE [contour |-> s, walls |-> walls]
  BY DEF Simplified
<1> HIDE DEF s, walls
<1>5. ~ZeroEdge(pts) => (Simple(pts) <=> Simple(s))
  BY <1>2 DEF Simple
<1>6. ASSUME ~ZeroEdge(pts), NEW i \in 1 .. Len(pts), NEW w \in 1 .. Len(s), OnWall(pts, i, s, w)
      PROVE  /\ walls[i] # 0 => walls[i] = w
             /\ walls[i] = 0 => Cardinality(Matches(pts[i], After(pts, i), s)) > 1
  <2>1. pts[i] # After(pts, i)
    BY <1>3, <1>6 DEF ZeroEdge
  <2> QED BY <1>2, <1>3, <1>6, <2>1, MatchIsWall
<1>7. CASE ~Simple(s) \/ Lost
  <2>1. Simplified(pts) = Keep(pts)
    BY <1>4, <1>7
  <2>2. ASSUME Simple(pts)
        PROVE  \E i \in 1 .. Len(pts) : Cardinality(Matches(pts[i], After(pts, i), s)) > 1
    <3>1. ~ZeroEdge(pts) /\ Simple(s)
      BY <1>5, <2>2 DEF Simple
    <3>2. PICK i \in 1 .. Len(pts) : walls[i] = 0
      BY <1>3, <1>7, <3>1
    <3>3. PICK w \in 1 .. Len(s) : OnWall(pts, i, s, w)
      BY <1>2 DEF Follows
    <3> QED BY <1>6, <3>1, <3>2, <3>3
  <2>3. Merged(pts, Keep(pts))
    BY <2>2, KeepIs DEF Merged, s
  <2> QED BY <2>1, <2>3, KeepIs
<1>8. CASE ~(~Simple(s) \/ Lost)
  <2> DEFINE new == Simplified(pts)
  <2>1. new.contour = s /\ new.walls = walls
    BY <1>4, <1>8
  <2>2. Simple(s) /\ \A i \in 1 .. Len(pts) : walls[i] # 0
    BY <1>3, <1>8
  <2>3. ~ZeroEdge(pts)
    <3>1. ASSUME NEW i \in 1 .. Len(pts), pts[i] = After(pts, i) PROVE FALSE
      <4>1. Matches(pts[i], After(pts, i), s) = {}
        BY <3>1 DEF Matches
      <4>2. Cardinality({}) = 0
        BY FS_EmptySet
      <4>3. OnlyMatch(pts[i], After(pts, i), s) = 0
        BY <4>1, <4>2 DEF OnlyMatch
      <4> QED BY <1>3, <2>2, <4>3
    <3> QED BY <1>3, <3>1 DEF ZeroEdge
  <2>4. ASSUME NEW i \in 1 .. Len(pts)
        PROVE  walls[i] \in 1 .. Len(s) /\ OnWall(pts, i, s, walls[i])
    <3>1. PICK w \in 1 .. Len(s) : OnWall(pts, i, s, w)
      BY <1>2 DEF Follows
    <3>2. walls[i] = w
      BY <1>6, <2>2, <2>3, <3>1
    <3> QED BY <3>1, <3>2
  <2>5. ASSUME NEW w \in 1 .. Len(s) PROVE \E i \in 1 .. Len(pts) : walls[i] = w
    <3>1. PICK i \in 1 .. Len(pts) : OnWall(pts, i, s, w)
      BY <1>2 DEF Follows
    <3>2. walls[i] = w
      BY <1>6, <2>2, <2>3, <3>1
    <3> QED BY <3>2
  <2>6. walls \in [1 .. Len(pts) -> 1 .. Len(s)]
    <3>1. walls = [i \in 1 .. Len(pts) |-> walls[i]]
      BY <1>3 DEF walls, Mapping
    <3> QED BY <2>4, <3>1
  <2>7. \A k \in 1 .. Len(s) : ~Flat(s, k)
    <3>1. DOMAIN s = 1 .. Len(s)
      BY <1>2
    <3> QED BY <1>1, <1>2, <2>2, <3>1, NoFlat
  <2> HIDE DEF new
  <2>8. Faithful(pts, new)
    BY <1>2, <1>5, <2>1, <2>3, <2>4, <2>5, <2>6 DEF Faithful
  <2>9. Merged(pts, new)
    BY <2>1, <2>7 DEF Merged
  <2> QED BY <2>8, <2>9 DEF new
<1> QED BY <1>7, <1>8

-----------------------------------------------------------------------------
(* The opening. *)

\* A repeated last point changes no edge before it.
LEMMA OpenedIs ==
  ASSUME NEW pts \in Seq(Point)
  PROVE  /\ Opened(pts) \in Seq(Point) /\ Len(Opened(pts)) <= Len(pts)
         /\ \A i \in 1 .. Len(Opened(pts)) :
              Opened(pts)[i] = pts[i] /\ After(Opened(pts), i) = After(pts, i)
<1> DEFINE n == Len(pts)
<1>1. CASE n >= 2 /\ pts[1] = Last(pts)
  <2> DEFINE q == Front(pts)
  <2>1. n \in Nat /\ n >= 2 /\ pts[1] = pts[n]
    BY <1>1 DEF Last
  <2>2. q = [i \in 1 .. n - 1 |-> pts[i]]
    <3>1. \A i \in 1 .. n - 1 : 1 + i - 1 = i
      BY <2>1
    <3> QED BY <2>1, <3>1 DEF Front
  <2>3. \A i \in 1 .. n - 1 : pts[i] \in Point
    BY <2>1
  <2>4. q \in Seq(Point) /\ Len(q) = n - 1
    BY <2>1, <2>2, <2>3
  <2>5. Opened(pts) = q
    BY <1>1 DEF Opened
  <2>6. \A i \in 1 .. n - 1 : q[i] = pts[i]
    BY <2>2
  <2> HIDE DEF q, n
  <2>7. ASSUME NEW i \in 1 .. n - 1 PROVE After(q, i) = After(pts, i)
    <3>1. i \in 1 .. Len(q) /\ i \in 1 .. n /\ i # n
      BY <2>1, <2>4, <2>7
    <3>2. After(q, i) = q[Following(n - 1, i)] /\ After(pts, i) = pts[Following(n, i)]
      BY <2>4, <3>1, AfterIs DEF n
    <3>3. Following(n, i) = i + 1
      BY <3>1 DEF Following
    <3>4. CASE i = n - 1
      <4>1. Following(n - 1, i) = 1 /\ Following(n, i) = n /\ 1 \in 1 .. n - 1
        BY <2>1, <3>3, <3>4 DEF Following
      <4> QED BY <2>1, <2>6, <3>2, <4>1
    <3>5. CASE i # n - 1
      <4>1. Following(n - 1, i) = i + 1 /\ i + 1 \in 1 .. n - 1
        BY <2>1, <2>7, <3>5 DEF Following
      <4> QED BY <2>6, <3>2, <3>3, <4>1
    <3> QED BY <3>4, <3>5
  <2>8. n - 1 <= n
    BY <2>1
  <2> QED BY <2>4, <2>5, <2>6, <2>7, <2>8 DEF n
<1>2. CASE ~(n >= 2 /\ pts[1] = Last(pts))
  <2>1. Opened(pts) = pts
    BY <1>2 DEF Opened
  <2>2. n \in Nat /\ n <= n
    OBVIOUS
  <2> QED BY <2>1, <2>2
<1> QED BY <1>1, <1>2

\* A vector along (x, y) is its projection on it.
LEMMA Projected ==
  ASSUME NEW x \in Int, NEW y \in Int, NEW u \in Int, NEW v \in Int, x * v = y * u
  PROVE  /\ u * (x * x + y * y) = (u * x + v * y) * x
         /\ v * (x * x + y * y) = (u * x + v * y) * y
<1>1. u * (x * x + y * y) = u * (x * x) + y * (y * u)
  OBVIOUS
<1>2. (u * x + v * y) * x = u * (x * x) + y * (x * v)
  OBVIOUS
<1>3. v * (x * x + y * y) = x * (x * v) + v * (y * y)
  OBVIOUS
<1>4. (u * x + v * y) * y = x * (y * u) + v * (y * y)
  OBVIOUS
<1> QED BY <1>1, <1>2, <1>3, <1>4

\* The two sides of a position moved along one coordinate.
FromEdge(a, u, g, m, n, q) == ((a + u) * n + m * g) * (n * q)
FromWall(a, x, du, dg, m, n, q) == (a * (n * q) + (n * du + m * dg) * x) * n
Projection(u, q, d, x) == u * q = d * x
LEMMA MovedSide ==
  ASSUME NEW a \in Int, NEW u \in Int, NEW g \in Int, NEW x \in Int, NEW m \in Int,
         NEW n \in Int, NEW q \in Int, NEW du \in Int, NEW dg \in Int,
         Projection(u, q, du, x), Projection(g, q, dg, x)
  PROVE  FromEdge(a, u, g, m, n, q) = FromWall(a, x, du, dg, m, n, q)
<1>1. ((a + u) * n + m * g) * (n * q)
        = a * n * n * q + n * n * (u * q) + m * n * (g * q)
  OBVIOUS
<1>2. (a * (n * q) + (n * du + m * dg) * x) * n
        = a * n * n * q + n * n * (du * x) + m * n * (dg * x)
  OBVIOUS
<1> QED BY <1>1, <1>2 DEF FromEdge, FromWall, Projection

\* A position moved from an edge to the wall it lies on is the same point.
LEMMA MovedIs ==
  ASSUME NEW p0 \in Point, NEW p1 \in Point, NEW s0 \in Point, NEW s1 \in Point,
         OnSegment(s0, s1, p0), OnSegment(s0, s1, p1), NEW at \in Int \X Int
  PROVE  LET new == Moved(p0, p1, s0, s1, at)
         IN  \A k \in 1 .. 2 :
               (p0[k] * at[2] + at[1] * Minus(p1, p0)[k]) * new[2]
                 = (s0[k] * new[2] + new[1] * Minus(s1, s0)[k]) * at[2]
<1> DEFINE x == s1[1] - s0[1]
           y == s1[2] - s0[2]
           u == p0[1] - s0[1]
           v == p0[2] - s0[2]
           g == p1[1] - p0[1]
           h == p1[2] - p0[2]
           m == at[1]
           n == at[2]
           q == x * x + y * y
           du == u * x + v * y
           dg == g * x + h * y
           a == s0[1]
           b == s0[2]
           new == Moved(p0, p1, s0, s1, at)
<1>1. /\ p0[1] \in Int /\ p0[2] \in Int /\ p1[1] \in Int /\ p1[2] \in Int
      /\ a \in Int /\ b \in Int /\ s1[1] \in Int /\ s1[2] \in Int
  BY PointIs
<1>2. /\ x \in Int /\ y \in Int /\ u \in Int /\ v \in Int /\ g \in Int /\ h \in Int
      /\ m \in Int /\ n \in Int /\ p0[1] = a + u /\ p0[2] = b + v
      /\ p1[1] - a = u + g /\ p1[2] - b = v + h
  BY <1>1
<1>3. x * v = y * u /\ x * (v + h) = y * (u + g)
  <2>1. Cross(s0, s1, p0) = 0 /\ Cross(s0, s1, p1) = 0
    BY DEF OnSegment
  <2>2. x * (p0[2] - b) = y * (p0[1] - a) /\ x * (p1[2] - b) = y * (p1[1] - a)
    BY <2>1, LineIs
  <2> QED BY <1>2, <2>2
<1>4. /\ new[1] = n * du + m * dg /\ new[2] = n * q
      /\ Minus(p1, p0)[1] = g /\ Minus(p1, p0)[2] = h
      /\ Minus(s1, s0)[1] = x /\ Minus(s1, s0)[2] = y
  BY DEF Moved, Dot, Square, Minus
<1> HIDE DEF x, y, u, v, g, h, m, n, a, b, new
<1>5. x * h = y * g
  <2> HIDE DEF q, du, dg
  <2> QED BY <1>2, <1>3, Cancel
<1>6. /\ Projection(u, q, du, x) /\ Projection(v, q, du, y)
      /\ Projection(g, q, dg, x) /\ Projection(h, q, dg, y)
  BY <1>2, <1>3, <1>5, Projected DEF Projection
<1>7. q \in Int /\ du \in Int /\ dg \in Int
  BY <1>2
<1> HIDE DEF q, du, dg
<1>8. FromEdge(a, u, g, m, n, q) = FromWall(a, x, du, dg, m, n, q)
  BY <1>1, <1>2, <1>6, <1>7, MovedSide
<1>9. FromEdge(b, v, h, m, n, q) = FromWall(b, y, du, dg, m, n, q)
  BY <1>1, <1>2, <1>6, <1>7, MovedSide
<1>10. /\ (p0[1] * n + m * Minus(p1, p0)[1]) * new[2]
            = (a * new[2] + new[1] * Minus(s1, s0)[1]) * n
       /\ (p0[2] * n + m * Minus(p1, p0)[2]) * new[2]
            = (b * new[2] + new[1] * Minus(s1, s0)[2]) * n
  BY <1>2, <1>4, <1>8, <1>9 DEF FromEdge, FromWall
<1>11. \A k \in 1 .. 2 : k = 1 \/ k = 2
  OBVIOUS
<1> QED BY <1>10, <1>11 DEF a, b, m, n, new

\* An opening and the wall it is put on: one the contour has, or none, and at the
\* same point of the plan as long as it keeps its place.
SamePoint(p0, p1, at, s0, s1, new) ==
  \A k \in 1 .. 2 :
    (p0[k] * at[2] + at[1] * Minus(p1, p0)[k]) * new[2]
      = (s0[k] * new[2] + new[1] * Minus(s1, s0)[k]) * at[2]

LEMMA OpeningIs ==
  ASSUME NEW pts \in Seq(Point), NEW new, Faithful(Opened(pts), new),
         NEW e, e.wall \in 0 .. Len(pts), e.at \in Int \X Int
  PROVE  LET o == OpeningOf(pts, new, e)
         IN  /\ o.wall \in -1 .. Len(new.contour)
             /\ (o.wall > 0 /\ o.at # <<>>)
                  => SamePoint(pts[e.wall], After(pts, e.wall), e.at,
                               new.contour[o.wall], After(new.contour, o.wall), o.at)
<1> DEFINE q == Opened(pts)
           n == Len(q)
           m == Len(new.contour)
           w == Remapped(new.walls, e.wall)
           i == e.wall
           s == new.contour
           o == OpeningOf(pts, new, e)
<1>1. /\ q \in Seq(Point) /\ n \in Nat /\ n <= Len(pts) /\ i \in 0 .. Len(pts)
      /\ \A j \in 1 .. n : q[j] = pts[j] /\ After(q, j) = After(pts, j)
  BY OpenedIs
<1>2. /\ s \in Seq(Point) /\ m \in Nat /\ m <= n
      /\ new.walls \in [1 .. n -> 1 .. m]
      /\ \A j \in 1 .. n : OnWall(q, j, s, new.walls[j])
  BY DEF Faithful
<1>3. CASE i = 0
  <2>1. o = [wall |-> 0, at |-> <<>>]
    BY <1>3 DEF OpeningOf
  <2>2. 0 \in -1 .. m
    BY <1>2
  <2> QED BY <2>1, <2>2
<1>4. CASE i \in n + 1 .. Len(pts)
  <2>1. i \notin DOMAIN new.walls /\ i > m /\ i # 0
    BY <1>1, <1>2, <1>4
  <2>2. w = i
    BY <2>1 DEF Remapped
  <2>3. o = [wall |-> -1, at |-> <<>>]
    BY <2>1, <2>2 DEF OpeningOf
  <2>4. -1 \in -1 .. m /\ ~(-1 > 0)
    BY <1>2
  <2> QED BY <2>3, <2>4
<1>5. CASE i \in 1 .. n
  <2> DEFINE p0 == pts[i]  p1 == After(pts, i)
             s0 == s[w]    s1 == After(s, w)
             at == Moved(p0, p1, s0, s1, e.at)
  <2>1. /\ i \in DOMAIN new.walls /\ w = new.walls[i] /\ w \in 1 .. m
        /\ i # 0 /\ ~(w > m) /\ w \in -1 .. m
    BY <1>2, <1>5 DEF Remapped
  <2>2. p0 \in Point /\ p1 \in Point /\ s0 \in Point /\ s1 \in Point
    <3>1. i \in 1 .. Len(pts)
      BY <1>1, <1>5
    <3> QED BY <1>2, <2>1, <3>1, AfterIs
  <2>3. OnSegment(s0, s1, p0) /\ OnSegment(s0, s1, p1)
    BY <1>1, <1>2, <1>5, <2>1 DEF OnWall
  <2>4. o = IF p0 = s0 /\ p1 = s1 THEN [wall |-> w, at |-> e.at]
            ELSE [wall |-> w, at |-> IF Within(at) THEN at ELSE <<>>]
    BY <2>1 DEF OpeningOf
  <2>5. o.wall = w /\ (p0 = s0 /\ p1 = s1 => o.at = e.at)
        /\ (~(p0 = s0 /\ p1 = s1) /\ o.at # <<>> => o.at = at)
    BY <2>4
  <2>6. SamePoint(p0, p1, e.at, s0, s1, at)
    BY <2>2, <2>3, MovedIs DEF SamePoint
  <2>7. SamePoint(p0, p1, e.at, p0, p1, e.at)
    BY DEF SamePoint
  <2> HIDE DEF p0, p1, s0, s1, at, o, w
  <2>8. o.at # <<>> => SamePoint(p0, p1, e.at, s0, s1, o.at)
    <3>1. CASE p0 = s0 /\ p1 = s1
      BY <2>5, <2>7, <3>1
    <3>2. CASE ~(p0 = s0 /\ p1 = s1)
      BY <2>5, <2>6, <3>2
    <3> QED BY <3>1, <3>2
  <2>9. s0 = s[o.wall] /\ s1 = After(s, o.wall)
    BY <2>5 DEF s0, s1
  <2>10. o.at # <<>> => SamePoint(pts[i], After(pts, i), e.at, s[o.wall], After(s, o.wall), o.at)
    BY <2>8, <2>9 DEF p0, p1
  <2> QED BY <2>1, <2>5, <2>10 DEF o
<1>6. i = 0 \/ i \in n + 1 .. Len(pts) \/ i \in 1 .. n
  BY <1>1
<1> QED BY <1>3, <1>4, <1>5, <1>6

-----------------------------------------------------------------------------
(* The normalised room. *)

\* What Normalize makes of the contour and the evidence.
Normalized ==
  LET new == Simplified(Given)
  IN  [verdict |-> Verdict(new.contour), contour |-> new.contour, walls |-> new.walls,
       opening |-> OpeningOf(contour, new, evidence),
       dimension |-> DimensionOf(new, evidence)]

\* The invariant: the contour and the evidence are as the provider gave them, and
\* the room, once there is one, is what Normalize makes of them.
RoomIInv ==
  /\ contour \in Seq(Point)
  /\ evidence.wall \in 0 .. Len(contour) /\ evidence.at \in Int \X Int
  /\ \/ room = NoRoom
     \/ room = [NoRoom EXCEPT !.verdict = "contract_failure"]
     \/ Len(Given) >= 3 /\ room = Normalized

LEMMA RoomStarts ==
  ASSUME GeometryAssumption, RoomInit
  PROVE  RoomIInv
<1>1. /\ contour \in Contours /\ room = NoRoom
      /\ evidence \in [wall : 0 .. Len(contour), at : Places]
  BY DEF RoomInit
<1>2. evidence.wall \in 0 .. Len(contour) /\ evidence.at \in Places
  BY <1>1
<1>3. contour \in Seq(Point) /\ evidence.at \in Int \X Int
  BY <1>1, <1>2 DEF GeometryAssumption, Point
<1> QED BY <1>1, <1>2, <1>3 DEF RoomIInv

LEMMA RoomStep ==
  ASSUME RoomIInv, [RoomNext]_roomVars
  PROVE  RoomIInv'
<1>1. CASE Normalize
  <2>1. contour' = contour /\ evidence' = evidence
    BY <1>1 DEF Normalize
  <2>2. Given' = Given /\ Normalized' = Normalized
    BY <2>1 DEF Given, Normalized
  <2>3. room' = IF Len(Given) < 3 THEN [NoRoom EXCEPT !.verdict = "contract_failure"]
                ELSE Normalized
    BY <1>1 DEF Normalize, Given, Normalized
  <2>4. Len(Given) \in Nat
    BY OpenedIs DEF RoomIInv, Given
  <2> HIDE DEF Given, Normalized
  <2>5. CASE Len(Given) < 3
    BY <2>1, <2>3, <2>5 DEF RoomIInv
  <2>6. CASE ~(Len(Given) < 3)
    <3>1. Len(Given) >= 3 /\ room' = Normalized
      BY <2>3, <2>4, <2>6
    <3>2. (Len(Given) >= 3 /\ room = Normalized)'
      BY <2>2, <3>1
    <3> QED BY <2>1, <3>2 DEF RoomIInv
  <2> QED BY <2>5, <2>6
<1>2. CASE UNCHANGED roomVars
  BY <1>2 DEF roomVars, RoomIInv, Given, Normalized
<1> QED BY <1>1, <1>2 DEF RoomNext

LEMMA RoomIsRight ==
  ASSUME RoomIInv
  PROVE  RoomInvariant
<1>1. CASE room = NoRoom \/ room = [NoRoom EXCEPT !.verdict = "contract_failure"]
  <2>1. room.verdict = "none" \/ room.verdict = "contract_failure"
    BY <1>1 DEF NoRoom
  <2> QED BY <2>1 DEF RoomInvariant, RoomTypeOK, SameRoom, EveryEdgeHasItsWall,
                      NoWallInTwo, OpeningStaysPut, DimensionStaysOnItsWall, Done, Accepted
<1>2. CASE Len(Given) >= 3 /\ room = Normalized
  <2> DEFINE q == Given
             new == Simplified(q)
             n == Len(q)
             m == Len(new.contour)
  <2>1. contour \in Seq(Point) /\ q \in Seq(Point) /\ n \in Nat /\ q = Opened(contour)
    BY OpenedIs DEF RoomIInv, Given
  <2>2. Faithful(q, new) /\ Merged(q, new)
    BY <1>2, <2>1, SimplifiedIs
  <2>3. /\ room.verdict = IF Simple(new.contour) THEN "accepted" ELSE "invalid_contour"
        /\ room.contour = new.contour /\ room.walls = new.walls
        /\ room.opening = OpeningOf(contour, new, evidence)
        /\ room.dimension = DimensionOf(new, evidence)
    BY <1>2 DEF Normalized, Verdict
  <2>4. /\ room.verdict \in {"none", "accepted", "invalid_contour", "contract_failure"}
        /\ Done /\ (Accepted <=> Simple(new.contour))
    BY <2>3 DEF Done, Accepted
  <2> HIDE DEF new
  <2>5. /\ new.contour \in Seq(Point) /\ m \in Nat
        /\ new.walls \in [1 .. n -> 1 .. m]
        /\ TwiceArea(new.contour) = TwiceArea(q)
        /\ Simple(new.contour) <=> Simple(q)
        /\ \A i \in 1 .. n : OnWall(q, i, new.contour, new.walls[i])
        /\ \A w \in 1 .. m : \E i \in 1 .. n : new.walls[i] = w
    BY <2>2 DEF Faithful
  <2>6. DOMAIN q = 1 .. n /\ DOMAIN new.contour = 1 .. m
    BY <2>1, <2>5
  <2>7. RoomTypeOK
    <3>1. room.opening.wall \in -1 .. Len(room.contour)
      BY <2>1, <2>2, <2>3, OpeningIs DEF RoomIInv
    <3>2. room.dimension.wall \in 0 .. Len(room.contour)
      BY <2>3, <2>5, <2>6 DEF DimensionOf
    <3>3. Len(room.walls) = Len(q)
      BY <2>1, <2>3, <2>5
    <3>4. Accepted => Simple(room.contour)
      BY <2>3, <2>4
    <3> QED BY <2>4, <3>1, <3>2, <3>3, <3>4 DEF RoomTypeOK
  <2>8. SameRoom
    BY <2>3, <2>4, <2>5 DEF SameRoom
  <2>9. EveryEdgeHasItsWall
    <3>1. \A i \in 1 .. n :
            /\ OnSegment(new.contour[new.walls[i]], After(new.contour, new.walls[i]), q[i])
            /\ OnSegment(new.contour[new.walls[i]], After(new.contour, new.walls[i]), After(q, i))
      BY <2>5 DEF OnWall
    <3>2. ToSet(new.walls) = 1 .. m
      <4>1. ToSet(new.walls) = {new.walls[i] : i \in 1 .. n}
        BY <2>5 DEF ToSet
      <4> QED BY <2>5, <4>1
    <3> QED BY <2>3, <2>6, <3>1, <3>2 DEF EveryEdgeHasItsWall
  <2>10. NoWallInTwo
    <3>1. Simple(q) =>
            \/ \A k \in 1 .. m : ~Flat(new.contour, k)
            \/ /\ new.contour = q
               /\ \E i \in 1 .. n : Cardinality(Matches(q[i], After(q, i), Reduced(q))) > 1
      BY <2>2 DEF Merged
    <3> QED BY <2>3, <2>4, <2>5, <2>6, <3>1 DEF NoWallInTwo, AmbiguousEdge
  <2>11. OpeningStaysPut
    <3>1. (room.opening.wall > 0 /\ room.opening.at # <<>>)
            => SamePoint(contour[evidence.wall], After(contour, evidence.wall), evidence.at,
                         room.contour[room.opening.wall],
                         After(room.contour, room.opening.wall), room.opening.at)
      BY <2>1, <2>2, <2>3, OpeningIs DEF RoomIInv
    <3> QED BY <3>1 DEF OpeningStaysPut, SamePoint, Edge
  <2>12. DimensionStaysOnItsWall
    <3>1. /\ evidence.wall \in 0 .. Len(contour) /\ n <= Len(contour)
          /\ \A j \in 1 .. n : q[j] = contour[j] /\ After(q, j) = After(contour, j)
      BY <2>1, OpenedIs DEF RoomIInv
    <3>2. CASE evidence.wall \in 1 .. n
      <4> DEFINE w == new.walls[evidence.wall]
      <4>1. w \in 1 .. m /\ OnWall(q, evidence.wall, new.contour, w)
        BY <2>5, <3>2
      <4>2. Remapped(new.walls, evidence.wall) = w
        BY <2>5, <3>2 DEF Remapped
      <4>3. room.dimension.wall = w /\ room.dimension.status = "proposed"
        BY <2>3, <2>6, <4>1, <4>2 DEF DimensionOf
      <4> HIDE DEF w
      <4>4. /\ OnSegment(new.contour[w], After(new.contour, w), contour[evidence.wall])
            /\ OnSegment(new.contour[w], After(new.contour, w), After(contour, evidence.wall))
        BY <3>1, <3>2, <4>1 DEF OnWall
      <4> QED BY <2>3, <2>6, <3>2, <4>3, <4>4 DEF DimensionStaysOnItsWall
    <3>3. CASE evidence.wall \notin 1 .. n
      <4>1. Remapped(new.walls, evidence.wall) = evidence.wall
        BY <2>5, <3>3 DEF Remapped
      <4>2. m <= n
        BY <2>2 DEF Faithful
      <4>3. evidence.wall \notin 1 .. m
        BY <2>1, <2>5, <3>3, <4>2
      <4>4. room.dimension.status = "unresolved"
        BY <2>3, <2>6, <4>1, <4>3 DEF DimensionOf
      <4> QED BY <2>6, <3>3, <4>4 DEF DimensionStaysOnItsWall
    <3> QED BY <3>2, <3>3
  <2> QED BY <2>7, <2>8, <2>9, <2>10, <2>11, <2>12 DEF RoomInvariant
<1> QED BY <1>1, <1>2 DEF RoomIInv

-----------------------------------------------------------------------------

\* Whatever contour the provider proposes, normalisation keeps its area and the
\* schema's verdict on it, finds every edge's wall, leaves no wall in two and no
\* opening displaced, and puts a dimension on the wall its edge became part of
\* (_simplify_semantic_contour and its callers).
THEOREM RoomSafe == ASSUME GeometryAssumption PROVE RoomSpec => []RoomInvariant
<1>1. RoomInit => RoomIInv
  BY RoomStarts
<1>2. RoomIInv /\ [RoomNext]_roomVars => RoomIInv'
  BY RoomStep
<1>3. RoomIInv => RoomInvariant
  BY RoomIsRight
<1> QED BY <1>1, <1>2, <1>3, PTL DEF RoomSpec
=============================================================================
