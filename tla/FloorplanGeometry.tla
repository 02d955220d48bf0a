------------------------- MODULE FloorplanGeometry -------------------------
(***************************************************************************)
(* What becomes of one room proposed by the vision provider: its contour   *)
(* loses a repeated last point and its exactly collinear corners, its      *)
(* dimensions and openings follow their walls, and the schema accepts or   *)
(* rejects the outcome.                                                    *)
(*                                                                         *)
(* Coordinates are points of a small grid, so that every comparison the    *)
(* code makes with a tolerance is decided exactly in integers: a length is *)
(* compared by its square, a fraction along a wall is a pair <<n, d>>.     *)
(* A wall has the index of its first corner, from 1; 0 is "no wall".       *)
(***************************************************************************)
EXTENDS Integers, Sequences, FiniteSets, SequencesExt, FiniteSetsExt

CONSTANTS
  Contours,   \* contours the provider may propose
  Places      \* positions <<n, d>> of an opening along its wall

VARIABLES
  contour,   \* the provider's contour
  evidence,  \* the provider's wall and position of an opening and a dimension
  room       \* the outcome
roomVars == <<contour, evidence, room>>

\* Assumed of the constants by the theorems and by every instance: the contract's
\* points are finite numbers, a position is a fraction.
GeometryAssumption ==
  /\ \A s \in Contours : s \in Seq(Int \X Int)
  /\ \A p \in Places : p \in Nat \X (Nat \ {0})

NoRoom == [verdict |-> "none", contour |-> <<>>, walls |-> <<>>,
           opening |-> [wall |-> 0, at |-> <<>>], dimension |-> [wall |-> 0, status |-> "none"]]

-----------------------------------------------------------------------------
(* Plane geometry. *)

Minus(a, b) == <<a[1] - b[1], a[2] - b[2]>>
Dot(u, v) == u[1] * v[1] + u[2] * v[2]
CrossOf(u, v) == u[1] * v[2] - u[2] * v[1]
Cross(a, b, c) == CrossOf(Minus(b, a), Minus(c, a))
Square(u) == Dot(u, u)
Least(x, y) == IF x < y THEN x ELSE y
Most(x, y) == IF x > y THEN x ELSE y

After(pts, i) == pts[IF i = Len(pts) THEN 1 ELSE i + 1]
Before(pts, i) == pts[IF i = 1 THEN Len(pts) ELSE i - 1]
Edge(pts, i) == Minus(After(pts, i), pts[i])

InBox(a, b, p) ==
  \A k \in 1 .. 2 : Least(a[k], b[k]) <= p[k] /\ p[k] <= Most(a[k], b[k])
OnSegment(a, b, p) == Cross(a, b, p) = 0 /\ InBox(a, b, p)
Opposite(x, y) == (x > 0 /\ y < 0) \/ (x < 0 /\ y > 0)
Meet(a, b, c, d) ==
  \/ Opposite(Cross(a, b, c), Cross(a, b, d)) /\ Opposite(Cross(c, d, a), Cross(c, d, b))
  \/ OnSegment(a, b, c) \/ OnSegment(a, b, d) \/ OnSegment(c, d, a) \/ OnSegment(c, d, b)

\* Two walls on one line that share more than a point.
CollinearOverlap(a, b, c, d) ==
  /\ Cross(a, b, c) = 0 /\ Cross(a, b, d) = 0
  /\ LET u == Minus(b, a)
         k == IF u[1] * u[1] >= u[2] * u[2] THEN 1 ELSE 2
     IN  Least(Most(a[k], b[k]), Most(c[k], d[k])) > Most(Least(a[k], b[k]), Least(c[k], d[k]))

Neighbours(pts, i, j) == (i % Len(pts)) + 1 = j \/ (j % Len(pts)) + 1 = i
SelfIntersects(pts) ==
  \E i, j \in DOMAIN pts :
    /\ i < j
    /\ Meet(pts[i], After(pts, i), pts[j], After(pts, j))
    /\ ~Neighbours(pts, i, j) \/ CollinearOverlap(pts[i], After(pts, i), pts[j], After(pts, j))

ZeroEdge(pts) == \E i \in DOMAIN pts : pts[i] = After(pts, i)
TwiceArea(pts) ==
  LET upTo[n \in 0 .. Len(pts)] ==
        IF n = 0 THEN 0 ELSE upTo[n - 1] + CrossOf(pts[n], After(pts, n))
  IN  upTo[Len(pts)]

\* RoomCandidate.coherent and _semantic_polygon_is_valid ask the same.
Simple(pts) == Len(pts) >= 3 /\ ~ZeroEdge(pts) /\ TwiceArea(pts) # 0 /\ ~SelfIntersects(pts)

-----------------------------------------------------------------------------
(* The semantic contour. *)

\* A repeated last point is dropped.
Opened(pts) == IF Len(pts) >= 2 /\ pts[1] = Last(pts) THEN Front(pts) ELSE pts

\* Faulty variant: a shallow corner counts as flat too.
FlatNearly(pts, i) == InBox(Before(pts, i), After(pts, i), pts[i])
Flat(pts, i) == OnSegment(Before(pts, i), After(pts, i), pts[i])
Redundant(pts) ==
  {i \in DOMAIN pts : Len(pts) > 3 /\ Flat(pts, i) /\ Simple(RemoveAt(pts, i))}

\* The first redundant corner is removed.
Shorter(pts) == IF Redundant(pts) = {} THEN pts ELSE RemoveAt(pts, Min(Redundant(pts)))

\* Faulty variant: only one corner is removed.
ReducedOnce(pts) == Shorter(pts)
\* Until none is left, at the latest when there are no more corners.
Reduced(pts) ==
  LET rest[n \in 0 .. Len(pts)] == IF n = 0 THEN pts ELSE Shorter(rest[n - 1])
  IN  rest[Len(pts)]

\* Walls of sem that an original edge can be said to lie on: nearly parallel
\* (12 degrees), covering four fifths of it, and close to both its ends.
Diagonal2(pts) ==
  LET Spread(k) == Max({p[k] : p \in ToSet(pts)}) - Min({p[k] : p \in ToSet(pts)})
  IN  Spread(1) * Spread(1) + Spread(2) * Spread(2)
Parallel(o, s) == 625 * CrossOf(o, s) * CrossOf(o, s) <= 27 * Square(o) * Square(s)
Covers(a, b, c, s) ==
  LET from == Dot(Minus(a, c), s)
      to == Dot(Minus(b, c), s)
      shared == Least(Most(from, to), Square(s)) - Most(Least(from, to), 0)
  IN  shared > 0 /\ 25 * shared * shared >= 16 * Square(s) * Square(Minus(b, a))
Close(a, c, s, d2) ==
  15625 * CrossOf(s, Minus(a, c)) * CrossOf(s, Minus(a, c)) <= 4 * d2 * Square(s)
Matches(a, b, sem) ==
  {j \in DOMAIN sem :
     LET s == Edge(sem, j)
         d2 == Diagonal2(<<a, b>> \o sem)
     IN  /\ a # b /\ Square(s) > 0
         /\ Parallel(Minus(b, a), s) /\ Covers(a, b, sem[j], s)
         /\ Close(a, sem[j], s, d2) /\ Close(b, sem[j], s, d2)}

OnlyMatch(a, b, sem) ==
  LET m == Matches(a, b, sem) IN IF Cardinality(m) = 1 THEN Min(m) ELSE 0
Mapping(pts, sem) == [i \in DOMAIN pts |-> OnlyMatch(pts[i], After(pts, i), sem)]

\* The simplified contour, unless it is not simple or an edge lost its wall.
Keep(pts) == [contour |-> pts, walls |-> [i \in DOMAIN pts |-> i]]
Simplified(pts) ==
  LET sem == Reduced(pts)
      walls == Mapping(pts, sem)
  IN  IF ~Simple(sem) \/ \E i \in DOMAIN walls : walls[i] = 0
      THEN Keep(pts)
      ELSE [contour |-> sem, walls |-> walls]

-----------------------------------------------------------------------------
(* Openings and dimensions. *)

\* The provider's wall in the new contour; an index it made up stays as it is.
Remapped(walls, i) == IF i \in DOMAIN walls THEN walls[i] ELSE i

\* Faulty variant: the position is taken over as it is.
MovedUnchanged(p0, p1, s0, s1, at) == at
\* A fraction of the provider's edge as a fraction of the wall it lies on.
Moved(p0, p1, s0, s1, at) ==
  LET s == Minus(s1, s0)
  IN  <<at[2] * Dot(Minus(p0, s0), s) + at[1] * Dot(Minus(p1, p0), s), at[2] * Square(s)>>
Within(at) == 0 <= at[1] /\ at[1] <= at[2]

\* An opening without a wall loses its place; one on a made-up wall is dropped.
OpeningOf(pts, new, e) ==
  LET w == Remapped(new.walls, e.wall)
      p0 == pts[e.wall]    p1 == After(pts, e.wall)
      s0 == new.contour[w] s1 == After(new.contour, w)
  IN  IF e.wall = 0 THEN [wall |-> 0, at |-> <<>>]
      ELSE IF w > Len(new.contour) THEN [wall |-> -1, at |-> <<>>]
      ELSE IF p0 = s0 /\ p1 = s1 THEN [wall |-> w, at |-> e.at]
      ELSE LET at == Moved(p0, p1, s0, s1, e.at)
           IN  [wall |-> w, at |-> IF Within(at) THEN at ELSE <<>>]

\* Faulty variant: the provider's index is taken over, if there is such a wall.
DimensionNotRemapped(new, e) ==
  LET known == e.wall \in DOMAIN new.contour
  IN  [wall |-> IF known THEN e.wall ELSE 0, status |-> IF known THEN "proposed" ELSE "unresolved"]

\* A proposed dimension keeps its status only on an existing wall.
DimensionOf(new, e) ==
  LET w == Remapped(new.walls, e.wall)
      known == w \in DOMAIN new.contour
  IN  [wall |-> IF known THEN w ELSE 0, status |-> IF known THEN "proposed" ELSE "unresolved"]

-----------------------------------------------------------------------------
RoomInit ==
  /\ contour \in Contours
  /\ evidence \in [wall : 0 .. Len(contour), at : Places]
  /\ room = NoRoom

\* RoomCandidate.coherent on the outcome.
Verdict(pts) == IF Simple(pts) THEN "accepted" ELSE "invalid_contour"

Normalize ==
  /\ room = NoRoom
  /\ LET pts == Opened(contour)
         new == Simplified(pts)
     IN  room' = IF Len(pts) < 3 THEN [NoRoom EXCEPT !.verdict = "contract_failure"]
                 ELSE [verdict |-> Verdict(new.contour), contour |-> new.contour,
                       walls |-> new.walls,
                       opening |-> OpeningOf(contour, new, evidence),
                       dimension |-> DimensionOf(new, evidence)]
  /\ UNCHANGED <<contour, evidence>>

RoomNext == Normalize
RoomSpec == RoomInit /\ [][RoomNext]_roomVars

-----------------------------------------------------------------------------
(* Properties. *)

Done == room.verdict \in {"accepted", "invalid_contour"}
Accepted == room.verdict = "accepted"
Given == Opened(contour)

\* Types, and: an accepted room is a simple polygon whose walls, openings and
\* dimensions agree with its contour (RoomCandidate.coherent).
RoomTypeOK ==
  /\ room.verdict \in {"none", "accepted", "invalid_contour", "contract_failure"}
  /\ Accepted => /\ Simple(room.contour)
                 /\ room.opening.wall \in -1 .. Len(room.contour)
                 /\ room.dimension.wall \in 0 .. Len(room.contour)
                 /\ Len(room.walls) = Len(Given)

\* Simplification never turns a room into another one: the same area, and a
\* contour the schema would have refused is refused still
\* ("without repairing or inventing evidence").
SameRoom ==
  Done => /\ TwiceArea(room.contour) = TwiceArea(Given)
          /\ Accepted <=> Simple(Given)

\* Every edge of the provider lies on the wall it is mapped to, and no wall is
\* left without an edge (_simplify_semantic_contour's mapping).
EveryEdgeHasItsWall ==
  Accepted =>
    /\ \A i \in DOMAIN Given :
         LET w == room.walls[i] IN
         /\ OnSegment(room.contour[w], After(room.contour, w), Given[i])
         /\ OnSegment(room.contour[w], After(room.contour, w), After(Given, i))
    /\ ToSet(room.walls) = DOMAIN room.contour

\* An accepted contour has no flat corner, one wall is never left in two, unless
\* an edge could be said to lie on two walls: then the provider's contour stands
\* ("preserve the original geometry and its identity mapping instead of guessing").
AmbiguousEdge ==
  \E i \in DOMAIN Given : Cardinality(Matches(Given[i], After(Given, i), Reduced(Given))) > 1
NoWallInTwo ==
  Accepted => \/ \A i \in DOMAIN room.contour : ~Flat(room.contour, i)
              \/ AmbiguousEdge /\ room.contour = Given

\* An opening that keeps its place is at the same point of the plan
\* (_transform_opening_geometry_to_semantic_edge).
OpeningStaysPut ==
  (Accepted /\ room.opening.wall > 0 /\ room.opening.at # <<>>) =>
    LET from == contour[evidence.wall]
        along == Minus(After(contour, evidence.wall), from)
        wall == room.contour[room.opening.wall]
        way == Edge(room.contour, room.opening.wall)
    IN  \A k \in 1 .. 2 :
          (from[k] * evidence.at[2] + evidence.at[1] * along[k]) * room.opening.at[2]
            = (wall[k] * room.opening.at[2] + room.opening.at[1] * way[k]) * evidence.at[2]

\* A proposed dimension stays proposed if the provider's edge exists, and is then put
\* on the wall that edge lies on, not on the one that got its index
\* (_remap_provider_edge in _normalize_dimensions).  That wall may be longer than
\* the edge the dimension was read at.
DimensionStaysOnItsWall ==
  Accepted =>
    /\ room.dimension.status = "proposed" <=> evidence.wall \in DOMAIN Given
    /\ evidence.wall \in DOMAIN Given =>
         LET from == room.contour[room.dimension.wall]
             to == After(room.contour, room.dimension.wall)
         IN  /\ OnSegment(from, to, contour[evidence.wall])
             /\ OnSegment(from, to, After(contour, evidence.wall))

\* A dimension that stays proposed measures the wall it names
\* ("Assign edgeIndex only when dimension orientation, line/endpoints, and wall
\* alignment support it").
DimensionMeasuresItsWall ==
  (Accepted /\ room.dimension.status = "proposed") =>
    Square(Edge(room.contour, room.dimension.wall)) = Square(Edge(contour, evidence.wall))

\* The normalised room is the room the provider proposed.
RoomInvariant ==
  /\ RoomTypeOK
  /\ SameRoom
  /\ EveryEdgeHasItsWall
  /\ NoWallInTwo
  /\ OpeningStaysPut
  /\ DimensionStaysOnItsWall
=============================================================================
