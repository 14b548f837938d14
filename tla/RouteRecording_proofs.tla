------------------------- MODULE RouteRecording_proofs -------------------------
(***************************************************************************)
(* Proofs about RelayRoute: what its operators on routes return, for every  *)
(* route, and what is recorded of the way of the leader.                    *)
(***************************************************************************)
EXTENDS RelayRoute, SequenceTheorems, WellFoundedInduction, TLAPS

-------------------------------------------------------------------------------
(* Natural numbers: the induction principle as a statement about sets.      *)

LEMMA LeastElement ==
  ASSUME NEW S \in SUBSET Nat, S # {}
  PROVE  \E n \in S : \A m \in S : n <= m
<1> DEFINE R == OpToRel(<, Nat)
<1>1. IsWellFoundedOn(R, Nat)
  BY NatLessThanWellFounded
<1>2. \A x, y \in Nat : y < x => <<y, x>> \in R
  BY DEF OpToRel
<1> HIDE DEF R
<1>3. PICK n \in S : \A m \in S : ~(<<m, n>> \in R)
  BY <1>1, WFMin
<1>4. ASSUME NEW m \in S PROVE n <= m
  <2>1. m \in Nat /\ n \in Nat
    OBVIOUS
  <2>2. ~(m < n)
    BY <1>2, <1>3, <2>1
  <2> QED BY <2>1, <2>2
<1> QED BY <1>4

LEMMA InductiveSet ==
  ASSUME NEW S \in SUBSET Nat, 0 \in S, \A n \in S : n + 1 \in S
  PROVE  S = Nat
<1> SUFFICES ASSUME Nat \ S # {} PROVE FALSE
  OBVIOUS
<1>1. Nat \ S \in SUBSET Nat
  OBVIOUS
<1>2. PICK n \in Nat \ S : \A m \in Nat \ S : n <= m
  BY <1>1, LeastElement
<1>3. n # 0 /\ n - 1 \in Nat
  BY <1>2
<1>4. n - 1 \in S
  BY <1>2, <1>3
<1> QED BY <1>2, <1>3, <1>4

\* Lengths of ways of n cells.
LEMMA CellTimes ==
  /\ Cell \in Nat
  /\ \A n \in Int : Cell * n \in Int /\ Cell * (n + 1) = Cell * n + Cell
  /\ Cell * 0 = 0
  /\ \A m, n \in Int : m <= n => Cell * m <= Cell * n
<1>1. Cell \in Nat
  BY GroundAssumption
<1>2. \A n \in Int : Cell * n \in Int /\ Cell * (n + 1) = Cell * n + Cell
  BY <1>1
<1>3. ASSUME NEW m \in Int, NEW n \in Int, m <= n PROVE Cell * m <= Cell * n
  <2>1. n - m \in Nat
    BY <1>3
  <2>2. Cell * (n - m) \in Nat
    BY <1>1, <2>1
  <2>3. Cell * (n - m) = Cell * n - Cell * m
    BY <1>1
  <2> QED BY <1>2, <2>2, <2>3
<1> QED BY <1>1, <1>2, <1>3

-------------------------------------------------------------------------------
(* Routes.                                                                  *)

RoutePoint == [at : Ground, progress : Nat]

\* Progress is measured from the first point the leader ever recorded.
IsRoute(r) ==
  /\ r \in Seq(RoutePoint)
  /\ \A i \in DOMAIN r : r[i].progress <= End(r).progress

LEMMA EndOfRoute ==
  ASSUME NEW r, IsRoute(r), r # <<>>
  PROVE  /\ Len(r) \in Nat \ {0} /\ DOMAIN r = 1 .. Len(r)
         /\ \A i \in 1 .. Len(r) : r[i] \in RoutePoint
         /\ End(r) \in RoutePoint /\ End(r).at \in Ground /\ End(r).progress \in Nat
         /\ EndProgress(r) = End(r).progress
<1>1. r \in Seq(RoutePoint)
  BY DEF IsRoute
<1>2. Len(r) \in Nat \ {0} /\ DOMAIN r = 1 .. Len(r)
  BY <1>1
<1>3. \A i \in 1 .. Len(r) : r[i] \in RoutePoint
  BY <1>1, <1>2, ElementOfSeq
<1>4. End(r) \in RoutePoint
  BY <1>2, <1>3 DEF End
<1>5. \A p \in RoutePoint : p.at \in Ground /\ p.progress \in Nat
  BY DEF RoutePoint
<1> QED BY <1>2, <1>3, <1>4, <1>5 DEF EndProgress

LEMMA PointOfRoute ==
  ASSUME NEW r, IsRoute(r), r # <<>>, NEW i \in 1 .. Len(r)
  PROVE  r[i].at \in Ground /\ r[i].progress \in Nat /\ r[i].progress <= End(r).progress
<1>1. r[i] \in RoutePoint /\ i \in DOMAIN r
  BY EndOfRoute
<1>2. r[i].at \in Ground /\ r[i].progress \in Nat
  BY <1>1 DEF RoutePoint
<1> QED BY <1>1, <1>2 DEF IsRoute

\* Trim: a last part of the route that is not empty.
LEMMA TrimKeepsEnd ==
  ASSUME NEW r, IsRoute(r), r # <<>>
  PROVE  IsRoute(Trim(r)) /\ Trim(r) # <<>> /\ End(Trim(r)) = End(r)
<1> DEFINE Kept(i) == i >= Len(r) - 1 \/ End(r).progress - r[i].progress <= MaxRoute
           IsFirst(i) == i \in DOMAIN r /\ Kept(i) /\ \A j \in 1 .. i - 1 : ~Kept(j)
           first == CHOOSE i \in DOMAIN r : Kept(i) /\ \A j \in 1 .. i - 1 : ~Kept(j)
           S == {i \in DOMAIN r : Kept(i)}
<1>1. /\ Len(r) \in Nat \ {0} /\ DOMAIN r = 1 .. Len(r)
      /\ \A i \in 1 .. Len(r) : r[i] \in RoutePoint
  BY EndOfRoute
<1>2. S \in SUBSET Nat /\ Len(r) \in S
  BY <1>1
<1>3. PICK i \in S : \A j \in S : i <= j
  BY <1>2, LeastElement
<1>4. \A j \in 1 .. i - 1 : ~Kept(j)
  BY <1>1, <1>3
<1>5. first \in 1 .. Len(r)
  <2>1. i \in DOMAIN r /\ Kept(i)
    BY <1>3
  <2>2. \E k \in DOMAIN r : Kept(k) /\ \A j \in 1 .. k - 1 : ~Kept(j)
    BY <1>4, <2>1
  <2> HIDE DEF Kept
  <2>3. first \in DOMAIN r
    BY <2>2
  <2> QED BY <1>1, <2>3
<1>6. Trim(r) = SubSeq(r, first, Len(r))
  BY DEF Trim
<1> HIDE DEF first
<1>7. /\ SubSeq(r, first, Len(r)) \in Seq(RoutePoint)
      /\ Len(SubSeq(r, first, Len(r))) = Len(r) - first + 1
      /\ \A k \in 1 .. Len(r) - first + 1 : SubSeq(r, first, Len(r))[k] = r[first + k - 1]
  <2>1. \A k \in first .. Len(r) : r[k] \in RoutePoint
    BY <1>1, <1>5
  <2> QED BY <1>1, <1>5, <2>1, SubSeqProperties
<1>8. /\ Trim(r) \in Seq(RoutePoint) /\ Len(Trim(r)) = Len(r) - first + 1
      /\ DOMAIN Trim(r) = 1 .. Len(r) - first + 1
      /\ \A k \in 1 .. Len(r) - first + 1 : Trim(r)[k] = r[first + k - 1]
  BY <1>6, <1>7
<1>9. End(Trim(r)) = End(r)
  BY <1>1, <1>5, <1>8 DEF End
<1>10. ASSUME NEW k \in DOMAIN Trim(r) PROVE Trim(r)[k].progress <= End(r).progress
  <2>1. k \in 1 .. Len(r) - first + 1
    BY <1>8
  <2>2. first + k - 1 \in 1 .. Len(r)
    BY <1>1, <1>5, <2>1
  <2>3. Trim(r)[k] = r[first + k - 1]
    BY <1>8, <2>1
  <2> QED BY <2>2, <2>3, PointOfRoute
<1>11. Trim(r) # <<>>
  BY <1>1, <1>5, <1>8
<1> QED BY <1>8, <1>9, <1>10, <1>11 DEF IsRoute

\* appendAcceptedRoutePoint: afterwards the route ends at the cell, and its progress has
\* grown by the distance to it, whether the cell was added or is the end already.
LEMMA AcceptedPoint ==
  ASSUME NEW r, IsRoute(r), NEW cell \in Ground
  PROVE  LET e == appendAcceptedRoutePoint(r, cell)
         IN  /\ IsRoute(e) /\ e # <<>> /\ End(e).at = cell
             /\ r = <<>> => EndProgress(e) = 0
             /\ r # <<>> => EndProgress(e) = EndProgress(r) + Between(End(r).at, cell)
<1> DEFINE e == appendAcceptedRoutePoint(r, cell)
<1>1. CASE r = <<>>
  <2> DEFINE p == [at |-> cell, progress |-> 0]
  <2>1. e = <<p>> /\ p \in RoutePoint /\ p.at = cell /\ p.progress = 0
    BY <1>1 DEF appendAcceptedRoutePoint, RoutePoint
  <2> HIDE DEF p, e
  <2>2. e \in Seq(RoutePoint) /\ Len(e) = 1 /\ DOMAIN e = {1} /\ e[1] = p /\ e # <<>>
    BY <2>1
  <2> QED BY <1>1, <2>1, <2>2 DEF e, IsRoute, End, EndProgress
<1>2. CASE r # <<>>
  <2> DEFINE segment == Between(End(r).at, cell)
             p == [at |-> cell, progress |-> End(r).progress + segment]
  <2>1. /\ End(r).at \in Ground /\ End(r).progress \in Nat /\ EndProgress(r) = End(r).progress
        /\ Len(r) \in Nat \ {0} /\ DOMAIN r = 1 .. Len(r)
    BY <1>2, EndOfRoute
  <2>2. /\ segment \in Nat /\ SampleSpacing \in Nat
        /\ IF End(r).at = cell THEN segment = 0 ELSE segment >= SampleSpacing
    BY <2>1, DistanceAssumption, GroundAssumption
  <2>3. CASE segment < SampleSpacing
    <3>1. e = r
      BY <1>2, <2>3 DEF appendAcceptedRoutePoint
    <3>2. End(r).at = cell /\ segment = 0
      BY <2>2, <2>3
    <3> QED BY <1>2, <2>1, <3>1, <3>2
  <2>4. CASE ~(segment < SampleSpacing)
    <3>1. e = Trim(Append(r, p))
      BY <1>2, <2>4 DEF appendAcceptedRoutePoint
    <3>2. p \in RoutePoint /\ p.at = cell /\ p.progress = End(r).progress + segment
      BY <2>1, <2>2 DEF RoutePoint
    <3> HIDE DEF p, segment, e
    <3>3. /\ Append(r, p) \in Seq(RoutePoint) /\ Len(Append(r, p)) = Len(r) + 1
          /\ \A i \in 1 .. Len(r) : Append(r, p)[i] = r[i]
          /\ Append(r, p)[Len(r) + 1] = p
      BY <3>2, AppendProperties DEF IsRoute
    <3>4. DOMAIN Append(r, p) = 1 .. Len(r) + 1 /\ End(Append(r, p)) = p /\ Append(r, p) # <<>>
      BY <2>1, <3>3 DEF End
    <3>5. \A i \in DOMAIN Append(r, p) : Append(r, p)[i].progress <= p.progress
      <4> SUFFICES ASSUME NEW i \in 1 .. Len(r) + 1 PROVE Append(r, p)[i].progress <= p.progress
        BY <3>4
      <4>1. CASE i = Len(r) + 1
        BY <2>1, <2>2, <3>2, <3>3, <4>1
      <4>2. CASE i \in 1 .. Len(r)
        <5>1. r[i].progress <= End(r).progress /\ r[i].progress \in Nat
          BY <1>2, <2>1, <4>2, PointOfRoute
        <5>2. segment \in Nat /\ Append(r, p)[i] = r[i]
          BY <2>2, <3>3, <4>2
        <5> QED BY <2>1, <3>2, <5>1, <5>2
      <4> QED BY <2>1, <4>1, <4>2
    <3>6. IsRoute(Append(r, p))
      BY <3>3, <3>4, <3>5 DEF IsRoute
    <3>7. IsRoute(e) /\ e # <<>> /\ End(e) = p
      BY <3>1, <3>4, <3>6, TrimKeepsEnd
    <3>8. EndProgress(e) = EndProgress(r) + segment
      BY <2>1, <3>2, <3>7 DEF EndProgress
    <3> QED BY <1>2, <3>2, <3>7, <3>8 DEF e, segment
  <2> QED BY <2>3, <2>4
<1> QED BY <1>1, <1>2

\* The recursive function of appendBranch exists, up to every length.
BranchTo(r, cells, n, g) ==
  g = [m \in 0 .. n |-> IF m = 0 THEN r ELSE appendAcceptedRoutePoint(g[m - 1], cells[m])]

LEMMA BranchExists ==
  ASSUME NEW r, NEW cells
  PROVE  \A n \in Nat : \E g : BranchTo(r, cells, n, g)
<1> DEFINE S == {n \in Nat : \E g : BranchTo(r, cells, n, g)}
<1>1. 0 \in S
  <2> DEFINE g == [m \in 0 .. 0 |-> r]
  <2>1. BranchTo(r, cells, 0, g)
    BY DEF BranchTo
  <2> QED BY <2>1
<1>2. ASSUME NEW n \in S PROVE n + 1 \in S
  <2>1. n \in Nat /\ n + 1 \in Nat
    OBVIOUS
  <2>2. PICK g : BranchTo(r, cells, n, g)
    OBVIOUS
  <2> DEFINE h == [m \in 0 .. n + 1 |->
                     IF m <= n THEN g[m] ELSE appendAcceptedRoutePoint(g[n], cells[n + 1])]
  <2>3. ASSUME NEW m \in 0 .. n + 1
        PROVE  h[m] = IF m = 0 THEN r ELSE appendAcceptedRoutePoint(h[m - 1], cells[m])
    <3>1. CASE m = 0
      <4>1. g[0] = r
        BY <2>1, <2>2 DEF BranchTo
      <4> QED BY <2>1, <3>1, <4>1
    <3>2. CASE m \in 1 .. n
      <4>1. g[m] = appendAcceptedRoutePoint(g[m - 1], cells[m])
        BY <2>1, <2>2, <3>2 DEF BranchTo
      <4>2. h[m] = g[m] /\ h[m - 1] = g[m - 1]
        BY <2>1, <3>2
      <4> QED BY <3>2, <4>1, <4>2
    <3>3. CASE m = n + 1
      <4>1. h[m] = appendAcceptedRoutePoint(g[n], cells[n + 1]) /\ h[m - 1] = g[n] /\ m # 0
        BY <2>1, <3>3
      <4> QED BY <3>3, <4>1
    <3> QED BY <2>1, <3>1, <3>2, <3>3
  <2>4. h = [m \in 0 .. n + 1 |->
               IF m = 0 THEN r ELSE appendAcceptedRoutePoint(h[m - 1], cells[m])]
    <3>1. DOMAIN h = 0 .. n + 1 /\ h = [m \in 0 .. n + 1 |-> h[m]]
      OBVIOUS
    <3> HIDE DEF h
    <3> QED BY <2>3, <3>1
  <2>5. BranchTo(r, cells, n + 1, h)
    BY <2>4 DEF BranchTo
  <2> QED BY <2>1, <2>5
<1>3. S = Nat
  <2> HIDE DEF S
  <2>1. S \in SUBSET Nat
    BY DEF S
  <2> QED BY <1>1, <1>2, <2>1, InductiveSet
<1> QED BY <1>3

LEMMA AcceptedNeighbour ==
  ASSUME NEW e, IsRoute(e), e # <<>>, NEW a \in Ground, NEW b \in Ground,
         End(e).at = a, Neighbour(a, b)
  PROVE  LET f == appendAcceptedRoutePoint(e, b)
         IN  /\ IsRoute(f) /\ f # <<>> /\ End(f).at = b
             /\ EndProgress(e) \in Nat /\ EndProgress(f) \in Nat
             /\ EndProgress(e) <= EndProgress(f) /\ EndProgress(f) <= EndProgress(e) + Cell
<1> DEFINE f == appendAcceptedRoutePoint(e, b)
<1>1. /\ IsRoute(f) /\ f # <<>> /\ End(f).at = b
      /\ EndProgress(f) = EndProgress(e) + Between(a, b)
  BY AcceptedPoint
<1>2. Between(a, b) \in Nat /\ Between(a, b) <= 0 + Cell
  <2>1. Between(a, a) = 0 /\ Between(a, b) \in Nat /\ Between(a, b) <= Between(a, a) + Cell
    BY DistanceAssumption
  <2> QED BY <2>1
<1>3. EndProgress(e) \in Nat /\ Cell \in Nat
  BY EndOfRoute, GroundAssumption
<1> HIDE DEF f
<1>4. /\ IsRoute(f) /\ f # <<>> /\ End(f).at = b
      /\ EndProgress(e) \in Nat /\ EndProgress(f) \in Nat
      /\ EndProgress(e) <= EndProgress(f) /\ EndProgress(f) <= EndProgress(e) + Cell
  BY <1>1, <1>2, <1>3
<1> QED BY <1>4 DEF f

\* appendBranch: along neighbouring cells the route ends at the last one, and its progress
\* has grown by the distance to the first and one cell for every other at most.
LEMMA AcceptedBranch ==
  ASSUME NEW r, IsRoute(r), r # <<>>, NEW cells \in Seq(Ground), cells # <<>>,
         \A i \in 1 .. Len(cells) - 1 : Neighbour(cells[i], cells[i + 1])
  PROVE  LET e == appendBranch(r, cells)
         IN  /\ IsRoute(e) /\ e # <<>> /\ End(e).at = cells[Len(cells)]
             /\ EndProgress(r) <= EndProgress(e)
             /\ EndProgress(e) <= EndProgress(r) + Between(End(r).at, cells[1])
                                    + Cell * (Len(cells) - 1)
<1> DEFINE g == CHOOSE f : BranchTo(r, cells, Len(cells), f)
           first == Between(End(r).at, cells[1])
           Reached(n) == /\ IsRoute(g[n]) /\ g[n] # <<>> /\ End(g[n]).at = cells[n]
                         /\ EndProgress(r) <= EndProgress(g[n])
                         /\ EndProgress(g[n]) <= EndProgress(r) + first + Cell * (n - 1)
           S == {n \in Nat : n + 1 <= Len(cells) => Reached(n + 1)}
<1>1. Len(cells) \in Nat \ {0} /\ \A n \in 1 .. Len(cells) : cells[n] \in Ground
  OBVIOUS
<1>2. BranchTo(r, cells, Len(cells), g)
  BY <1>1, BranchExists
<1>3. appendBranch(r, cells) = g[Len(cells)]
  BY DEF appendBranch, BranchTo
<1> HIDE DEF g
<1>4. g[0] = r /\ \A n \in 1 .. Len(cells) : g[n] = appendAcceptedRoutePoint(g[n - 1], cells[n])
  BY <1>1, <1>2 DEF BranchTo
<1>5. End(r).at \in Ground /\ EndProgress(r) \in Nat /\ first \in Nat
  BY <1>1, EndOfRoute, DistanceAssumption
<1>6. 0 \in S
  <2>1. g[1] = appendAcceptedRoutePoint(r, cells[1])
    BY <1>1, <1>4
  <2>2. /\ IsRoute(g[1]) /\ g[1] # <<>> /\ End(g[1]).at = cells[1]
        /\ EndProgress(g[1]) = EndProgress(r) + first
    <3>1. cells[1] \in Ground
      BY <1>1
    <3> QED BY <2>1, <3>1, AcceptedPoint
  <2>3. Cell * (1 - 1) = 0
    BY CellTimes
  <2>4. Reached(1)
    <3> HIDE DEF first
    <3> QED BY <1>5, <2>2, <2>3
  <2> HIDE DEF Reached
  <2> QED BY <2>4
<1>7. ASSUME NEW n \in S PROVE n + 1 \in S
  <2>1. n \in Nat /\ n + 1 \in Nat
    OBVIOUS
  <2> SUFFICES ASSUME n + 2 <= Len(cells) PROVE Reached(n + 2)
    BY <2>1
  <2>2. /\ IsRoute(g[n + 1]) /\ g[n + 1] # <<>> /\ End(g[n + 1]).at = cells[n + 1]
        /\ EndProgress(r) <= EndProgress(g[n + 1])
        /\ EndProgress(g[n + 1]) <= EndProgress(r) + first + Cell * (n + 1 - 1)
    BY <2>1, <1>1
  <2>3. /\ n + 1 \in 1 .. Len(cells) - 1 /\ n + 2 \in 1 .. Len(cells)
        /\ cells[n + 1] \in Ground /\ cells[n + 2] \in Ground
    BY <1>1, <2>1
  <2>4. g[n + 2] = appendAcceptedRoutePoint(g[n + 1], cells[n + 2])
    BY <1>4, <2>1, <2>3
  <2>5. Neighbour(cells[n + 1], cells[n + 2])
    BY <2>1, <2>3
  <2> DEFINE e == g[n + 1]
             f == g[n + 2]
  <2>6. /\ IsRoute(e) /\ e # <<>> /\ End(e).at = cells[n + 1]
        /\ EndProgress(r) <= EndProgress(e)
        /\ EndProgress(e) <= EndProgress(r) + first + Cell * (n + 1 - 1)
    BY <2>2
  <2>7. f = appendAcceptedRoutePoint(e, cells[n + 2])
    BY <2>4
  <2> HIDE DEF e, f, first
  <2>8. /\ IsRoute(f) /\ f # <<>> /\ End(f).at = cells[n + 2]
        /\ EndProgress(e) \in Nat /\ EndProgress(f) \in Nat
        /\ EndProgress(e) <= EndProgress(f) /\ EndProgress(f) <= EndProgress(e) + Cell
    BY <2>3, <2>5, <2>6, <2>7, AcceptedNeighbour
  <2>9. Cell * (n + 1) = Cell * n + Cell /\ Cell * n \in Int /\ n + 1 - 1 = n /\ n + 2 - 1 = n + 1
    <3> HIDE DEF S
    <3> QED BY <2>1, CellTimes
  <2>10. Cell * (n + 1 - 1) = Cell * n /\ Cell * (n + 2 - 1) = Cell * n + Cell
    BY <2>9
  <2>11. Cell \in Nat
    BY GroundAssumption
  <2>12. /\ EndProgress(r) <= EndProgress(f)
         /\ EndProgress(f) <= EndProgress(r) + first + Cell * (n + 2 - 1)
    BY <1>5, <2>6, <2>8, <2>9, <2>10, <2>11
  <2> QED BY <2>8, <2>12 DEF e, f, first
<1>8. S = Nat
  <2> HIDE DEF S
  <2>1. S \in SUBSET Nat
    BY DEF S
  <2> QED BY <1>6, <1>7, <2>1, InductiveSet
<1>9. Reached(Len(cells))
  <2>1. PICK n \in Nat : n + 1 = Len(cells)
    <3>1. Len(cells) - 1 \in Nat /\ Len(cells) - 1 + 1 = Len(cells)
      BY <1>1
    <3> QED BY <3>1
  <2>2. n \in S
    BY <1>8
  <2>3. Reached(n + 1)
    BY <1>1, <2>1, <2>2
  <2> QED BY <2>1, <2>3
<1> QED BY <1>3, <1>9

-------------------------------------------------------------------------------
(* The recorded way.                                                        *)

\* The route begins with the first sample.
HasBegun ==
  /\ last_leader_sample \in Ground \cup {None}
  /\ last_leader_sample = None => route = <<>> /\ turn_candidate_route = <<>>
  /\ last_leader_sample # None => route # <<>>

\* The candidates are the last cells the leader flew over.
CandidatesFollow ==
  /\ turn_candidate_route \in Seq(Ground)
  /\ \A i \in 1 .. Len(turn_candidate_route) - 1 :
       Neighbour(turn_candidate_route[i], turn_candidate_route[i + 1])
  /\ turn_candidate_route # <<>> =>
       turn_candidate_route[Len(turn_candidate_route)] = last_leader_sample

\* No route is longer than the way that was flown: what is still missing of it, up to the
\* leader or up to the first candidate, counts as flown.
WithinWay ==
  route # <<>> =>
    /\ EndProgress(route) + Between(End(route).at, last_leader_sample) <= Cell * moves
    /\ turn_candidate_route # <<>> =>
         EndProgress(route) + Between(End(route).at, turn_candidate_route[1])
           <= Cell * (moves - Len(turn_candidate_route) + 1)

\* What is missing of the way while recording is on are the candidates.
OnlyCandidatesMissing ==
  (route # <<>> /\ ~relay_route_paused) =>
    /\ turn_candidate_length(turn_candidate_route) < BacktrackPause
    /\ Between(End(route).at, last_leader_sample) <= turn_candidate_length(turn_candidate_route)

RouteInv ==
  /\ IsRoute(route) /\ moves \in 0 .. MaxMoves
  /\ HasBegun /\ CandidatesFollow /\ WithinWay /\ OnlyCandidatesMissing

\* One more candidate: the next sample of the leader.
LEMMA NextCandidate ==
  ASSUME RouteInv, NEW cell \in Ground, last_leader_sample # None,
         Neighbour(last_leader_sample, cell)
  PROVE  LET cells == Candidates(cell)
         IN  /\ cells \in Seq(Ground) /\ Len(cells) = Len(turn_candidate_route) + 1
             /\ Len(turn_candidate_route) \in Nat /\ cells # <<>>
             /\ \A i \in 1 .. Len(cells) - 1 : Neighbour(cells[i], cells[i + 1])
             /\ cells[Len(cells)] = cell
             /\ EndProgress(route) + Between(End(route).at, cells[1])
                  <= Cell * ((moves + 1) - Len(cells) + 1)
<1> DEFINE old == turn_candidate_route
           cells == Append(old, cell)
<1>1. old \in Seq(Ground) /\ Len(old) \in Nat /\ DOMAIN old = 1 .. Len(old)
  BY DEF RouteInv, CandidatesFollow
<1>2. /\ cells \in Seq(Ground) /\ Len(cells) = Len(old) + 1 /\ cells # <<>>
      /\ \A i \in 1 .. Len(old) : cells[i] = old[i]
      /\ cells[Len(old) + 1] = cell
  BY <1>1, AppendProperties
<1>3. \A i \in 1 .. Len(cells) - 1 : Neighbour(cells[i], cells[i + 1])
  <2> SUFFICES ASSUME NEW i \in 1 .. Len(old) PROVE Neighbour(cells[i], cells[i + 1])
    BY <1>1, <1>2
  <2>1. CASE i = Len(old)
    <3>1. old # <<>> /\ cells[i] = old[Len(old)] /\ cells[i + 1] = cell
      BY <1>1, <1>2, <2>1
    <3> QED BY <3>1 DEF RouteInv, CandidatesFollow
  <2>2. CASE i \in 1 .. Len(old) - 1
    <3>1. cells[i] = old[i] /\ cells[i + 1] = old[i + 1]
      BY <1>1, <1>2, <2>2
    <3>2. Neighbour(old[i], old[i + 1])
      BY <2>2 DEF RouteInv, CandidatesFollow
    <3> HIDE DEF cells, old
    <3> QED BY <3>1, <3>2
  <2>3. i = Len(old) \/ i \in 1 .. Len(old) - 1
    <3> HIDE DEF old, cells
    <3>1. Len(old) \in Nat
      BY <1>1
    <3> QED BY <3>1
  <2> QED BY <2>1, <2>2, <2>3
<1>4. route # <<>> /\ last_leader_sample \in Ground /\ moves \in Nat
  BY DEF RouteInv, HasBegun
<1>5. EndProgress(route) \in Nat /\ End(route).at \in Ground
  BY <1>4, EndOfRoute DEF RouteInv
<1>6. EndProgress(route) + Between(End(route).at, cells[1]) <= Cell * ((moves + 1) - Len(cells) + 1)
  <2>1. CASE old = <<>>
    <3>1. cells[1] = cell /\ (moves + 1) - Len(cells) + 1 = moves + 1
      BY <1>1, <1>2, <1>4, <2>1
    <3>2. /\ Between(End(route).at, last_leader_sample) \in Nat
          /\ Between(End(route).at, cell) \in Nat
          /\ Between(End(route).at, cell) <= Between(End(route).at, last_leader_sample) + Cell
      BY <1>4, <1>5, DistanceAssumption
    <3>3. Cell * (moves + 1) = Cell * moves + Cell /\ Cell * moves \in Int /\ Cell \in Nat
      <4>1. moves \in Int
        BY <1>4
      <4> QED BY <4>1, CellTimes
    <3>4. EndProgress(route) + Between(End(route).at, last_leader_sample) <= Cell * moves
      BY <1>4 DEF RouteInv, WithinWay
    <3>5. EndProgress(route) + Between(End(route).at, cell) <= Cell * (moves + 1)
      BY <1>5, <3>2, <3>3, <3>4
    <3> QED BY <3>1, <3>5
  <2>2. CASE old # <<>>
    <3>1. cells[1] = old[1] /\ (moves + 1) - Len(cells) + 1 = moves - Len(old) + 1
      BY <1>1, <1>2, <1>4, <2>2
    <3> QED BY <1>4, <2>2, <3>1 DEF RouteInv, WithinWay
  <2> QED BY <2>1, <2>2
<1> QED BY <1>1, <1>2, <1>3, <1>6 DEF Candidates

LEMMA NextDistance ==
  ASSUME RouteInv, NEW cell \in Ground, last_leader_sample # None,
         Neighbour(last_leader_sample, cell)
  PROVE  /\ route # <<>> /\ EndProgress(route) \in Nat /\ End(route).at \in Ground
         /\ Between(End(route).at, cell) \in Nat
         /\ EndProgress(route) + Between(End(route).at, cell) <= Cell * (moves + 1)
         /\ ~relay_route_paused =>
              Between(End(route).at, cell) <= Cell * (Len(turn_candidate_route) + 1)
<1>1. /\ route # <<>> /\ last_leader_sample \in Ground /\ moves \in Nat
      /\ Len(turn_candidate_route) \in Nat
  BY DEF RouteInv, HasBegun, CandidatesFollow
<1>2. EndProgress(route) \in Nat /\ End(route).at \in Ground
  BY <1>1, EndOfRoute DEF RouteInv
<1>3. /\ Between(End(route).at, last_leader_sample) \in Nat
      /\ Between(End(route).at, cell) \in Nat
      /\ Between(End(route).at, cell) <= Between(End(route).at, last_leader_sample) + Cell
  BY <1>1, <1>2, DistanceAssumption
<1>4. /\ Cell * (moves + 1) = Cell * moves + Cell /\ Cell * moves \in Int /\ Cell \in Nat
      /\ Cell * (Len(turn_candidate_route) + 1) = Cell * Len(turn_candidate_route) + Cell
      /\ Cell * Len(turn_candidate_route) \in Int
  <2>1. moves \in Int /\ Len(turn_candidate_route) \in Int
    BY <1>1
  <2> QED BY <2>1, CellTimes
<1>5. EndProgress(route) + Between(End(route).at, last_leader_sample) <= Cell * moves
  BY <1>1 DEF RouteInv, WithinWay
<1>6. ~relay_route_paused =>
        Between(End(route).at, last_leader_sample) <= Cell * Len(turn_candidate_route)
  BY <1>1 DEF RouteInv, OnlyCandidatesMissing, turn_candidate_length
<1>7. EndProgress(route) + Between(End(route).at, cell) <= Cell * (moves + 1)
  BY <1>2, <1>3, <1>4, <1>5
<1>8. ASSUME ~relay_route_paused
      PROVE  Between(End(route).at, cell) <= Cell * (Len(turn_candidate_route) + 1)
  BY <1>3, <1>4, <1>6, <1>8
<1> QED BY <1>1, <1>2, <1>3, <1>7, <1>8

\* A route that ends where the leader is.
LEMMA EndsAtLeader ==
  ASSUME IsRoute(route'), route' # <<>>, moves' \in 0 .. MaxMoves,
         last_leader_sample' \in Ground, End(route').at = last_leader_sample',
         EndProgress(route') <= Cell * moves', turn_candidate_route' = <<>>
  PROVE  RouteInv'
<1>1. last_leader_sample' # None
  BY ReleaseAssumption
<1>2. Between(End(route').at, last_leader_sample') = 0 /\ EndProgress(route') \in Nat
  BY DistanceAssumption, EndOfRoute
<1>3. turn_candidate_route' \in Seq(Ground) /\ Len(turn_candidate_route') = 0
  OBVIOUS
<1>4. Cell * 0 = 0 /\ BacktrackPause \in Nat \ {0}
  BY CellTimes, GroundAssumption
<1>5. HasBegun'
  BY <1>1 DEF HasBegun
<1>6. CandidatesFollow'
  BY <1>3 DEF CandidatesFollow
<1>7. WithinWay'
  <2>1. EndProgress(route') + Between(End(route').at, last_leader_sample') <= Cell * moves'
    BY <1>2
  <2> QED BY <2>1 DEF WithinWay
<1>8. OnlyCandidatesMissing'
  <2>1. turn_candidate_length(turn_candidate_route)' = 0
    BY <1>3, <1>4 DEF turn_candidate_length
  <2> QED BY <1>2, <1>4, <2>1 DEF OnlyCandidatesMissing
<1> QED BY <1>5, <1>6, <1>7, <1>8 DEF RouteInv

\* leaderOdomCallback: the route only grows, and what it does with the relays it does with
\* the progress of the new end of the route.
SampleEffect(cell) ==
  /\ RouteInv'
  /\ EndProgress(route) <= EndProgress(route')
  /\ \/ releaseRelays(cell, EndProgress(route')) /\ route' # <<>> /\ ~relay_route_paused'
     \/ /\ UNCHANGED <<door_waypoint_released, last_relay_selection_progress, relay_waypoints>>
        /\ pending_relay' = None \/ UNCHANGED pending_relay

LEMMA FirstSample ==
  ASSUME RouteInv, NEW cell \in Ground, firstSample(cell), last_leader_sample' = cell,
         ~relay_route_paused
  PROVE  SampleEffect(cell)
<1>1. /\ route = <<>> /\ turn_candidate_route = <<>> /\ moves \in Nat
      /\ route' = appendAcceptedRoutePoint(<<>>, cell) /\ releaseRelays(cell, 0)
      /\ UNCHANGED <<turn_candidate_route, relay_route_paused, moves>>
  BY DEF firstSample, RouteInv, HasBegun
<1>2. IsRoute(<<>>)
  BY <1>1 DEF RouteInv
<1>3. IsRoute(route') /\ route' # <<>> /\ End(route').at = cell /\ EndProgress(route') = 0
  BY <1>1, <1>2, AcceptedPoint
<1>4. 0 <= Cell * moves'
  <2>1. 0 \in Int /\ moves \in Int /\ 0 <= moves
    BY <1>1
  <2> QED BY <1>1, <2>1, CellTimes
<1>5. RouteInv'
  BY <1>1, <1>3, <1>4, EndsAtLeader DEF RouteInv
<1>6. EndProgress(route) <= EndProgress(route')
  BY <1>1, <1>3 DEF EndProgress
<1>7. releaseRelays(cell, EndProgress(route'))
  BY <1>1, <1>3
<1> QED BY <1>1, <1>3, <1>5, <1>6, <1>7 DEF SampleEffect

\* The route stays as it is: the sample becomes a candidate or recording is paused.
LEMMA ReverseKept ==
  ASSUME RouteInv, NEW cell \in Ground, last_leader_sample # None,
         Neighbour(last_leader_sample, cell), last_leader_sample' = cell,
         moves < MaxMoves, moves' = moves + 1, reverseSample(cell),
         ~confirms_new_turn_branch(cell)
  PROVE  SampleEffect(cell)
<1>1. /\ turn_candidate_route' = Candidates(cell)
      /\ IF turn_candidate_length(Candidates(cell)) >= BacktrackPause
           THEN pauseRoute ELSE UNCHANGED <<relay_route_paused, pending_relay>>
      /\ UNCHANGED <<route, door_waypoint_released, last_relay_selection_progress,
                     relay_waypoints>>
  BY DEF reverseSample
<1>2. /\ Candidates(cell) \in Seq(Ground)
      /\ Len(Candidates(cell)) = Len(turn_candidate_route) + 1
      /\ Len(turn_candidate_route) \in Nat /\ Candidates(cell) # <<>>
      /\ \A i \in 1 .. Len(Candidates(cell)) - 1 :
           Neighbour(Candidates(cell)[i], Candidates(cell)[i + 1])
      /\ Candidates(cell)[Len(Candidates(cell))] = cell
  BY NextCandidate
<1> DEFINE Bound(r, cells, m) == EndProgress(r) + Between(End(r).at, cells[1])
                                   <= Cell * (m - Len(cells) + 1)
<1>11. Bound(route, Candidates(cell), moves + 1)
  BY NextCandidate
<1>3. /\ route # <<>> /\ EndProgress(route) \in Nat
      /\ EndProgress(route) + Between(End(route).at, cell) <= Cell * (moves + 1)
      /\ ~relay_route_paused =>
           Between(End(route).at, cell) <= Cell * (Len(turn_candidate_route) + 1)
  BY NextDistance
<1>4. IsRoute(route') /\ moves' \in 0 .. MaxMoves
  BY <1>1, GroundAssumption DEF RouteInv
<1>5. HasBegun'
  BY <1>1, <1>3, ReleaseAssumption DEF HasBegun
<1>6. CandidatesFollow'
  <2>1. /\ turn_candidate_route' = Candidates(cell) /\ last_leader_sample' = cell
    BY <1>1
  <2> QED BY <1>2, <2>1 DEF CandidatesFollow
<1>7. WithinWay'
  <2>1. /\ turn_candidate_route' = Candidates(cell) /\ last_leader_sample' = cell
        /\ route' = route /\ moves' = moves + 1
    BY <1>1
  <2>2. EndProgress(route') + Between(End(route').at, last_leader_sample') <= Cell * moves'
    BY <1>3, <2>1
  <2>3. EndProgress(route') + Between(End(route').at, turn_candidate_route'[1])
          <= Cell * (moves' - Len(turn_candidate_route') + 1)
    <3> HIDE DEF Bound
    <3>1. Bound(route', turn_candidate_route', moves')
      BY <1>11, <2>1
    <3> QED BY <3>1 DEF Bound
  <2> QED BY <2>2, <2>3 DEF WithinWay
<1>8. OnlyCandidatesMissing'
  <2> SUFFICES ASSUME ~relay_route_paused'
               PROVE  /\ turn_candidate_length(Candidates(cell)) < BacktrackPause
                      /\ Between(End(route).at, cell) <= turn_candidate_length(Candidates(cell))
    BY <1>1 DEF OnlyCandidatesMissing
  <2>1. ~(turn_candidate_length(Candidates(cell)) >= BacktrackPause)
    BY <1>1 DEF pauseRoute
  <2>2. ~relay_route_paused
    BY <1>1, <2>1
  <2>3. turn_candidate_length(Candidates(cell)) = Cell * (Len(turn_candidate_route) + 1)
    BY <1>2 DEF turn_candidate_length
  <2>4. Cell * (Len(turn_candidate_route) + 1) \in Int /\ BacktrackPause \in Int
    <3>1. Len(turn_candidate_route) + 1 \in Int
      BY <1>2
    <3> QED BY <3>1, CellTimes, GroundAssumption
  <2>5. Between(End(route).at, cell) <= Cell * (Len(turn_candidate_route) + 1)
    BY <1>3, <2>2
  <2>6. turn_candidate_length(Candidates(cell)) < BacktrackPause
    BY <2>1, <2>3, <2>4
  <2> QED BY <2>3, <2>5, <2>6
<1>9. pending_relay' = None \/ UNCHANGED pending_relay
  BY <1>1 DEF pauseRoute
<1>10. RouteInv'
  BY <1>4, <1>5, <1>6, <1>7, <1>8 DEF RouteInv
<1> QED BY <1>1, <1>3, <1>9, <1>10 DEF SampleEffect

LEMMA BranchAccepted ==
  ASSUME RouteInv, NEW cell \in Ground, last_leader_sample # None,
         Neighbour(last_leader_sample, cell), last_leader_sample' = cell,
         moves < MaxMoves, moves' = moves + 1, acceptBranch(cell)
  PROVE  SampleEffect(cell)
<1> DEFINE cells == Candidates(cell)
<1>1. /\ route' = appendBranch(route, cells) /\ turn_candidate_route' = <<>>
      /\ relay_route_paused' = FALSE /\ releaseRelays(cell, EndProgress(route'))
  BY DEF acceptBranch
<1>2. /\ cells \in Seq(Ground) /\ Len(cells) \in Nat /\ cells # <<>>
      /\ \A i \in 1 .. Len(cells) - 1 : Neighbour(cells[i], cells[i + 1])
      /\ cells[Len(cells)] = cell
      /\ EndProgress(route) + Between(End(route).at, cells[1])
           <= Cell * ((moves + 1) - Len(cells) + 1)
  BY NextCandidate
<1>3. IsRoute(route) /\ route # <<>> /\ EndProgress(route) \in Nat /\ End(route).at \in Ground
  BY NextDistance DEF RouteInv
<1> HIDE DEF cells
<1>4. /\ IsRoute(route') /\ route' # <<>> /\ End(route').at = cell
      /\ EndProgress(route) <= EndProgress(route')
      /\ EndProgress(route') <= EndProgress(route) + Between(End(route).at, cells[1])
                                  + Cell * (Len(cells) - 1)
  BY <1>1, <1>2, <1>3, AcceptedBranch
<1>5. Cell * ((moves + 1) - Len(cells) + 1) + Cell * (Len(cells) - 1) = Cell * (moves + 1)
  <2>1. Cell \in Nat /\ moves \in Nat /\ Len(cells) \in Nat
    BY <1>2, CellTimes DEF RouteInv
  <2> QED BY <2>1
<1>6. EndProgress(route') <= Cell * moves'
  <2>1. cells[1] \in Ground
    BY <1>2
  <2>2. Between(End(route).at, cells[1]) \in Nat
    BY <1>3, <2>1, DistanceAssumption
  <2>3. EndProgress(route') \in Nat
    BY <1>4, EndOfRoute
  <2>4. /\ Cell * ((moves + 1) - Len(cells) + 1) \in Int /\ Cell * (Len(cells) - 1) \in Int
        /\ Cell * (moves + 1) \in Int
    <3>1. moves \in Nat
      BY DEF RouteInv
    <3>2. (moves + 1) - Len(cells) + 1 \in Int /\ Len(cells) - 1 \in Int /\ moves + 1 \in Int
      BY <1>2, <3>1
    <3> QED BY <3>2, CellTimes
  <2> QED BY <1>2, <1>3, <1>4, <1>5, <2>2, <2>3, <2>4
<1>7. moves' \in 0 .. MaxMoves
  BY GroundAssumption DEF RouteInv
<1>8. RouteInv'
  BY <1>1, <1>4, <1>6, <1>7, EndsAtLeader
<1> QED BY <1>1, <1>4, <1>8 DEF SampleEffect

LEMMA ForwardSample ==
  ASSUME RouteInv, NEW cell \in Ground, last_leader_sample # None,
         Neighbour(last_leader_sample, cell), last_leader_sample' = cell,
         moves < MaxMoves, moves' = moves + 1, forwardSample(cell)
  PROVE  SampleEffect(cell)
<1>1. /\ route # <<>> /\ EndProgress(route) \in Nat /\ End(route).at \in Ground
      /\ Between(End(route).at, cell) \in Nat
      /\ EndProgress(route) + Between(End(route).at, cell) <= Cell * (moves + 1)
  BY NextDistance
<1>2. moves' \in 0 .. MaxMoves /\ IsRoute(route)
  BY GroundAssumption DEF RouteInv
<1>3. CASE pauseRoute /\ UNCHANGED <<route, door_waypoint_released, last_relay_selection_progress,
                                      relay_waypoints>>
  <2>1. /\ relay_route_paused' = TRUE /\ pending_relay' = None /\ route' = route
        /\ turn_candidate_route' = <<>>
    BY <1>3 DEF pauseRoute, forwardSample
  <2>2. HasBegun'
    BY <1>1, <2>1, ReleaseAssumption DEF HasBegun
  <2>3. CandidatesFollow'
    BY <2>1 DEF CandidatesFollow
  <2>4. WithinWay'
    BY <1>1, <2>1 DEF WithinWay
  <2>5. OnlyCandidatesMissing'
    BY <2>1 DEF OnlyCandidatesMissing
  <2>6. RouteInv'
    BY <1>2, <2>1, <2>2, <2>3, <2>4, <2>5 DEF RouteInv
  <2> QED BY <1>1, <1>3, <2>1, <2>6 DEF SampleEffect
<1>4. CASE /\ relay_route_paused' = FALSE /\ turn_candidate_route' = <<>>
           /\ route' = appendAcceptedRoutePoint(route, cell)
           /\ IF route' = route THEN UNCHANGED <<door_waypoint_released, relay_vars>>
              ELSE releaseRelays(cell, EndProgress(route'))
  <2>1. /\ IsRoute(route') /\ route' # <<>> /\ End(route').at = cell
        /\ EndProgress(route') = EndProgress(route) + Between(End(route).at, cell)
    BY <1>1, <1>2, <1>4, AcceptedPoint
  <2>2. EndProgress(route') <= Cell * moves' /\ EndProgress(route) <= EndProgress(route')
    BY <1>1, <2>1
  <2>3. RouteInv'
    BY <1>2, <1>4, <2>1, <2>2, EndsAtLeader
  <2> QED BY <1>4, <2>1, <2>2, <2>3 DEF SampleEffect, relay_vars
<1> QED BY <1>3, <1>4 DEF forwardSample

LEMMA OdomRoute ==
  ASSUME RouteInv, NEW cell \in Ground, leaderOdomCallback(cell),
         last_leader_sample = None => ~relay_route_paused
  PROVE  SampleEffect(cell)
<1>1. CASE firstSample(cell)
  BY <1>1, FirstSample DEF leaderOdomCallback, firstSample
<1>2. CASE nextSample(cell)
  BY <1>2, ReverseKept, BranchAccepted, ForwardSample
     DEF leaderOdomCallback, nextSample, reverseSample
<1> QED BY <1>1, <1>2 DEF leaderOdomCallback

===============================================================================
