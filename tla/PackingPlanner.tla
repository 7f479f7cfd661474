----------------------------- MODULE PackingPlanner -----------------------------
(***************************************************************************)
(* The package planner of internal/packing/planner.go: the units of a      *)
(* request, the largest first, are put one after the other at a corner of  *)
(* something already placed, in the package that grows least, without      *)
(* being turned; a unit that fits nowhere opens a package.                 *)
(*                                                                         *)
(* Lengths and weights are whole numbers here, so the tolerance the        *)
(* program compares with (packingEpsilon) and its rounding have no effect. *)
(***************************************************************************)
EXTENDS Integers, FiniteSets, Sequences, FiniteSetsExt

CONSTANTS
  Skus,          \* warehouse SKUs, numbered in the order of their names
  Specs,         \* [SUBSET Skus -> UnitSpec]: the complete package specifications
  Requests,      \* the quantities callers may ask for, [Skus -> Nat]
  MaxUnits,      \* maxUnits
  MaxSkus,       \* maxDistinctSKUs
  MaxDimension,  \* maxPackageDimensionCM
  MaxWeight      \* maxPackageWeightKG

UnitSpec == [l : Nat \ {0}, w : Nat \ {0}, h : Nat \ {0}, weight : Nat \ {0}]

ASSUME PackingAssumption ==
  /\ Skus \subseteq Nat
  /\ \E S \in SUBSET Skus : Specs \in [S -> UnitSpec]
  /\ Requests \subseteq [Skus -> Nat]
  /\ \A quantity \in Requests : IsFiniteSet({sku \in Skus : quantity[sku] > 0})
  /\ MaxUnits \in Nat /\ MaxSkus \in Nat /\ MaxDimension \in Nat /\ MaxWeight \in Nat

VARIABLES
  wanted,     \* the units of the request: <<SKU, ordinal>>
  left,       \* those not dealt with yet
  packages,   \* a sequence of packages
  unfit       \* the units too large or too heavy for any package

packVars == <<wanted, left, packages, unfit>>

(* A unit with its specification stands where its corner nearest to the origin is. *)
Unit == (DOMAIN Specs) \X (1 .. MaxUnits)

Placed == [unit : Unit, x : Nat, y : Nat, z : Nat]

Package == [placed : SUBSET Placed, l : Nat, w : Nat, h : Nat, weight : Nat]

SpecOf(u) == Specs[u[1]]

At(u, x, y, z) == [unit |-> u, x |-> x, y |-> y, z |-> z]

--------------------------------------------------------------------------------
(* Before any placement: ValidateRequest and resolveUnits *)

Total(quantity) == MapThenSumSet(LAMBDA sku : quantity[sku], DOMAIN quantity)

Accepted(quantity) ==
  /\ Total(quantity) \in 1 .. MaxUnits
  /\ Cardinality({sku \in Skus : quantity[sku] > 0}) <= MaxSkus
  /\ \A sku \in Skus : quantity[sku] > 0 => sku \in DOMAIN Specs

UnitsOf(quantity) == {u \in Unit : u[2] <= quantity[u[1]]}

PackInit == wanted = {} /\ left = {} /\ packages = <<>> /\ unfit = {}

Submit(quantity) ==
  /\ wanted = {}
  /\ Accepted(quantity)
  /\ wanted' = UnitsOf(quantity)
  /\ left' = UnitsOf(quantity)
  /\ UNCHANGED <<packages, unfit>>

(* The request is answered with an error: no plan is made. *)
Refuse(quantity) ==
  /\ wanted = {}
  /\ ~Accepted(quantity)
  /\ UNCHANGED packVars

(* The first difference decides. *)
LexLess(a, b) ==
  \E i \in DOMAIN a : a[i] < b[i] /\ \A j \in DOMAIN a : j < i => a[j] = b[j]

Volume(box) == box.l * box.w * box.h

(* Mutant: the ordinal of a unit is not compared, so its place in the request decides. *)
SortKeyUnstable(u) == <<-Volume(SpecOf(u)), -SpecOf(u).weight, u[1]>>

(* sortUnits *)
SortKey(u) == <<-Volume(SpecOf(u)), -SpecOf(u).weight, u[1], u[2]>>

(* The unit the loop of Build comes to next. *)
IsNext(u) == u \in left /\ \A v \in left \ {u} : LexLess(SortKey(u), SortKey(v))

--------------------------------------------------------------------------------
(* One unit *)

(* exceedsAutomaticPackageLimits *)
Exceeds(u) ==
  \/ SpecOf(u).l > MaxDimension \/ SpecOf(u).w > MaxDimension \/ SpecOf(u).h > MaxDimension
  \/ SpecOf(u).weight > MaxWeight

(* To the right of a placed unit, on top of it, and behind it. *)
Corners(p, u) ==
  {At(u, p.x + SpecOf(p.unit).l, p.y, p.z),
   At(u, p.x, p.y + SpecOf(p.unit).h, p.z),
   At(u, p.x, p.y, p.z + SpecOf(p.unit).w)}

(* intersectsAny, of one placed unit *)
Intersects(p, q) ==
  /\ q.x < p.x + SpecOf(p.unit).l /\ p.x < q.x + SpecOf(q.unit).l
  /\ q.y < p.y + SpecOf(p.unit).h /\ p.y < q.y + SpecOf(q.unit).h
  /\ q.z < p.z + SpecOf(p.unit).w /\ p.z < q.z + SpecOf(q.unit).w

Larger(a, b) == IF a >= b THEN a ELSE b

(* Mutant: the weight of the package is not counted up. *)
GrownWeightless(pkg, q) ==
  [placed |-> pkg.placed \cup {q},
   l |-> Larger(pkg.l, q.x + SpecOf(q.unit).l),
   w |-> Larger(pkg.w, q.z + SpecOf(q.unit).w),
   h |-> Larger(pkg.h, q.y + SpecOf(q.unit).h),
   weight |-> SpecOf(q.unit).weight]

(* expandedBounds and addPlacement: the package with one more unit. *)
Grown(pkg, q) ==
  [placed |-> pkg.placed \cup {q},
   l |-> Larger(pkg.l, q.x + SpecOf(q.unit).l),
   w |-> Larger(pkg.w, q.z + SpecOf(q.unit).w),
   h |-> Larger(pkg.h, q.y + SpecOf(q.unit).h),
   weight |-> pkg.weight + SpecOf(q.unit).weight]

(* bestPlacement: where the unit may stand in a package. *)
Fits(pkg, q) ==
  /\ \A p \in pkg.placed : ~Intersects(p, q)
  /\ LET new == Grown(pkg, q)
     IN /\ new.l <= MaxDimension /\ new.w <= MaxDimension /\ new.h <= MaxDimension
        /\ new.weight <= MaxWeight

Candidates(u) ==
  {c \in UNION {{i} \X UNION {Corners(p, u) : p \in packages[i].placed} : i \in DOMAIN packages} :
     Fits(packages[c[1]], c[2])}

(* betterCandidate, and the earlier package of two that are equal. *)
Preference(c) ==
  LET old == packages[c[1]]
      new == Grown(old, c[2])
  IN <<Volume(new) - Volume(old), Volume(new), new.l + new.w + new.h, c[2].y, c[2].x, c[2].z, c[1]>>

Place(u) ==
  /\ ~Exceeds(u)
  /\ \E c \in Candidates(u) :
       /\ \A d \in Candidates(u) \ {c} : LexLess(Preference(c), Preference(d))
       /\ packages' = [packages EXCEPT ![c[1]] = Grown(@, c[2])]
  /\ UNCHANGED unfit

Empty == [placed |-> {}, l |-> 0, w |-> 0, h |-> 0, weight |-> 0]

OpenPackage(u) ==
  /\ ~Exceeds(u)
  /\ Candidates(u) = {}
  /\ packages' = Append(packages, Grown(Empty, At(u, 0, 0, 0)))
  /\ UNCHANGED unfit

PutAside(u) ==
  /\ Exceeds(u)
  /\ unfit' = unfit \cup {u}
  /\ UNCHANGED packages

Pack(u) ==
  /\ IsNext(u)
  /\ Place(u) \/ OpenPackage(u) \/ PutAside(u)
  /\ left' = left \ {u}
  /\ UNCHANGED wanted

PackNext ==
  \/ \E quantity \in Requests : Submit(quantity) \/ Refuse(quantity)
  \/ \E u \in Unit : Pack(u)

PackSpec == PackInit /\ [][PackNext]_packVars
--------------------------------------------------------------------------------
(* Properties *)

PackTypeOK ==
  /\ wanted \subseteq Unit /\ left \subseteq Unit /\ unfit \subseteq Unit
  /\ packages \in Seq(Package)

(* The space a placed unit takes, in cubes of one by one by one. *)
Occupied(p) ==
  (p.x .. p.x + SpecOf(p.unit).l - 1) \X (p.y .. p.y + SpecOf(p.unit).h - 1)
    \X (p.z .. p.z + SpecOf(p.unit).w - 1)

(* No two units of a package share any space, however the corners they were put at came *)
(* about: the plan can be carried out.                                                  *)
NoOverlap ==
  \A i \in DOMAIN packages :
    \A p, q \in packages[i].placed : p # q => Occupied(p) \cap Occupied(q) = {}

(* What a package is said to weigh is the weight of all the units in it, and it is said to be as *)
(* long, wide and high as they reach, no larger and no smaller.                                  *)
WeightOf(P) == MapThenSumSet(LAMBDA p : SpecOf(p.unit).weight, P)

SizeIsContents ==
  \A i \in DOMAIN packages :
    LET placed == packages[i].placed
    IN /\ packages[i].l = Max({p.x + SpecOf(p.unit).l : p \in placed})
       /\ packages[i].h = Max({p.y + SpecOf(p.unit).h : p \in placed})
       /\ packages[i].w = Max({p.z + SpecOf(p.unit).w : p \in placed})
       /\ packages[i].weight = WeightOf(placed)

(* No package is larger or heavier than the limits units are packed automatically within. *)
WithinLimits ==
  \A i \in DOMAIN packages :
    /\ packages[i].l <= MaxDimension /\ packages[i].w <= MaxDimension
    /\ packages[i].h <= MaxDimension /\ packages[i].weight <= MaxWeight

UnitsIn(pkg) == {p.unit : p \in pkg.placed}

(* Each unit of the request is in one place: still to come, set aside, or once in one package. *)
NothingLost ==
  /\ wanted = left \cup unfit \cup UNION {UnitsIn(packages[i]) : i \in DOMAIN packages}
  /\ left \cap unfit = {}
  /\ \A i \in DOMAIN packages :
       /\ UnitsIn(packages[i]) \cap (left \cup unfit) = {}
       /\ \A j \in DOMAIN packages : i # j => UnitsIn(packages[i]) \cap UnitsIn(packages[j]) = {}
       /\ \A p, q \in packages[i].placed : p.unit = q.unit => p = q

(* The plan can be carried out as it is told: nothing overlaps, the packages measure and weigh *)
(* what lies in them, within the limits, and every unit is accounted for.                       *)
PlanIsSound == NoOverlap /\ SizeIsContents /\ WithinLimits /\ NothingLost

(* The plan goes on until every unit is dealt with: the order of the units and the choice of *)
(* a corner always have one answer, so that equal requests get equal plans.                  *)
PlanGoesOn == left # {} => \E u \in left : IsNext(u) /\ (Exceeds(u) \/ Candidates(u) = {} \/
  \E c \in Candidates(u) : \A d \in Candidates(u) \ {c} : LexLess(Preference(c), Preference(d)))
================================================================================
