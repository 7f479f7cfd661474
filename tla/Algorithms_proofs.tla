---------------------------- MODULE Algorithms_proofs ----------------------------
(***************************************************************************)
(* Proofs about what is decided of one order, one SKU or one request, for  *)
(* all inputs: the package planner (PackingPlanner.tla), the assignment of *)
(* platform orders (PlatformOrderAssignment.tla), the carriers the         *)
(* policies leave (FulfillmentPolicies.tla), the classification of         *)
(* trackings (TrackingResolution.tla), the decision about a SKU            *)
(* (WarehouseDecision.tla, LiveInventory.tla) and the record an audit is   *)
(* matched with (OutboundMatching.tla).                                    *)
(***************************************************************************)
EXTENDS MC_Algorithms, FiniteSetFacts, FiniteSetTheorems, TLAPS

--------------------------------------------------------------------------------
(* The package planner: the order of the units and the preference among corners have no *)
(* part in the soundness of a plan.                                                      *)

(* The packages, seen one at a time. *)
Inside(pkg, p) ==
  /\ p.x + SpecOf(p.unit).l <= pkg.l
  /\ p.y + SpecOf(p.unit).h <= pkg.h
  /\ p.z + SpecOf(p.unit).w <= pkg.w

(* Some unit reaches as far as the package, in every direction. *)
Reached(pkg) ==
  /\ \E p \in pkg.placed : p.x + SpecOf(p.unit).l = pkg.l
  /\ \E p \in pkg.placed : p.y + SpecOf(p.unit).h = pkg.h
  /\ \E p \in pkg.placed : p.z + SpecOf(p.unit).w = pkg.w

Sound(pkg) ==
  /\ \A p, q \in pkg.placed : p # q => Occupied(p) \cap Occupied(q) = {}
  /\ \A p \in pkg.placed : Inside(pkg, p)
  /\ IF pkg.placed = {} THEN pkg.l = 0 /\ pkg.w = 0 /\ pkg.h = 0 ELSE Reached(pkg)
  /\ IsFiniteSet(pkg.placed)
  /\ pkg.weight = WeightOf(pkg.placed)
  /\ pkg.l <= MaxDimension /\ pkg.w <= MaxDimension /\ pkg.h <= MaxDimension
  /\ pkg.weight <= MaxWeight

SoundPackages == \A i \in DOMAIN packages : Sound(packages[i]) /\ packages[i].placed # {}

PackInv == PackTypeOK /\ SoundPackages /\ NothingLost

--------------------------------------------------------------------------------
(* The specification of a unit is positive in every direction: what resolveUnits checks. *)
LEMMA UnitSpecs ==
  ASSUME NEW u \in Unit
  PROVE  SpecOf(u) \in UnitSpec
<1>1. PICK S \in SUBSET Skus : Specs \in [S -> UnitSpec]
  BY PackingAssumption DEF PackingAssumption
<1>2. u[1] \in DOMAIN Specs
  BY DEF Unit
<1> QED
  BY <1>1, <1>2 DEF SpecOf

(* intersectsAny finds every overlap: two units it lets pass share no space. *)
LEMMA IntersectsIsExact ==
  ASSUME NEW p \in Placed, NEW q \in Placed, ~Intersects(p, q)
  PROVE  Occupied(p) \cap Occupied(q) = {}
<1>1. SpecOf(p.unit) \in UnitSpec /\ SpecOf(q.unit) \in UnitSpec
  BY UnitSpecs DEF Placed
<1> SUFFICES ASSUME NEW c \in Occupied(p), c \in Occupied(q) PROVE FALSE
  OBVIOUS
<1>2. /\ c[1] \in p.x .. p.x + SpecOf(p.unit).l - 1 /\ c[1] \in q.x .. q.x + SpecOf(q.unit).l - 1
      /\ c[2] \in p.y .. p.y + SpecOf(p.unit).h - 1 /\ c[2] \in q.y .. q.y + SpecOf(q.unit).h - 1
      /\ c[3] \in p.z .. p.z + SpecOf(p.unit).w - 1 /\ c[3] \in q.z .. q.z + SpecOf(q.unit).w - 1
  BY DEF Occupied
<1> QED
  BY <1>1, <1>2 DEF Intersects, Placed, UnitSpec

LEMMA GrownIsPackage ==
  ASSUME NEW pkg \in Package, NEW q \in Placed
  PROVE  /\ Grown(pkg, q) \in Package
         /\ Grown(pkg, q).placed = pkg.placed \cup {q}
<1>1. SpecOf(q.unit) \in UnitSpec
  BY UnitSpecs DEF Placed
<1> QED
  BY <1>1 DEF Grown, Package, Placed, UnitSpec, Larger

(* The sum MapThenSumSet makes of the weights, as a table over the subsets of a finite set. *)
LEMMA WeightTable ==
  ASSUME NEW S, NEW P, P \subseteq S, IsFiniteSet(P)
  PROVE  \E g : SumTable(g, [p \in S |-> SpecOf(p.unit).weight], P) /\ WeightOf(P) = g[P]
<1> DEFINE f == [p \in S |-> SpecOf(p.unit).weight]
           Is(g) == g = [A \in SUBSET P |-> IF A = {} THEN 0
                      ELSE SpecOf((CHOOSE x \in A : TRUE).unit).weight + g[A \ {CHOOSE x \in A : TRUE}]]
<1>1. \A g : SumTable(g, f, P) <=> Is(g)
  <2> TAKE g
  <2>1. \A A \in SUBSET P : A # {} => f[Pick(A)] = SpecOf((CHOOSE x \in A : TRUE).unit).weight
    BY PickIn DEF Pick
  <2> HIDE DEF f
  <2>2. \A A \in SUBSET P : (IF A = {} THEN 0 ELSE f[Pick(A)] + g[A \ {Pick(A)}])
          = (IF A = {} THEN 0 ELSE SpecOf((CHOOSE x \in A : TRUE).unit).weight
                                     + g[A \ {CHOOSE x \in A : TRUE}])
    BY <2>1 DEF Pick
  <2>3. [A \in SUBSET P |-> (IF A = {} THEN 0 ELSE f[Pick(A)] + g[A \ {Pick(A)}])]
          = [A \in SUBSET P |-> (IF A = {} THEN 0
               ELSE SpecOf((CHOOSE x \in A : TRUE).unit).weight + g[A \ {CHOOSE x \in A : TRUE}])]
    BY <2>2
  <2> QED  BY <2>3 DEF SumTable
<1>2. \E g : Is(g)
  <2> HIDE DEF Is, f
  <2> QED BY <1>1, TableExists
<1>3. Is(CHOOSE g : Is(g))
  BY <1>2
<1>4. WeightOf(P) = (CHOOSE g : Is(g))[P]
  BY DEF WeightOf, MapThenSumSet, MapThenFoldSet
<1> HIDE DEF Is, f
<1>5. SumTable(CHOOSE g : Is(g), f, P)
  BY <1>1, <1>3
<1> QED  BY <1>4, <1>5 DEF f

LEMMA NothingWeighsNothing == WeightOf({}) = 0
<1>1. IsFiniteSet({})
  BY FS_EmptySet
<1>2. PICK g : SumTable(g, [p \in {} |-> SpecOf(p.unit).weight], {}) /\ WeightOf({}) = g[{}]
  BY <1>1, WeightTable
<1> QED  BY <1>2 DEF SumTable

(* One unit more adds its weight, whatever the order of the sum. *)
LEMMA WeightAdds ==
  ASSUME NEW P, P \subseteq Placed, IsFiniteSet(P), NEW q \in Placed, q \notin P
  PROVE  WeightOf(P \cup {q}) = WeightOf(P) + SpecOf(q.unit).weight
<1> DEFINE S == P \cup {q}
           f == [p \in S |-> SpecOf(p.unit).weight]
<1>1. IsFiniteSet(S)
  BY FS_AddElement
<1>2. f \in [S -> Nat] /\ f[q] = SpecOf(q.unit).weight
  <2>1. \A p \in S : SpecOf(p.unit) \in UnitSpec
    BY UnitSpecs DEF Placed
  <2> QED  BY <2>1 DEF UnitSpec
<1>3. P \subseteq S /\ q \in S /\ S \ {q} = P
  OBVIOUS
<1>4. PICK g : SumTable(g, f, S) /\ WeightOf(S) = g[S]
  <2> HIDE DEF S
  <2> QED  BY <1>1, WeightTable
<1>5. PICK h : SumTable(h, f, P) /\ WeightOf(P) = h[P]
  <2> HIDE DEF S
  <2> QED  BY <1>3, WeightTable
<1> HIDE DEF f, S
<1>6. g[P] = h[P]
  BY <1>1, <1>3, <1>4, <1>5, TablesAgree
<1>7. g[S] = f[q] + g[P] /\ g[P] \in Nat
  <2>1. Adds(g, f, S)
    BY <1>1, <1>2, <1>4, TableAdds
  <2> QED  BY <1>3, <2>1 DEF Adds
<1>8. f[q] \in Nat
  BY <1>2, <1>3
<1> QED  BY <1>2, <1>4, <1>5, <1>6, <1>7, <1>8 DEF S

(* A unit that fits leaves the package sound. *)
LEMMA GrownIsSound ==
  ASSUME NEW pkg \in Package, NEW q \in Placed, q \notin pkg.placed, Sound(pkg), Fits(pkg, q)
  PROVE  Sound(Grown(pkg, q)) /\ Grown(pkg, q).placed # {}
<1> DEFINE new == Grown(pkg, q)
<1>1. new \in Package /\ new.placed = pkg.placed \cup {q}
  BY GrownIsPackage
<1>2. SpecOf(q.unit) \in UnitSpec /\ \A p \in pkg.placed : SpecOf(p.unit) \in UnitSpec
  BY UnitSpecs DEF Placed, Package
<1>3. ASSUME NEW p \in pkg.placed
      PROVE  Occupied(p) \cap Occupied(q) = {}
  BY IntersectsIsExact DEF Fits, Package
<1>4. \A p \in new.placed : Inside(new, p)
  <2>1. ASSUME NEW p \in pkg.placed
        PROVE  Inside(new, p)
    <3>1. p \in Placed /\ Inside(pkg, p) /\ SpecOf(p.unit) \in UnitSpec
      BY <1>2 DEF Sound, Package
    <3> QED
      BY <1>2, <3>1 DEF Inside, Grown, Larger, Package, Placed, UnitSpec
  <2>2. Inside(new, q)
    BY <1>2 DEF Inside, Grown, Larger, Package, Placed, UnitSpec
  <2> QED
    BY <1>1, <2>1, <2>2
<1>5. new.l <= MaxDimension /\ new.w <= MaxDimension /\ new.h <= MaxDimension /\ new.weight <= MaxWeight
  BY DEF Fits
<1>7. Reached(new)
  <2>1. /\ new.l = pkg.l \/ new.l = q.x + SpecOf(q.unit).l
        /\ new.h = pkg.h \/ new.h = q.y + SpecOf(q.unit).h
        /\ new.w = pkg.w \/ new.w = q.z + SpecOf(q.unit).w
    BY DEF Grown, Larger
  <2>2. CASE pkg.placed = {}
    <3>1. pkg.l = 0 /\ pkg.w = 0 /\ pkg.h = 0
      BY <2>2 DEF Sound
    <3>2. /\ q.x + SpecOf(q.unit).l = new.l
          /\ q.y + SpecOf(q.unit).h = new.h
          /\ q.z + SpecOf(q.unit).w = new.w
      BY <1>2, <3>1 DEF Grown, Larger, Placed, UnitSpec
    <3> HIDE DEF new
    <3> QED  BY <1>1, <3>2 DEF Reached
  <2>3. CASE pkg.placed # {}
    <3>1. Reached(pkg)
      BY <2>3 DEF Sound
    <3> HIDE DEF new
    <3> QED  BY <1>1, <2>1, <3>1 DEF Reached
  <2> QED  BY <2>2, <2>3
<1>8. new.weight = WeightOf(new.placed) /\ IsFiniteSet(new.placed)
  <2>1. pkg.placed \subseteq Placed /\ IsFiniteSet(pkg.placed) /\ pkg.weight = WeightOf(pkg.placed)
    BY DEF Sound, Package
  <2>2. new.weight = pkg.weight + SpecOf(q.unit).weight
    BY DEF Grown
  <2>3. WeightOf(pkg.placed \cup {q}) = WeightOf(pkg.placed) + SpecOf(q.unit).weight
    BY <2>1, WeightAdds
  <2>4. IsFiniteSet(pkg.placed \cup {q})
    BY <2>1, FS_AddElement
  <2> HIDE DEF new
  <2> QED  BY <1>1, <2>1, <2>2, <2>3, <2>4
<1> HIDE DEF new
<1>6. \A p, r \in new.placed : p # r => Occupied(p) \cap Occupied(r) = {}
  BY <1>1, <1>3 DEF Sound
<1> QED
  BY <1>1, <1>4, <1>5, <1>6, <1>7, <1>8 DEF Sound, new

(* A package is opened for a unit within the limits. *)
LEMMA OpenedIsSound ==
  ASSUME NEW u \in Unit, ~Exceeds(u)
  PROVE  /\ At(u, 0, 0, 0) \in Placed /\ At(u, 0, 0, 0).unit = u
         /\ Empty \in Package /\ Empty.placed = {}
         /\ Sound(Grown(Empty, At(u, 0, 0, 0))) /\ Grown(Empty, At(u, 0, 0, 0)).placed # {}
<1>1. /\ At(u, 0, 0, 0) \in Placed /\ At(u, 0, 0, 0).unit = u
      /\ Empty \in Package /\ Empty.placed = {}
  BY DEF At, Placed, Empty, Package
<1>2. SpecOf(u) \in UnitSpec
  BY UnitSpecs
<1>3. Sound(Empty)
  BY PackingAssumption, NothingWeighsNothing, FS_EmptySet DEF PackingAssumption, Sound, Empty
<1>4. Fits(Empty, At(u, 0, 0, 0))
  BY <1>2, PackingAssumption DEF PackingAssumption, Fits, Empty, Grown, At, Larger, Exceeds, UnitSpec
<1> QED
  BY <1>1, <1>3, <1>4, GrownIsSound

(* A corner offered to a unit is a place for it. *)
LEMMA CandidateIsPlace ==
  ASSUME PackTypeOK, NEW u \in Unit, NEW c \in Candidates(u)
  PROVE  /\ c[1] \in DOMAIN packages
         /\ c[2] \in Placed /\ c[2].unit = u
         /\ Fits(packages[c[1]], c[2])
<1>1. PICK i \in DOMAIN packages : c \in {i} \X UNION {Corners(p, u) : p \in packages[i].placed}
  BY DEF Candidates
<1>2. PICK p \in packages[i].placed : c[1] = i /\ c[2] \in Corners(p, u)
  BY <1>1
<1>0. packages[i] \in Package
  BY DEF PackTypeOK
<1>3. packages[i] \in Package /\ p \in Placed
  BY <1>0 DEF Package
<1>4. SpecOf(p.unit) \in UnitSpec
  BY <1>3, UnitSpecs DEF Placed
<1>5. c[2] \in Placed /\ c[2].unit = u
  BY <1>2, <1>3, <1>4 DEF Corners, At, Placed, UnitSpec
<1> QED
  BY <1>2, <1>5 DEF Candidates

--------------------------------------------------------------------------------
(* The units, with NothingLost said of each of them. *)
LEMMA Everywhere ==
  NothingLost <=>
    /\ wanted = left \cup unfit \cup {u \in wanted : \E i \in DOMAIN packages : u \in UnitsIn(packages[i])}
    /\ \A i \in DOMAIN packages : UnitsIn(packages[i]) \subseteq wanted
    /\ left \cap unfit = {}
    /\ \A i \in DOMAIN packages :
         /\ UnitsIn(packages[i]) \cap (left \cup unfit) = {}
         /\ \A j \in DOMAIN packages : i # j => UnitsIn(packages[i]) \cap UnitsIn(packages[j]) = {}
         /\ \A p, q \in packages[i].placed : p.unit = q.unit => p = q
BY DEF NothingLost

(* A package gets the unit that comes next: nothing is lost and nothing packed twice. *)
LEMMA PutInIsKept ==
  ASSUME NothingLost, PackTypeOK, NEW u \in left, NEW q \in Placed, q.unit = u,
         NEW k \in Nat \ {0}, NEW base \in Package, NEW new \in Package,
         new.placed = base.placed \cup {q},
         DOMAIN packages' = DOMAIN packages \cup {k}, packages'[k] = new,
         \A i \in DOMAIN packages \ {k} : packages'[i] = packages[i],
         k \in DOMAIN packages => base = packages[k],
         k \notin DOMAIN packages => base.placed = {},
         left' = left \ {u}, wanted' = wanted, unfit' = unfit
  PROVE  NothingLost'
<1>1. UnitsIn(new) = UnitsIn(base) \cup {u}
  BY DEF UnitsIn
<1>2. u \in wanted /\ u \notin unfit /\ \A i \in DOMAIN packages : u \notin UnitsIn(packages[i])
  BY DEF NothingLost
<1>3. /\ u \notin UnitsIn(base)
      /\ UnitsIn(base) \cap (left \cup unfit) = {}
      /\ UnitsIn(base) \subseteq wanted
      /\ \A p, r \in base.placed : p.unit = r.unit => p = r
      /\ \A i \in DOMAIN packages \ {k} : UnitsIn(base) \cap UnitsIn(packages[i]) = {}
  <2>1. CASE k \in DOMAIN packages
    BY <1>2, <2>1 DEF NothingLost
  <2>2. CASE k \notin DOMAIN packages
    BY <2>2 DEF UnitsIn
  <2> QED
    BY <2>1, <2>2
<1>4. UNION {UnitsIn(packages'[i]) : i \in DOMAIN packages'}
        = {u} \cup UNION {UnitsIn(packages[i]) : i \in DOMAIN packages}
  <2>1. CASE k \in DOMAIN packages
    BY <1>1, <2>1
  <2>2. CASE k \notin DOMAIN packages
    <3>1. UnitsIn(new) = {u}
      BY <1>1, <2>2 DEF UnitsIn
    <3> QED
      BY <2>2, <3>1
  <2> QED
    BY <2>1, <2>2
<1>5. wanted' = left' \cup unfit' \cup UNION {UnitsIn(packages'[i]) : i \in DOMAIN packages'}
  BY <1>2, <1>4 DEF NothingLost
<1>6. left' \cap unfit' = {}
  BY DEF NothingLost
<1>7. ASSUME NEW i \in DOMAIN packages'
      PROVE  UnitsIn(packages'[i]) \cap (left' \cup unfit') = {}
  BY <1>1, <1>2, <1>3 DEF NothingLost
<1>8. ASSUME NEW i \in DOMAIN packages', NEW j \in DOMAIN packages', i # j
      PROVE  UnitsIn(packages'[i]) \cap UnitsIn(packages'[j]) = {}
  <2>1. ASSUME NEW m \in DOMAIN packages \ {k}
        PROVE  UnitsIn(new) \cap UnitsIn(packages[m]) = {}
    <3>1. UnitsIn(base) \cap UnitsIn(packages[m]) = {}
      BY <1>3
    <3>2. u \notin UnitsIn(packages[m])
      BY <1>2
    <3> QED
      BY <1>1, <3>1, <3>2
  <2>2. CASE i = k
    BY <1>8, <2>1, <2>2
  <2>3. CASE j = k
    BY <1>8, <2>1, <2>3
  <2>4. CASE i # k /\ j # k
    BY <1>8, <2>4 DEF NothingLost
  <2> QED
    BY <2>2, <2>3, <2>4
<1>9. ASSUME NEW i \in DOMAIN packages', NEW p \in packages'[i].placed, NEW r \in packages'[i].placed,
             p.unit = r.unit
      PROVE  p = r
  <2>1. CASE i = k
    <3>1. \A x \in base.placed : x.unit # u
      BY <1>3 DEF UnitsIn
    <3> QED
      BY <1>3, <1>9, <2>1, <3>1
  <2>2. CASE i # k
    BY <1>9, <2>2 DEF NothingLost
  <2> QED
    BY <2>1, <2>2
<1> QED
  BY <1>5, <1>6, <1>7, <1>8, <1>9 DEF NothingLost, UnitsIn

--------------------------------------------------------------------------------
(* The steps *)

LEMMA PackInitHolds == PackInit => PackInv
<1> SUFFICES ASSUME PackInit PROVE PackInv
  OBVIOUS
<1>1. packages = <<>> /\ DOMAIN packages = {}
  BY DEF PackInit
<1> QED
  BY <1>1 DEF PackInit, PackInv, PackTypeOK, SoundPackages, NothingLost

LEMMA SubmitHolds ==
  ASSUME PackInv, NEW quantity \in Requests, Submit(quantity)
  PROVE  PackInv'
<1>1. wanted' = UnitsOf(quantity) /\ left' = UnitsOf(quantity) /\ UnitsOf(quantity) \subseteq Unit
  BY DEF Submit, UnitsOf
<1>2. packages' = packages /\ unfit' = unfit /\ wanted = {}
  BY DEF Submit
<1>3. unfit = {} /\ \A i \in DOMAIN packages : UnitsIn(packages[i]) = {}
  BY <1>2 DEF PackInv, NothingLost
<1>4. NothingLost'
  BY <1>1, <1>2, <1>3 DEF PackInv, NothingLost, UnitsIn
<1> QED
  BY <1>1, <1>2, <1>4 DEF PackInv, PackTypeOK, SoundPackages

LEMMA PlaceHolds ==
  ASSUME PackInv, NEW u \in Unit, IsNext(u), Place(u), left' = left \ {u}, wanted' = wanted
  PROVE  PackInv'
<1> USE DEF PackInv
<1>1. PICK c \in Candidates(u) : packages' = [packages EXCEPT ![c[1]] = Grown(@, c[2])]
  BY DEF Place
<1> DEFINE k == c[1]
           q == c[2]
           new == Grown(packages[k], q)
<1>2. k \in DOMAIN packages /\ q \in Placed /\ q.unit = u /\ Fits(packages[k], q)
  BY CandidateIsPlace
<1>3. packages[k] \in Package /\ k \in Nat \ {0}
  BY <1>2 DEF PackTypeOK
<1>4. new \in Package /\ new.placed = packages[k].placed \cup {q}
  BY <1>2, <1>3, GrownIsPackage
<1>11. q \notin packages[k].placed
  <2>1. u \in left /\ u \notin UnitsIn(packages[k])
    BY <1>2 DEF IsNext, NothingLost
  <2> QED  BY <1>2, <2>1 DEF UnitsIn
<1>5. Sound(new) /\ new.placed # {}
  BY <1>2, <1>3, <1>11, GrownIsSound DEF SoundPackages
<1>6. packages' = [packages EXCEPT ![k] = new]
  BY <1>1
<1> HIDE DEF k, q, new
<1>7. packages' \in Seq(Package) /\ DOMAIN packages' = DOMAIN packages
      /\ packages'[k] = new /\ \A i \in DOMAIN packages \ {k} : packages'[i] = packages[i]
  BY <1>2, <1>4, <1>6 DEF PackTypeOK
<1>8. SoundPackages'
  <2>1. \A i \in DOMAIN packages' : Sound(packages'[i]) /\ packages'[i].placed # {}
    BY <1>5, <1>7 DEF SoundPackages
  <2> QED
    BY <2>1 DEF SoundPackages, Sound, Inside, Reached
<1>9. unfit' = unfit
  BY DEF Place
<1>10. NothingLost'
  <2>1. u \in left /\ NothingLost /\ PackTypeOK
    BY DEF IsNext
  <2>2. DOMAIN packages' = DOMAIN packages \cup {k}
    BY <1>2, <1>7
  <2>3. k \in DOMAIN packages => packages[k] = packages[k]
    OBVIOUS
  <2>4. k \notin DOMAIN packages => packages[k].placed = {}
    BY <1>2
  <2> HIDE DEF PackInv
  <2> QED
    BY <1>2, <1>3, <1>4, <1>7, <1>9, <2>1, <2>2, <2>3, <2>4, PutInIsKept
<1> QED
  BY <1>7, <1>8, <1>9, <1>10 DEF PackTypeOK

LEMMA OpenPackageHolds ==
  ASSUME PackInv, NEW u \in Unit, IsNext(u), OpenPackage(u), left' = left \ {u}, wanted' = wanted
  PROVE  PackInv'
<1> USE DEF PackInv
<1> DEFINE q == At(u, 0, 0, 0)
           new == Grown(Empty, q)
           k == Len(packages) + 1
<1>1. ~Exceeds(u) /\ packages' = Append(packages, new) /\ unfit' = unfit
  BY DEF OpenPackage
<1>2. q \in Placed /\ q.unit = u /\ Empty \in Package /\ Empty.placed = {}
      /\ Sound(new) /\ new.placed # {}
  BY <1>1, OpenedIsSound
<1>3. new \in Package /\ new.placed = Empty.placed \cup {q}
  BY <1>2, GrownIsPackage
<1> HIDE DEF q, new
<1>4. /\ k \in Nat \ {0} /\ k \notin DOMAIN packages /\ packages' \in Seq(Package)
      /\ DOMAIN packages' = DOMAIN packages \cup {k}
      /\ packages'[k] = new /\ \A i \in DOMAIN packages \ {k} : packages'[i] = packages[i]
  BY <1>1, <1>3 DEF PackTypeOK
<1> HIDE DEF k
<1>5. SoundPackages'
  <2>1. \A i \in DOMAIN packages' : Sound(packages'[i]) /\ packages'[i].placed # {}
    BY <1>2, <1>4 DEF SoundPackages
  <2> QED
    BY <2>1 DEF SoundPackages, Sound, Inside, Reached
<1>6. NothingLost'
  <2>1. u \in left /\ NothingLost /\ PackTypeOK
    BY DEF IsNext
  <2>2. k \in DOMAIN packages => Empty = packages[k]
    BY <1>4
  <2>3. k \notin DOMAIN packages => Empty.placed = {}
    BY <1>2
  <2> HIDE DEF PackInv
  <2> QED
    BY <1>1, <1>2, <1>3, <1>4, <2>1, <2>2, <2>3, PutInIsKept
<1> QED
  BY <1>1, <1>4, <1>5, <1>6 DEF PackTypeOK

LEMMA PutAsideHolds ==
  ASSUME PackInv, NEW u \in Unit, IsNext(u), PutAside(u), left' = left \ {u}, wanted' = wanted
  PROVE  PackInv'
<1>1. u \in left /\ unfit' = unfit \cup {u} /\ packages' = packages
  BY DEF IsNext, PutAside
<1>2. NothingLost'
  BY SMTT(40), <1>1 DEF PackInv, NothingLost, UnitsIn
<1> QED
  BY <1>1, <1>2 DEF PackInv, PackTypeOK, SoundPackages

LEMMA PackNextHolds == PackInv /\ [PackNext]_packVars => PackInv'
<1> SUFFICES ASSUME PackInv, [PackNext]_packVars PROVE PackInv'
  OBVIOUS
<1>1. CASE \E quantity \in Requests : Submit(quantity)
  BY <1>1, SubmitHolds
<1>2. ASSUME UNCHANGED packVars
      PROVE  PackInv'
  BY <1>2 DEF PackInv, PackTypeOK, SoundPackages, NothingLost, packVars
<1>3. CASE \E u \in Unit : Pack(u)
  BY <1>3, PlaceHolds, OpenPackageHolds, PutAsideHolds DEF Pack
<1> QED
  BY <1>1, <1>2, <1>3 DEF PackNext, Refuse

(* The largest of some numbers is the one that is reached and not passed. *)
LEMMA MaxReached ==
  ASSUME NEW S, S \subseteq Int, NEW m \in S, \A x \in S : x <= m
  PROVE  m = Max(S)
<1>1. \A y \in S : m >= y
  OBVIOUS
<1>2. \A x \in S : (\A y \in S : x >= y) => x = m
  OBVIOUS
<1> QED  BY <1>1, <1>2 DEF Max

LEMMA SoundMeasures ==
  ASSUME NEW pkg \in Package, Sound(pkg), pkg.placed # {}
  PROVE  /\ pkg.l = Max({p.x + SpecOf(p.unit).l : p \in pkg.placed})
         /\ pkg.h = Max({p.y + SpecOf(p.unit).h : p \in pkg.placed})
         /\ pkg.w = Max({p.z + SpecOf(p.unit).w : p \in pkg.placed})
<1>1. Reached(pkg) /\ \A p \in pkg.placed : Inside(pkg, p)
  BY DEF Sound
<1>2. \A p \in pkg.placed : p \in Placed /\ SpecOf(p.unit) \in UnitSpec
  BY UnitSpecs DEF Placed, Package
<1> DEFINE L == {p.x + SpecOf(p.unit).l : p \in pkg.placed}
           H == {p.y + SpecOf(p.unit).h : p \in pkg.placed}
           W == {p.z + SpecOf(p.unit).w : p \in pkg.placed}
<1>3. L \subseteq Int /\ H \subseteq Int /\ W \subseteq Int
  BY <1>2 DEF Placed, UnitSpec
<1>4. pkg.l \in L /\ pkg.h \in H /\ pkg.w \in W
  BY <1>1 DEF Reached
<1>5. (\A x \in L : x <= pkg.l) /\ (\A x \in H : x <= pkg.h) /\ (\A x \in W : x <= pkg.w)
  BY <1>1 DEF Inside
<1>6. pkg.l = Max(L)
  <2> HIDE DEF L
  <2> QED  BY <1>3, <1>4, <1>5, MaxReached
<1>7. pkg.h = Max(H)
  <2> HIDE DEF H
  <2> QED  BY <1>3, <1>4, <1>5, MaxReached
<1>8. pkg.w = Max(W)
  <2> HIDE DEF W
  <2> QED  BY <1>3, <1>4, <1>5, MaxReached
<1> QED  BY <1>6, <1>7, <1>8

LEMMA PlanFromInv == PackInv => PlanIsSound
<1> SUFFICES ASSUME PackInv PROVE PlanIsSound
  OBVIOUS
<1>1. ASSUME NEW i \in DOMAIN packages
      PROVE  packages[i] \in Package /\ Sound(packages[i]) /\ packages[i].placed # {}
  BY DEF PackInv, PackTypeOK, SoundPackages
<1>2. NoOverlap /\ WithinLimits
  BY <1>1 DEF NoOverlap, WithinLimits, Sound
<1>3. SizeIsContents
  <2> SUFFICES ASSUME NEW i \in DOMAIN packages
               PROVE  /\ packages[i].l = Max({p.x + SpecOf(p.unit).l : p \in packages[i].placed})
                      /\ packages[i].h = Max({p.y + SpecOf(p.unit).h : p \in packages[i].placed})
                      /\ packages[i].w = Max({p.z + SpecOf(p.unit).w : p \in packages[i].placed})
                      /\ packages[i].weight = WeightOf(packages[i].placed)
    BY DEF SizeIsContents
  <2>1. packages[i].weight = WeightOf(packages[i].placed)
    BY <1>1 DEF Sound
  <2> QED  BY <1>1, <2>1, SoundMeasures
<1> QED  BY <1>2, <1>3 DEF PackInv, PlanIsSound

(* Whatever is asked: the units of a package share no space, the package is as large and as  *)
(* heavy as what lies in it and within the limits, and each unit of the request is planned   *)
(* exactly once or reported as unfit (Build, planner.go:139).                                *)
THEOREM PlanCanBeCarriedOut == PackSpec => [](PackTypeOK /\ PlanIsSound)
<1>1. PackInv => PackTypeOK /\ PlanIsSound
  BY PlanFromInv DEF PackInv
<1> QED
  BY <1>1, PackInitHolds, PackNextHolds, PTL DEF PackSpec

--------------------------------------------------------------------------------
(* Policies *)

(* Rows, saves under way and what was read name carriers the warehouse may have: it is the  *)
(* check before a save that sees to it, since a warehouse without a row of capabilities     *)
(* takes what the policies say.                                                             *)
AllowedOnly ==
  /\ defaults \subseteq Allowed /\ baseRules \subseteq Allowed
  /\ override = NoOverride \/ override \subseteq Allowed
  /\ \A s \in Savers : save[s].carriers \subseteq Allowed /\ save[s].rules \subseteq Allowed
  /\ reading.base \subseteq Allowed /\ reading.carriers \subseteq Allowed

PolicyInv == PolicyTypeOK /\ AllowedOnly

LEMMA SaveFits ==
  ASSUME PolicyInv, NEW s \in Savers, NEW next \in Save, save' = [save EXCEPT ![s] = next],
         next.carriers \subseteq Allowed, next.rules \subseteq Allowed
  PROVE  /\ save' \in [Savers -> Save]
         /\ \A v \in Savers : save'[v].carriers \subseteq Allowed /\ save'[v].rules \subseteq Allowed
BY DEF PolicyInv, PolicyTypeOK, AllowedOnly

LEMMA NoSaveFits == NoSave \in Save /\ NoSave.carriers \subseteq Allowed /\ NoSave.rules \subseteq Allowed
BY DEF NoSave, Save

LEMMA EndFits ==
  ASSUME PolicyInv, NEW s \in Savers, EndSave(s)
  PROVE  /\ save' \in [Savers -> Save]
         /\ \A v \in Savers : save'[v].carriers \subseteq Allowed /\ save'[v].rules \subseteq Allowed
BY SaveFits, NoSaveFits DEF EndSave

(* A save that goes on to its next step keeps what it asks for. *)
LEMMA GoesOnFits ==
  ASSUME PolicyInv, NEW s \in Savers, NEW step \in {"idle", "managed", "limit", "write"},
         save' = [save EXCEPT ![s].at = step]
  PROVE  /\ save' \in [Savers -> Save]
         /\ \A v \in Savers : save'[v].carriers \subseteq Allowed /\ save'[v].rules \subseteq Allowed
<1> DEFINE next == [save[s] EXCEPT !.at = step]
<1>1. save[s] \in Save
  BY DEF PolicyInv, PolicyTypeOK
<1>2. next \in Save /\ next.carriers = save[s].carriers /\ next.rules = save[s].rules
  BY <1>1 DEF Save
<1>3. next.carriers \subseteq Allowed /\ next.rules \subseteq Allowed
  BY <1>2 DEF PolicyInv, AllowedOnly
<1>4. save' = [save EXCEPT ![s] = next]
  OBVIOUS
<1> HIDE DEF next
<1> QED  BY <1>2, <1>3, <1>4, SaveFits

LEMMA InitAllowed == PolicyInit => PolicyInv
<1> SUFFICES ASSUME PolicyInit PROVE PolicyInv
  OBVIOUS
<1>1. save \in [Savers -> Save] /\ \A s \in Savers : save[s].carriers \subseteq Allowed /\ save[s].rules \subseteq Allowed
  BY NoSaveFits DEF PolicyInit
<1>2. reading \in Reading /\ reading.base \subseteq Allowed /\ reading.carriers \subseteq Allowed
  BY DEF PolicyInit, NoReading, Reading
<1> QED  BY <1>1, <1>2, CarriersAssumption DEF PolicyInit, PolicyInv, PolicyTypeOK, AllowedOnly

LEMMA StepAllowed == PolicyInv /\ [PolicyNext]_policyVars => PolicyInv'
<1> SUFFICES ASSUME PolicyInv, [PolicyNext]_policyVars PROVE PolicyInv'
  OBVIOUS
<1> USE CarriersAssumption
<1>1. ASSUME NEW s \in Savers, NEW sku \in BOOLEAN, NEW withRules \in BOOLEAN,
             NEW carriers \in SUBSET Carriers, NEW rules \in SUBSET Carriers,
             AskToSave(s, sku, carriers, withRules, rules)
      PROVE  PolicyInv'
  <2> DEFINE next == [at |-> IF sku THEN "managed" ELSE "limit", sku |-> sku, carriers |-> carriers,
                      withRules |-> withRules, rules |-> rules]
  <2>1. next \in Save /\ next.carriers = carriers /\ next.rules = rules
    BY DEF Save
  <2>2. carriers \subseteq Allowed /\ rules \subseteq Allowed /\ save' = [save EXCEPT ![s] = next]
    BY <1>1 DEF AskToSave
  <2> HIDE DEF next
  <2>3. /\ save' \in [Savers -> Save]
        /\ \A v \in Savers : save'[v].carriers \subseteq Allowed /\ save'[v].rules \subseteq Allowed
    BY <2>1, <2>2, SaveFits
  <2> QED  BY <1>1, <2>3 DEF AskToSave, PolicyInv, PolicyTypeOK, AllowedOnly, rowVars, othersVars
<1>2. ASSUME NEW s \in Savers, CheckManaged(s) \/ CheckLimit(s) PROVE PolicyInv'
  <2>1. \/ EndSave(s)
        \/ \E step \in {"idle", "managed", "limit", "write"} : save' = [save EXCEPT ![s].at = step]
    BY <1>2 DEF CheckManaged, CheckLimit
  <2>2. /\ save' \in [Savers -> Save]
        /\ \A v \in Savers : save'[v].carriers \subseteq Allowed /\ save'[v].rules \subseteq Allowed
    BY <2>1, EndFits, GoesOnFits
  <2> QED  BY <1>2, <2>2 DEF CheckManaged, CheckLimit, PolicyInv, PolicyTypeOK, AllowedOnly, rowVars, othersVars
<1>3. ASSUME NEW s \in Savers, WritePolicies(s) PROVE PolicyInv'
  <2>1. /\ save' \in [Savers -> Save]
        /\ \A v \in Savers : save'[v].carriers \subseteq Allowed /\ save'[v].rules \subseteq Allowed
    BY <1>3, EndFits DEF WritePolicies
  <2>2. save[s].carriers \subseteq Allowed /\ save[s].rules \subseteq Allowed
    BY DEF PolicyInv, AllowedOnly
  <2> QED  BY <1>3, <2>1, <2>2 DEF WritePolicies, PolicyInv, PolicyTypeOK, AllowedOnly, othersVars
<1>4. ASSUME NEW s \in Savers, SaveFails(s) PROVE PolicyInv'
  BY <1>4, EndFits DEF SaveFails, PolicyInv, PolicyTypeOK, AllowedOnly, rowVars, othersVars
<1>5. CASE ResetSKUCarrierPolicies
  BY <1>5 DEF ResetSKUCarrierPolicies, PolicyInv, PolicyTypeOK, AllowedOnly, othersVars
<1>6. CASE ReadBase
  BY <1>6 DEF ReadBase, NoReading, Reading, PolicyInv, PolicyTypeOK, AllowedOnly, rowVars, othersVars
<1>7. CASE ReadCarriers
  BY <1>7 DEF ReadCarriers, Reading, PolicyInv, PolicyTypeOK, AllowedOnly, rowVars, othersVars
<1>8. CASE ReadAccountRules
  BY <1>8 DEF ReadAccountRules, Unblocked, Reading, PolicyInv, PolicyTypeOK, AllowedOnly, rowVars, othersVars
<1>9. CASE ReadLimit
  BY <1>9 DEF ReadLimit, NoReading, Reading, PolicyInv, PolicyTypeOK, AllowedOnly, rowVars, othersVars
<1>10. CASE Rebind
  BY <1>10 DEF Rebind, PolicyChange, PolicyInv, PolicyTypeOK, AllowedOnly, rowVars
<1>11. ASSUME NEW taken \in (SUBSET Carriers) \cup {NoLimit}, ChangeLimit(taken) PROVE PolicyInv'
  BY <1>11 DEF ChangeLimit, PolicyChange, PolicyInv, PolicyTypeOK, AllowedOnly, rowVars
<1>12. CASE UNCHANGED policyVars
  BY <1>12 DEF policyVars, PolicyInv, PolicyTypeOK, AllowedOnly
<1> QED
  BY <1>1, <1>2, <1>3, <1>4, <1>5, <1>6, <1>7, <1>8, <1>9, <1>10, <1>11, <1>12 DEF PolicyNext

(* The rows, the saves and the reader have their types in every behaviour. *)
THEOREM PoliciesTyped == PolicySpec => []PolicyTypeOK
<1>1. PolicyInv => PolicyTypeOK
  BY DEF PolicyInv
<1> QED  BY <1>1, InitAllowed, StepAllowed, PTL DEF PolicySpec

(* Whatever is saved, bound or restricted between the queries of CarrierPolicies, what it      *)
(* leaves is taken by the warehouse now; whatever the carriers and the warehouse.              *)
THEOREM NothingElseIsLeft == PolicySpec => []LeftOverIsAllowed
<1>1. PolicyInv => LeftOverIsAllowed
  BY CarriersAssumption DEF PolicyInv, AllowedOnly, LeftOverIsAllowed, LeftOver, LeftOverBase, Taken
<1> QED  BY <1>1, InitAllowed, StepAllowed, PTL DEF PolicySpec

--------------------------------------------------------------------------------
(* Assignment *)

ReadyIsEmpty(q) == q.at = "ready" => q = Ready

(* A request under way has seen the labels as they are. *)
SeesLabels(q) == q.at \notin {"ready", "answered"} => \A o \in q.orders : label[o] \in q.seen[o]

(* The stages in which the service of a platform has been asked. *)
Later(p) == IF p = "temu" THEN {"shein", "pending", "routes", "assign"} ELSE {"pending", "routes", "assign"}

AsksInTurn(q) == \A p \in q.deaf : q.at \in Later(p)

(* The evidence is what the service had to say since the request began, or the audits where *)
(* it has not been asked yet or has failed.                                                  *)
EvidenceIsKnown(q) ==
  /\ \A o \in q.orders : q.local[o] = Reliable(q.local[o])
  /\ \A o \in q.orders :
       q.evidence[o] \subseteq IF q.at \in Later(PlatformOf[o]) /\ PlatformOf[o] \notin q.deaf
                               THEN Reliable(q.seen[o]) ELSE q.local[o]

(* What is left to assign belongs to a batch that is settled. *)
BatchIsSettled(q) ==
  q.at = "assign" => q.left \subseteq q.orders /\ \A o \in q.orders : Agreed(q.evidence[o])

RequestInv(q) == ReadyIsEmpty(q) /\ SeesLabels(q) /\ AsksInTurn(q) /\ EvidenceIsKnown(q) /\ BatchIsSettled(q)

RequestsFit == \A r \in Assignments : RequestInv(request[r])

AssignInv == AssignTypeOK /\ RequestsFit

LEMMA ReliableTyped == \A S : Reliable(S) \subseteq S /\ Reliable(Reliable(S)) = Reliable(S)
BY DEF Reliable

LEMMA ReadyFits ==
  ASSUME NEW step \in {"ready", "answered"}
  PROVE  [Ready EXCEPT !.at = step] \in Request /\ RequestInv([Ready EXCEPT !.at = step])
<1>1. Nothing \in [PlatformOrders -> SUBSET Labels]
      /\ Nothing \in [PlatformOrders -> SUBSET (Labels \cup {NoLabel})]
  BY DEF Nothing
<1>2. [Ready EXCEPT !.at = step] =
        [at |-> step, orders |-> {}, evidence |-> Nothing, left |-> {}, deaf |-> {},
         local |-> Nothing, seen |-> Nothing]
  BY DEF Ready
<1> QED  BY <1>1, <1>2 DEF Ready, Request, Stage, RequestInv, ReadyIsEmpty, SeesLabels, AsksInTurn, EvidenceIsKnown, BatchIsSettled

LEMMA InitAssigned == AssignInit => AssignInv
<1> SUFFICES ASSUME AssignInit PROVE AssignInv
  OBVIOUS
<1>1. [Ready EXCEPT !.at = "ready"] = Ready
  BY DEF Ready
<1>2. Ready \in Request /\ RequestInv(Ready)
  BY <1>1, ReadyFits
<1>3. audited \in [PlatformOrders -> SUBSET Labels]
  BY DEF AssignInit
<1> QED  BY <1>2, <1>3, CodesAssumption DEF AssignInit, AssignInv, RequestsFit, AssignTypeOK

(* One request moves, the labels stay as they are. *)
LEMMA RequestMoves ==
  ASSUME AssignInv, NEW r \in Assignments, NEW q \in Request, request' = [request EXCEPT ![r] = q],
         UNCHANGED label, RequestInv(q)
  PROVE  request' \in [Assignments -> Request] /\ RequestsFit'
<1>1. \A v \in Assignments : request'[v] = IF v = r THEN q ELSE request[v]
  BY DEF AssignInv, AssignTypeOK
<1>2. \A v \in Assignments : RequestInv(request'[v])
  <2> TAKE v \in Assignments
  <2>1. CASE v = r
    BY <1>1, <2>1
  <2>2. CASE v # r
    BY <1>1, <2>2 DEF AssignInv, RequestsFit
  <2> QED  BY <2>1, <2>2
<1>3. RequestsFit'
  BY <1>2 DEF RequestsFit, RequestInv, ReadyIsEmpty, SeesLabels, AsksInTurn, EvidenceIsKnown, BatchIsSettled
<1> QED  BY <1>3 DEF AssignInv, AssignTypeOK

LEMMA AnswerMoves ==
  ASSUME AssignInv, NEW r \in Assignments, Answer(r), UNCHANGED label
  PROVE  request' \in [Assignments -> Request] /\ RequestsFit' /\ holder' \in Assignments \cup {NoAssignment}
<1>1. request' \in [Assignments -> Request] /\ RequestsFit'
  BY ReadyFits, RequestMoves DEF Answer
<1> QED  BY <1>1 DEF Answer

(* A request that goes on to a later stage, with what it knows unchanged. *)
LEMMA StageMoves ==
  ASSUME AssignInv, NEW r \in Assignments, NEW q \in Request, request' = [request EXCEPT ![r] = q], UNCHANGED label,
         q.orders = request[r].orders, q.seen = request[r].seen, q.local = request[r].local,
         request[r].at \notin {"ready", "answered"},
         q.at # "ready", AsksInTurn(q), EvidenceIsKnown(q), BatchIsSettled(q)
  PROVE  request' \in [Assignments -> Request] /\ RequestsFit'
<1>1. SeesLabels(q)
  BY DEF AssignInv, RequestsFit, RequestInv, SeesLabels
<1> QED  BY <1>1, RequestMoves DEF RequestInv, ReadyIsEmpty

(* The other variables of the state when a request moves. *)
LEMMA OnlyRequestMoves ==
  ASSUME AssignInv, request' \in [Assignments -> Request], RequestsFit',
         holder' \in Assignments \cup {NoAssignment}, UNCHANGED <<label, audited, events>>,
         approved' \in [PlatformOrders -> WarehouseCodes \cup {NoCode}]
  PROVE  AssignInv'
BY DEF AssignInv, AssignTypeOK

LEMMA BeginKeeps ==
  ASSUME AssignInv, NEW r \in Assignments, NEW orders \in SUBSET PlatformOrders, Begin(r, orders)
  PROVE  AssignInv'
<1> DEFINE seen == [o \in PlatformOrders |-> IF o \in orders THEN {label[o]} ELSE {}]
           q == [request[r] EXCEPT !.at = "audits", !.orders = orders, !.seen = seen]
<1>1. request[r] = Ready /\ request[r] \in Request
  BY DEF AssignInv, RequestsFit, RequestInv, ReadyIsEmpty, AssignTypeOK, Begin
<1>2. seen \in [PlatformOrders -> SUBSET (Labels \cup {NoLabel})] /\ \A o \in orders : label[o] \in seen[o]
  BY DEF AssignInv, AssignTypeOK
<1> HIDE DEF seen
<1>3. /\ q \in Request
      /\ q.at = "audits" /\ q.orders = orders /\ q.seen = seen
      /\ q.evidence = request[r].evidence /\ q.local = request[r].local /\ q.deaf = request[r].deaf
  BY <1>1, <1>2 DEF Request, Stage
<1>4. request[r].evidence = Nothing /\ request[r].local = Nothing /\ request[r].deaf = {}
  BY <1>1 DEF Ready
<1>5. \A o \in orders : Nothing[o] = {}
  BY DEF Nothing
<1>6. RequestInv(q)
  BY <1>2, <1>3, <1>4, <1>5
     DEF RequestInv, ReadyIsEmpty, SeesLabels, AsksInTurn, EvidenceIsKnown, BatchIsSettled, Reliable
<1>7. request' = [request EXCEPT ![r] = q] /\ UNCHANGED <<label, audited, approved, events>> /\ holder' = r
  BY DEF Begin, seen
<1> HIDE DEF q
<1>8. request' \in [Assignments -> Request] /\ RequestsFit'
  BY <1>3, <1>6, <1>7, RequestMoves
<1> QED  BY <1>7, <1>8, OnlyRequestMoves DEF AssignInv, AssignTypeOK

LEMMA ReadAuditsKeeps ==
  ASSUME AssignInv, NEW r \in Assignments, ReadAudits(r)
  PROVE  AssignInv'
<1> DEFINE read == [o \in PlatformOrders |-> Reliable(audited[o])]
           q == [request[r] EXCEPT !.at = "temu", !.evidence = read, !.local = read]
<1>1. request[r] \in Request /\ RequestInv(request[r]) /\ request[r].at = "audits"
  BY DEF AssignInv, RequestsFit, AssignTypeOK, ReadAudits
<1>2. read \in [PlatformOrders -> SUBSET Labels] /\ \A o \in PlatformOrders : read[o] = Reliable(read[o])
  BY ReliableTyped DEF AssignInv, AssignTypeOK
<1> HIDE DEF read
<1>3. /\ q \in Request
      /\ q.at = "temu" /\ q.orders = request[r].orders /\ q.seen = request[r].seen
      /\ q.evidence = read /\ q.local = read /\ q.deaf = request[r].deaf
  BY <1>1, <1>2 DEF Request, Stage
<1>4. request' = [request EXCEPT ![r] = q] /\ UNCHANGED <<label, audited, approved, holder, events>>
  BY DEF ReadAudits, read
<1> HIDE DEF q
<1>5. request[r].deaf = {}
  BY <1>1 DEF RequestInv, AsksInTurn, Later
<1>6. SeesLabels(q)
  BY <1>1, <1>3 DEF RequestInv, SeesLabels
<1>7. q.orders \subseteq PlatformOrders /\ PlatformOf \in [PlatformOrders -> {"temu", "shein"}]
  BY <1>1, <1>3, CodesAssumption DEF Request
<1>8. EvidenceIsKnown(q)
  BY <1>2, <1>3, <1>7 DEF EvidenceIsKnown, Later
<1>9. RequestInv(q)
  BY <1>3, <1>5, <1>6, <1>8 DEF RequestInv, ReadyIsEmpty, AsksInTurn, BatchIsSettled
<1>10. request' \in [Assignments -> Request] /\ RequestsFit'
  BY <1>3, <1>4, <1>9, RequestMoves
<1> QED  BY <1>4, <1>10, OnlyRequestMoves DEF AssignInv, AssignTypeOK

LEMMA AnswersKeep ==
  ASSUME AssignInv, NEW r \in Assignments, NEW p \in {"temu", "shein"}, ServiceAnswers(r, p)
  PROVE  AssignInv'
<1> DEFINE q == [request[r] EXCEPT !.at = AfterService(p), !.evidence = Merged(r, p)]
<1>1. request[r] \in Request /\ RequestInv(request[r]) /\ request[r].at = p
  BY DEF AssignInv, RequestsFit, AssignTypeOK, ServiceAnswers
<1>2. Merged(r, p) \in [PlatformOrders -> SUBSET Labels]
  <2>1. \A o \in PlatformOrders : Reliable({label[o]}) \subseteq Labels
    BY DEF AssignInv, AssignTypeOK, Reliable
  <2>2. request[r].evidence \in [PlatformOrders -> SUBSET Labels]
    BY <1>1 DEF Request
  <2> QED  BY <2>1, <2>2 DEF Merged
<1>3. /\ q \in Request
      /\ q.at = AfterService(p) /\ q.orders = request[r].orders /\ q.seen = request[r].seen
      /\ q.evidence = Merged(r, p) /\ q.local = request[r].local /\ q.deaf = request[r].deaf
  BY <1>1, <1>2 DEF Request, Stage, AfterService
<1>4. request' = [request EXCEPT ![r] = q] /\ UNCHANGED <<label, audited, approved, holder, events>>
  BY DEF ServiceAnswers
<1> HIDE DEF q
<1>5. p \notin request[r].deaf /\ AsksInTurn(q)
  BY <1>1, <1>3 DEF RequestInv, AsksInTurn, Later, AfterService, Request
<1>6. SeesLabels(q)
  BY <1>1, <1>3 DEF RequestInv, SeesLabels
<1>7. q.orders \subseteq PlatformOrders /\ \A o \in PlatformOrders : PlatformOf[o] \in {"temu", "shein"}
  BY <1>1, <1>3, CodesAssumption DEF Request
<1>8. EvidenceIsKnown(q)
  <2>1. ASSUME NEW o \in q.orders
        PROVE  q.evidence[o] \subseteq IF q.at \in Later(PlatformOf[o]) /\ PlatformOf[o] \notin q.deaf
                                       THEN Reliable(q.seen[o]) ELSE q.local[o]
    <3>1. CASE PlatformOf[o] = p
      <4>1. q.evidence[o] = Reliable({label[o]})
        BY <1>3, <1>7, <3>1 DEF Merged
      <4>2. q.at \in Later(p) /\ p \notin q.deaf
        BY <1>3, <1>5 DEF Later, AfterService
      <4>3. label[o] \in q.seen[o]
        BY <1>3, <1>6 DEF SeesLabels, AfterService
      <4>4. q.evidence[o] \subseteq Reliable(q.seen[o])
        BY <4>1, <4>3 DEF Reliable
      <4> QED  BY <3>1, <4>2, <4>4
    <3>2. CASE PlatformOf[o] # p
      <4>1. q.evidence[o] = request[r].evidence[o]
        BY <1>3, <1>7, <3>2 DEF Merged
      <4>2. q.at \in Later(PlatformOf[o]) <=> request[r].at \in Later(PlatformOf[o])
        BY <1>1, <1>3, <1>7, <3>2 DEF Later, AfterService
      <4> QED  BY <1>1, <1>3, <4>1, <4>2 DEF RequestInv, EvidenceIsKnown
    <3> QED  BY <3>1, <3>2
  <2>2. \A o \in q.orders : q.local[o] = Reliable(q.local[o])
    BY <1>1, <1>3 DEF RequestInv, EvidenceIsKnown
  <2> QED  BY <2>1, <2>2 DEF EvidenceIsKnown
<1>9. RequestInv(q)
  BY <1>3, <1>5, <1>6, <1>8 DEF RequestInv, ReadyIsEmpty, BatchIsSettled, AfterService
<1>10. request' \in [Assignments -> Request] /\ RequestsFit'
  BY <1>3, <1>4, <1>9, RequestMoves
<1> QED  BY <1>4, <1>10, OnlyRequestMoves DEF AssignInv, AssignTypeOK

LEMMA FailsKeep ==
  ASSUME AssignInv, NEW r \in Assignments, NEW p \in {"temu", "shein"}, ServiceFails(r, p)
  PROVE  AssignInv'
<1> DEFINE q == [request[r] EXCEPT !.at = AfterService(p), !.deaf = @ \cup {p}]
<1>1. request[r] \in Request /\ RequestInv(request[r]) /\ request[r].at = p
  BY DEF AssignInv, RequestsFit, AssignTypeOK, ServiceFails
<1>2. CASE Answer(r)
  BY <1>2, AnswerMoves, OnlyRequestMoves DEF ServiceFails, AssignInv, AssignTypeOK
<1>3. CASE request' = [request EXCEPT ![r] = q] /\ UNCHANGED holder
  <2>1. /\ q \in Request
        /\ q.at = AfterService(p) /\ q.orders = request[r].orders /\ q.seen = request[r].seen
        /\ q.evidence = request[r].evidence /\ q.local = request[r].local /\ q.deaf = request[r].deaf \cup {p}
    BY <1>1 DEF Request, Stage, AfterService
  <2>2. UNCHANGED <<label, audited, approved, events>>
    BY DEF ServiceFails
  <2> HIDE DEF q
  <2>3. AsksInTurn(q)
    BY <1>1, <2>1 DEF RequestInv, AsksInTurn, Later, AfterService, Request
  <2>4. SeesLabels(q)
    BY <1>1, <2>1 DEF RequestInv, SeesLabels
  <2>5. q.orders \subseteq PlatformOrders /\ \A o \in PlatformOrders : PlatformOf[o] \in {"temu", "shein"}
    BY <1>1, <2>1, CodesAssumption DEF Request
  <2>6. EvidenceIsKnown(q)
    <3>1. ASSUME NEW o \in q.orders
          PROVE  (q.at \in Later(PlatformOf[o]) /\ PlatformOf[o] \notin q.deaf)
                   <=> (request[r].at \in Later(PlatformOf[o]) /\ PlatformOf[o] \notin request[r].deaf)
      BY <1>1, <2>1, <2>5 DEF Later, AfterService
    <3> QED  BY <1>1, <2>1, <3>1 DEF RequestInv, EvidenceIsKnown
  <2>7. RequestInv(q)
    BY <2>1, <2>3, <2>4, <2>6 DEF RequestInv, ReadyIsEmpty, BatchIsSettled, AfterService
  <2>8. request' \in [Assignments -> Request] /\ RequestsFit'
    BY <1>3, <2>1, <2>2, <2>7, RequestMoves
  <2> QED  BY <1>3, <2>2, <2>8, OnlyRequestMoves DEF AssignInv, AssignTypeOK
<1> QED  BY <1>2, <1>3 DEF ServiceFails

LEMMA LookUpKeeps ==
  ASSUME AssignInv, NEW r \in Assignments, LookUp(r) \/ ResolveRoutes(r)
  PROVE  AssignInv'
<1> PICK step \in {"routes", "assign"}, remain \in SUBSET PlatformOrders :
      /\ request' = [request EXCEPT ![r].at = step, ![r].left = remain]
      /\ step = "assign" => remain = request[r].orders /\ \A o \in remain : Agreed(request[r].evidence[o])
      /\ request[r].at \in {"pending", "routes"}
      /\ UNCHANGED <<label, audited, approved, holder, events>>
  <2>1. request[r] \in Request
    BY DEF AssignInv, AssignTypeOK
  <2>2. request[r].left \in SUBSET PlatformOrders /\ request[r].orders \in SUBSET PlatformOrders
    BY <2>1 DEF Request
  <2>3. CASE LookUp(r)
    <3>1. [request EXCEPT ![r].at = "routes"] = [request EXCEPT ![r].at = "routes", ![r].left = request[r].left]
      BY <2>1 DEF AssignInv, AssignTypeOK, Request
    <3> QED  BY <2>2, <2>3, <3>1 DEF LookUp
  <2>4. CASE ResolveRoutes(r)
    BY <2>2, <2>4 DEF ResolveRoutes
  <2> QED  BY <2>3, <2>4
<1> DEFINE q == [request[r] EXCEPT !.at = step, !.left = remain]
<1>1. request[r] \in Request /\ RequestInv(request[r])
  BY DEF AssignInv, RequestsFit, AssignTypeOK
<1>2. /\ q \in Request
      /\ q.at = step /\ q.orders = request[r].orders /\ q.seen = request[r].seen /\ q.left = remain
      /\ q.evidence = request[r].evidence /\ q.local = request[r].local /\ q.deaf = request[r].deaf
  BY <1>1 DEF Request, Stage
<1>3. request' = [request EXCEPT ![r] = q]
  OBVIOUS
<1> HIDE DEF q
<1>4. \A p \in {"temu", "shein"} : q.at \in Later(p) /\ request[r].at \in Later(p)
  BY <1>2 DEF Later
<1>5. q.orders \subseteq PlatformOrders /\ q.deaf \subseteq {"temu", "shein"}
      /\ \A o \in PlatformOrders : PlatformOf[o] \in {"temu", "shein"}
  BY <1>1, <1>2, CodesAssumption DEF Request
<1>6. AsksInTurn(q) /\ EvidenceIsKnown(q)
  BY <1>1, <1>2, <1>4, <1>5 DEF RequestInv, AsksInTurn, EvidenceIsKnown
<1>7. SeesLabels(q) /\ BatchIsSettled(q) /\ ReadyIsEmpty(q)
  BY <1>1, <1>2 DEF RequestInv, SeesLabels, BatchIsSettled, ReadyIsEmpty
<1>8. request' \in [Assignments -> Request] /\ RequestsFit'
  BY <1>2, <1>3, <1>6, <1>7, RequestMoves DEF RequestInv
<1> QED  BY <1>8, OnlyRequestMoves DEF AssignInv, AssignTypeOK

(* The evidence of an order of a settled batch names one warehouse, which is the one it goes to. *)
LEMMA AgreedNames ==
  ASSUME NEW evidence, Agreed(evidence)
  PROVE  /\ WarehouseFor(evidence) \in WarehouseCodes
         /\ \E l \in evidence : l.wh = WarehouseFor(evidence) /\ CarrierAllowed(l.wh, l.carrier)
<1>1. PICK wh \in WarehouseCodes : {l.wh : l \in evidence} = {wh}
  BY DEF Agreed
<1>2. WarehouseFor(evidence) \in WarehouseCodes /\ {l.wh : l \in evidence} = {WarehouseFor(evidence)}
  BY <1>1 DEF WarehouseFor
<1>3. PICK l \in evidence : l.wh = WarehouseFor(evidence)
  BY <1>2
<1> QED  BY <1>2, <1>3 DEF Agreed

(* What one call to the OMS may do: approve orders of the batch where their evidence says. *)
LEMMA GroupsApproved ==
  ASSUME AssignInv, NEW r \in Assignments, AssignGroup(r)
  PROVE  /\ approved' \in [PlatformOrders -> WarehouseCodes \cup {NoCode}]
         /\ \A o \in PlatformOrders : approved'[o] # approved[o] =>
              o \in request[r].orders /\ approved'[o] = WarehouseFor(request[r].evidence[o])
<1> DEFINE codes == {WarehouseFor(request[r].evidence[o]) : o \in request[r].left}
           next == CHOOSE wh \in codes : \A other \in codes : wh <= other
<1>1. request[r] \in Request /\ RequestInv(request[r]) /\ request[r].at = "assign"
  BY DEF AssignInv, RequestsFit, AssignTypeOK, AssignGroup
<1>2. PICK done \in SUBSET {o \in Group(r, next) : approved[o] = NoCode} :
        approved' = [o \in PlatformOrders |-> IF o \in done THEN next ELSE approved[o]]
  BY DEF AssignGroup, ApprovedBy
<1>3. \A o \in done : o \in request[r].left /\ WarehouseFor(request[r].evidence[o]) = next
  BY <1>2 DEF Group
<1> HIDE DEF next
<1>4. \A o \in request[r].left : o \in request[r].orders /\ Agreed(request[r].evidence[o])
  BY <1>1 DEF RequestInv, BatchIsSettled
<1>5. \A o \in done : o \in request[r].orders /\ next \in WarehouseCodes
  BY <1>3, <1>4, AgreedNames
<1>6. approved' \in [PlatformOrders -> WarehouseCodes \cup {NoCode}]
  BY <1>2, <1>5 DEF AssignInv, AssignTypeOK
<1>7. \A o \in PlatformOrders : approved'[o] = IF o \in done THEN next ELSE approved[o]
  BY <1>2
<1> QED  BY <1>3, <1>5, <1>6, <1>7

LEMMA GroupKeeps ==
  ASSUME AssignInv, NEW r \in Assignments, AssignGroup(r)
  PROVE  AssignInv'
<1>1. approved' \in [PlatformOrders -> WarehouseCodes \cup {NoCode}]
  BY GroupsApproved
<1>2. CASE Answer(r)
  BY <1>1, <1>2, AnswerMoves, OnlyRequestMoves DEF AssignGroup
<1>3. ASSUME NEW remain \in SUBSET request[r].left, request' = [request EXCEPT ![r].left = remain], UNCHANGED holder
      PROVE  AssignInv'
  <2> DEFINE q == [request[r] EXCEPT !.left = remain]
  <2>1. request[r] \in Request /\ RequestInv(request[r]) /\ request[r].at = "assign"
    BY DEF AssignInv, RequestsFit, AssignTypeOK, AssignGroup
  <2>2. /\ q \in Request
        /\ q.at = "assign" /\ q.orders = request[r].orders /\ q.seen = request[r].seen /\ q.left = remain
        /\ q.evidence = request[r].evidence /\ q.local = request[r].local /\ q.deaf = request[r].deaf
    BY <2>1, <1>3 DEF Request
  <2>3. request' = [request EXCEPT ![r] = q] /\ UNCHANGED <<label, audited, events>>
    BY <1>3 DEF AssignGroup
  <2> HIDE DEF q
  <2>4. RequestInv(q)
    BY <1>3, <2>1, <2>2
       DEF RequestInv, ReadyIsEmpty, SeesLabels, AsksInTurn, EvidenceIsKnown, BatchIsSettled
  <2>5. request' \in [Assignments -> Request] /\ RequestsFit'
    BY <2>2, <2>3, <2>4, RequestMoves
  <2> QED  BY <1>1, <1>3, <2>3, <2>5, OnlyRequestMoves DEF AssignInv, AssignTypeOK
<1> QED
  <2>1. \/ Answer(r)
        \/ \E remain \in SUBSET request[r].left : request' = [request EXCEPT ![r].left = remain] /\ UNCHANGED holder
    <3> DEFINE codes == {WarehouseFor(request[r].evidence[o]) : o \in request[r].left}
               next == CHOOSE wh \in codes : \A other \in codes : wh <= other
    <3>1. \/ Answer(r)
          \/ request' = [request EXCEPT ![r].left = @ \ Group(r, next)] /\ UNCHANGED holder
      BY DEF AssignGroup
    <3> HIDE DEF next
    <3>2. request[r].left \ Group(r, next) \in SUBSET request[r].left
      OBVIOUS
    <3> QED  BY <3>1, <3>2
  <2> QED  BY <1>2, <1>3, <2>1

(* A new label is seen by the requests under way, which lose nothing of what they have seen. *)
LEMMA RelabelKeeps ==
  ASSUME AssignInv, NEW o \in PlatformOrders, NEW l \in Labels \cup {NoLabel}, Relabel(o, l)
  PROVE  AssignInv'
<1>1. label' = [label EXCEPT ![o] = l] /\ label' \in [PlatformOrders -> Labels \cup {NoLabel}]
  BY DEF Relabel, AssignInv, AssignTypeOK
<1>2. ASSUME NEW r \in Assignments
      PROVE  /\ request'[r] \in Request
             /\ \A f \in {"at", "orders", "evidence", "left", "deaf", "local"} : request'[r][f] = request[r][f]
             /\ \A v \in PlatformOrders :
                  request'[r].seen[v] = request[r].seen[v] \cup (IF v = o /\ o \in request[r].orders THEN {l} ELSE {})
             /\ request[r].orders = {} => request'[r] = request[r]
  <2>1. request'[r] = IF o \in request[r].orders THEN [request[r] EXCEPT !.seen[o] = @ \cup {l}] ELSE request[r]
    BY DEF Relabel
  <2>2. request[r] \in Request
    BY DEF AssignInv, AssignTypeOK
  <2> QED  BY <2>1, <2>2 DEF Request
<1>3. ASSUME NEW r \in Assignments PROVE RequestInv(request[r])'
  <2>1. RequestInv(request[r]) /\ request[r] \in Request
    BY DEF AssignInv, RequestsFit, AssignTypeOK
  <2>2. request[r].orders \subseteq PlatformOrders
    BY <2>1 DEF Request
  <2>3. (ReadyIsEmpty(request[r]) /\ AsksInTurn(request[r]) /\ BatchIsSettled(request[r]))'
    BY <1>2, <2>1 DEF RequestInv, ReadyIsEmpty, AsksInTurn, BatchIsSettled, Ready
  <2>4. SeesLabels(request[r])'
    BY <1>1, <1>2, <2>1, <2>2 DEF RequestInv, SeesLabels, AssignInv, AssignTypeOK
  <2>5. \A v \in request[r].orders : Reliable(request[r].seen[v]) \subseteq Reliable(request'[r].seen[v])
    BY <1>2, <2>2 DEF Reliable
  <2>6. EvidenceIsKnown(request[r])'
    BY <1>2, <2>1, <2>5 DEF RequestInv, EvidenceIsKnown
  <2> QED  BY <2>3, <2>4, <2>6 DEF RequestInv
<1>4. request' \in [Assignments -> Request]
  BY <1>2 DEF Relabel
<1>5. RequestsFit'
  BY <1>3 DEF RequestsFit, RequestInv, ReadyIsEmpty, SeesLabels, AsksInTurn, EvidenceIsKnown, BatchIsSettled
<1> QED  BY <1>1, <1>4, <1>5, CodesAssumption DEF Relabel, Meanwhile, AssignInv, AssignTypeOK

LEMMA StepAssigned == AssignInv /\ [AssignNext]_assignVars => AssignInv'
<1> SUFFICES ASSUME AssignInv, [AssignNext]_assignVars PROVE AssignInv'
  OBVIOUS
<1>1. ASSUME NEW r \in Assignments, GiveUpAssignment(r) PROVE AssignInv'
  BY <1>1, AnswerMoves, OnlyRequestMoves DEF GiveUpAssignment, AssignInv, AssignTypeOK
<1>2. ASSUME NEW o \in PlatformOrders, Reaudit(o) PROVE AssignInv'
  <2>1. audited' \in [PlatformOrders -> SUBSET Labels]
    BY <1>2 DEF Reaudit, AssignInv, AssignTypeOK
  <2>2. RequestsFit'
    BY <1>2 DEF Reaudit, AssignInv, RequestsFit, RequestInv, ReadyIsEmpty, SeesLabels, AsksInTurn,
                EvidenceIsKnown, BatchIsSettled
  <2> QED  BY <1>2, <2>1, <2>2, CodesAssumption DEF Reaudit, Meanwhile, AssignInv, AssignTypeOK
<1>3. ASSUME NEW o \in PlatformOrders, NEW wh \in WarehouseCodes, ApproveByHand(o, wh) PROVE AssignInv'
  <2>1. RequestsFit'
    BY <1>3 DEF ApproveByHand, AssignInv, RequestsFit, RequestInv, ReadyIsEmpty, SeesLabels, AsksInTurn,
                EvidenceIsKnown, BatchIsSettled
  <2> QED  BY <1>3, <2>1, CodesAssumption DEF ApproveByHand, Meanwhile, AssignInv, AssignTypeOK
<1>4. CASE UNCHANGED assignVars
  BY <1>4 DEF assignVars, AssignInv, AssignTypeOK, RequestsFit, RequestInv, ReadyIsEmpty, SeesLabels,
              AsksInTurn, EvidenceIsKnown, BatchIsSettled
<1> QED
  BY <1>1, <1>2, <1>3, <1>4, BeginKeeps, ReadAuditsKeeps, AnswersKeep, FailsKeep, LookUpKeeps, GroupKeeps,
     RelabelKeeps DEF AssignNext

(* The labels, the audits, the OMS and the requests have their types in every behaviour. *)
THEOREM AssignmentTyped == AssignSpec => []AssignTypeOK
<1>1. AssignInv => AssignTypeOK
  BY DEF AssignInv
<1> QED  BY <1>1, InitAssigned, StepAssigned, PTL DEF AssignSpec

(* Every order of a settled batch has a label for the warehouse its evidence names. *)
LEMMA SettledIsFounded ==
  ASSUME AssignInv, NEW r \in Assignments, request[r].at = "assign", NEW o \in request[r].orders
  PROVE  /\ WarehouseFor(request[r].evidence[o]) \in WarehouseCodes
         /\ Founded(r, o, WarehouseFor(request[r].evidence[o]))
<1>1. request[r] \in Request /\ RequestInv(request[r])
  BY DEF AssignInv, RequestsFit, AssignTypeOK
<1>2. Agreed(request[r].evidence[o])
  BY <1>1 DEF RequestInv, BatchIsSettled
<1> DEFINE wh == WarehouseFor(request[r].evidence[o])
<1>3. wh \in WarehouseCodes
  BY <1>2, AgreedNames
<1>4. PICK l \in request[r].evidence[o] : l.wh = wh /\ CarrierAllowed(l.wh, l.carrier)
  BY <1>2, AgreedNames
<1>5. request[r].at \in Later(PlatformOf[o])
  BY <1>1, CodesAssumption DEF Request, Later
<1>6. l \in Reliable(IF PlatformOf[o] \in request[r].deaf THEN request[r].local[o] ELSE request[r].seen[o])
  BY <1>1, <1>4, <1>5 DEF RequestInv, EvidenceIsKnown
<1> HIDE DEF wh
<1>7. Founded(r, o, wh)
  BY <1>4, <1>6 DEF Founded
<1> QED  BY <1>3, <1>7 DEF wh

(* A request approves an order only where a label says that was bought by the time the request *)
(* asked, or where the audits say when the service could not be asked, and it approves none    *)
(* unless every order of the request is settled; whatever changes meanwhile.                   *)
THEOREM AssignedAreFounded == AssignSpec => AssignedByEvidence
<1> DEFINE ByEvidence ==
      \A r \in Assignments, o \in PlatformOrders : Approves(r, o) =>
        /\ Founded(r, o, approved'[o])
        /\ \A other \in request[r].orders : \E wh \in WarehouseCodes : Founded(r, other, wh)
<1>1. AssignInv /\ [AssignNext]_assignVars => ByEvidence
  <2> SUFFICES ASSUME AssignInv, [AssignNext]_assignVars, NEW r \in Assignments, NEW o \in PlatformOrders,
                      Approves(r, o)
               PROVE  /\ Founded(r, o, approved'[o])
                      /\ \A other \in request[r].orders : \E wh \in WarehouseCodes : Founded(r, other, wh)
    OBVIOUS
  <2>1. approved'[o] # approved[o] /\ request'[r] # request[r] /\ request[r].at = "assign"
    BY DEF Approves
  <2>2. PICK v \in Assignments : AssignGroup(v)
    <3>1. approved' # approved /\ request' # request
      BY <2>1
    <3> QED  BY <3>1 DEF AssignNext, Begin, ServiceAnswers, ServiceFails, ReadAudits, LookUp, ResolveRoutes,
                         GiveUpAssignment, Relabel, Reaudit, ApproveByHand, assignVars
  <2>3. v = r
    <3>1. \A w \in Assignments \ {v} : request'[w] = request[w]
      BY <2>2 DEF AssignGroup, Answer, AssignInv, AssignTypeOK
    <3> QED  BY <2>1, <3>1
  <2>4. o \in request[r].orders /\ approved'[o] = WarehouseFor(request[r].evidence[o])
    BY <2>1, <2>2, <2>3, GroupsApproved
  <2> QED  BY <2>1, <2>4, SettledIsFounded
<1>2. AssignSpec => []AssignInv
  BY InitAssigned, StepAssigned, PTL DEF AssignSpec
<1> QED  BY <1>1, <1>2, PTL DEF AssignSpec, AssignedByEvidence

--------------------------------------------------------------------------------
(* The loop of the planner never stops before the last unit *)

LEMMA LexTotal ==
  ASSUME NEW n \in Nat, NEW a \in [1 .. n -> Int], NEW b \in [1 .. n -> Int], a # b
  PROVE  LexLess(a, b) \/ LexLess(b, a)
<1> DEFINE D == {i \in 1 .. n : a[i] # b[i]}
           rank == [i \in D |-> n - i]
<1>1. D # {}
  OBVIOUS
<1>2. IsFiniteSet(D)
  BY FS_Interval, FS_Subset
<1>3. rank \in [D -> Nat] /\ \A i \in D : rank[i] = n - i
  OBVIOUS
<1>4. PICK i \in D : \A j \in D : rank[j] <= rank[i]
  <2> HIDE DEF D, rank
  <2> QED  BY <1>1, <1>2, <1>3, HighestOf
<1>5. \A j \in 1 .. n : j < i => a[j] = b[j]
  BY <1>3, <1>4
<1>6. i \in 1 .. n /\ (a[i] < b[i] \/ b[i] < a[i])
  BY <1>4
<1> QED  BY <1>5, <1>6 DEF LexLess

LEMMA LexTransitive ==
  ASSUME NEW n \in Nat, NEW a \in [1 .. n -> Int], NEW b \in [1 .. n -> Int], NEW c \in [1 .. n -> Int],
         LexLess(a, b), LexLess(b, c)
  PROVE  LexLess(a, c)
<1>1. PICK i \in 1 .. n : a[i] < b[i] /\ \A j \in 1 .. n : j < i => a[j] = b[j]
  BY DEF LexLess
<1>2. PICK k \in 1 .. n : b[k] < c[k] /\ \A j \in 1 .. n : j < k => b[j] = c[j]
  BY DEF LexLess
<1>3. CASE i <= k
  <2>1. b[i] <= c[i] /\ \A j \in 1 .. n : j < i => a[j] = c[j]
    BY <1>1, <1>2, <1>3
  <2>2. a[i] < c[i]
    BY <1>1, <2>1
  <2> QED  BY <2>1, <2>2 DEF LexLess
<1>4. CASE k < i
  <2>1. a[k] = b[k] /\ \A j \in 1 .. n : j < k => a[j] = c[j]
    BY <1>1, <1>2, <1>4
  <2> QED  BY <1>2, <2>1 DEF LexLess
<1> QED  BY <1>3, <1>4

(* Of finitely many things with different keys one comes first. *)
LEMMA LexFirst ==
  ASSUME NEW S, IsFiniteSet(S), S # {}, NEW n \in Nat, NEW key \in [S -> [1 .. n -> Int]],
         \A x, y \in S : x # y => key[x] # key[y]
  PROVE  \E x \in S : \A y \in S \ {x} : LexLess(key[x], key[y])
<1> DEFINE Before(x) == {y \in S : LexLess(key[y], key[x])}
           B == {Before(x) : x \in S}
<1>1. PICK A \in B : \A C \in B : C \subseteq A => C = A
  <2>1. B \subseteq SUBSET S
    <3>1. \A x \in S : Before(x) \subseteq S
      OBVIOUS
    <3> QED  BY <3>1
  <2>2. B # {}
    <3>1. PICK x : x \in S
      OBVIOUS
    <3>2. Before(x) \in B
      BY <3>1
    <3> QED  BY <3>2
  <2> HIDE DEF B
  <2> QED  BY <2>1, <2>2, SmallestSubset
<1>2. PICK x \in S : A = Before(x)
  OBVIOUS
<1>3. ASSUME NEW y \in S \ {x}, ~LexLess(key[x], key[y]) PROVE FALSE
  <2>1. LexLess(key[y], key[x])
    BY <1>3, LexTotal
  <2>2. ~LexLess(key[y], key[y])
    BY DEF LexLess
  <2>3. Before(y) \subseteq Before(x)
    <3> SUFFICES ASSUME NEW z \in S, LexLess(key[z], key[y]) PROVE LexLess(key[z], key[x])
      OBVIOUS
    <3>1. key[z] \in [1 .. n -> Int] /\ key[y] \in [1 .. n -> Int] /\ key[x] \in [1 .. n -> Int]
      OBVIOUS
    <3> QED  BY <2>1, <3>1, LexTransitive
  <2>4. Before(y) \in B /\ y \in Before(x) /\ y \notin Before(y)
    BY <2>1, <2>2
  <2> HIDE DEF Before, B
  <2> QED  BY <1>1, <1>2, <2>3, <2>4
<1> QED  BY <1>3

LEMMA VolumeIsInt ==
  ASSUME NEW box, box.l \in Nat, box.w \in Nat, box.h \in Nat
  PROVE  Volume(box) \in Int
BY DEF Volume

LEMMA SortKeys ==
  ASSUME NEW u \in Unit
  PROVE  /\ SortKey(u) \in [1 .. 4 -> Int]
         /\ \A v \in Unit : SortKey(u) = SortKey(v) => u = v
<1>1. PICK S \in SUBSET Skus : Specs \in [S -> UnitSpec]
  BY PackingAssumption
<1>2. SpecOf(u) \in UnitSpec /\ u[1] \in Nat /\ u[2] \in Nat
  <2>1. SpecOf(u) \in UnitSpec
    BY UnitSpecs
  <2>2. DOMAIN Specs \subseteq Nat /\ MaxUnits \in Nat
    BY <1>1, PackingAssumption
  <2> QED  BY <2>1, <2>2 DEF Unit
<1>3. Volume(SpecOf(u)) \in Int /\ SpecOf(u).weight \in Int
  BY <1>2, VolumeIsInt DEF UnitSpec
<1>4. SortKey(u) \in [1 .. 4 -> Int]
  <2> DEFINE v == Volume(SpecOf(u))
             g == SpecOf(u).weight
  <2>1. v \in Int /\ g \in Int
    BY <1>3
  <2> HIDE DEF v, g
  <2>2. <<-v, -g, u[1], u[2]>> \in [1 .. 4 -> Int]
    BY <1>2, <2>1
  <2> QED  BY <2>2 DEF SortKey, v, g
<1>5. ASSUME NEW v \in Unit, SortKey(u) = SortKey(v) PROVE u = v
  <2>1. u[1] = v[1] /\ u[2] = v[2]
    BY <1>5 DEF SortKey
  <2> QED  BY <2>1 DEF Unit
<1> QED  BY <1>4, <1>5

(* The units of a request and those placed so far are finitely many. *)
PackFinite ==
  /\ IsFiniteSet(left)
  /\ \A i \in DOMAIN packages : IsFiniteSet(packages[i].placed)

LEMMA UnitsAreFinite ==
  ASSUME NEW quantity \in Requests
  PROVE  IsFiniteSet(UnitsOf(quantity))
<1> DEFINE asked == {sku \in Skus : quantity[sku] > 0}
<1>1. IsFiniteSet(asked) /\ quantity \in [Skus -> Nat] /\ MaxUnits \in Nat
  BY PackingAssumption
<1>2. DOMAIN Specs \subseteq Skus
  BY PackingAssumption
<1>3. UnitsOf(quantity) \subseteq asked \X (1 .. MaxUnits)
  BY <1>1, <1>2 DEF UnitsOf, Unit
<1>4. IsFiniteSet(asked \X (1 .. MaxUnits))
  <2>1. IsFiniteSet(1 .. MaxUnits)
    BY <1>1, FS_Interval
  <2> HIDE DEF asked
  <2> QED  BY <1>1, <2>1, FS_Product
<1> QED  BY <1>3, <1>4, FS_Subset

LEMMA PackFiniteInit == PackInit => PackFinite
BY FS_EmptySet DEF PackInit, PackFinite

LEMMA PackFiniteNext == PackInv /\ PackFinite /\ [PackNext]_packVars => PackFinite'
<1> SUFFICES ASSUME PackInv, PackFinite, [PackNext]_packVars PROVE PackFinite'
  OBVIOUS
<1>1. CASE \E quantity \in Requests : Submit(quantity)
  BY <1>1, UnitsAreFinite DEF Submit, PackFinite
<1>2. CASE (\E quantity \in Requests : Refuse(quantity)) \/ UNCHANGED packVars
  BY <1>2 DEF Refuse, packVars, PackFinite
<1>3. ASSUME NEW u \in Unit, Pack(u) PROVE PackFinite'
  <2>1. IsFiniteSet(left')
    BY <1>3, FS_RemoveElement DEF Pack, PackFinite
  <2>2. CASE Place(u)
    <3>1. PICK c \in Candidates(u) : packages' = [packages EXCEPT ![c[1]] = Grown(@, c[2])]
      BY <2>2 DEF Place
    <3> DEFINE old == packages[c[1]].placed
               q == c[2]
    <3>2. c[1] \in DOMAIN packages
      BY CandidateIsPlace DEF PackInv
    <3>3. IsFiniteSet(old \cup {q})
      BY <3>2, FS_AddElement DEF PackFinite
    <3>4. /\ DOMAIN packages' = DOMAIN packages
          /\ packages'[c[1]].placed = old \cup {q}
          /\ \A i \in DOMAIN packages \ {c[1]} : packages'[i] = packages[i]
      BY <3>1, <3>2 DEF Grown, PackInv, PackTypeOK
    <3> HIDE DEF old, q
    <3> QED  BY <2>1, <3>3, <3>4 DEF PackFinite
  <2>3. CASE OpenPackage(u)
    <3> DEFINE new == Grown(Empty, At(u, 0, 0, 0))
    <3>1. IsFiniteSet(new.placed)
      <4>1. new.placed = {At(u, 0, 0, 0)}
        BY DEF Grown, Empty
      <4> HIDE DEF new
      <4> QED  BY <4>1, FS_Singleton
    <3>2. packages' = Append(packages, new) /\ packages \in Seq(Package)
      BY <2>3 DEF OpenPackage, PackInv, PackTypeOK
    <3> HIDE DEF new
    <3>3. \A i \in DOMAIN packages' : packages'[i] = new \/ (i \in DOMAIN packages /\ packages'[i] = packages[i])
      BY <3>2
    <3> QED  BY <2>1, <3>1, <3>3 DEF PackFinite
  <2>4. CASE PutAside(u)
    BY <2>1, <2>4 DEF PutAside, PackFinite
  <2> QED  BY <1>3, <2>2, <2>3, <2>4 DEF Pack
<1> QED  BY <1>1, <1>2, <1>3 DEF PackNext

LEMMA CandidatesAreFinite ==
  ASSUME PackInv, PackFinite, NEW u \in Unit
  PROVE  IsFiniteSet(Candidates(u))
<1> DEFINE corners(i) == [p \in packages[i].placed |-> Corners(p, u)]
           offered == [i \in DOMAIN packages |-> {i} \X UNION {Corners(p, u) : p \in packages[i].placed}]
<1>1. ASSUME NEW i \in DOMAIN packages PROVE IsFiniteSet(offered[i])
  <2> DEFINE g == corners(i)
             P == packages[i].placed
  <2>1. IsFiniteSet(P)
    BY DEF PackFinite
  <2>2. ASSUME NEW p \in P PROVE IsFiniteSet(g[p])
    <3>1. g[p] = ({At(u, p.x + SpecOf(p.unit).l, p.y, p.z)} \cup {At(u, p.x, p.y + SpecOf(p.unit).h, p.z)})
                   \cup {At(u, p.x, p.y, p.z + SpecOf(p.unit).w)}
      BY DEF Corners
    <3>2. IsFiniteSet({At(u, p.x + SpecOf(p.unit).l, p.y, p.z)})
      BY FS_Singleton
    <3>3. IsFiniteSet({At(u, p.x + SpecOf(p.unit).l, p.y, p.z)} \cup {At(u, p.x, p.y + SpecOf(p.unit).h, p.z)})
      BY <3>2, FS_AddElement
    <3>4. IsFiniteSet(({At(u, p.x + SpecOf(p.unit).l, p.y, p.z)} \cup {At(u, p.x, p.y + SpecOf(p.unit).h, p.z)})
                        \cup {At(u, p.x, p.y, p.z + SpecOf(p.unit).w)})
      BY <3>3, FS_AddElement
    <3> QED  BY <3>1, <3>4
  <2>3. UNION {Corners(p, u) : p \in P} = UNION {g[p] : p \in P}
    OBVIOUS
  <2>4. IsFiniteSet(UNION {g[p] : p \in P})
    <3> HIDE DEF g, P
    <3> QED  BY <2>1, <2>2, FiniteUnionOf
  <2>5. IsFiniteSet(UNION {Corners(p, u) : p \in P})
    BY <2>3, <2>4
  <2> DEFINE U == UNION {Corners(p, u) : p \in P}
  <2>6. IsFiniteSet({i} \X U)
    <3> HIDE DEF U
    <3> QED  BY <2>5, FS_Singleton, FS_Product DEF U
  <2> QED  BY <2>6
<1>2. IsFiniteSet(DOMAIN packages)
  BY FS_Interval DEF PackInv, PackTypeOK
<1>3. IsFiniteSet(UNION {offered[i] : i \in DOMAIN packages})
  <2> HIDE DEF offered
  <2> QED  BY <1>1, <1>2, FiniteUnionOf
<1>4. Candidates(u) \subseteq UNION {offered[i] : i \in DOMAIN packages}
  BY DEF Candidates
<1> HIDE DEF offered
<1> QED  BY <1>3, <1>4, FS_Subset

LEMMA Preferences ==
  ASSUME PackInv, NEW u \in Unit, NEW c \in Candidates(u)
  PROVE  /\ Preference(c) \in [1 .. 7 -> Int]
         /\ \A d \in Candidates(u) : Preference(c) = Preference(d) => c = d
<1>0. \A d \in Candidates(u) : /\ d[1] \in DOMAIN packages /\ d[2] \in Placed /\ d[2].unit = u
                              /\ d = <<d[1], d[2]>>
  BY CandidateIsPlace DEF PackInv, Candidates
<1> DEFINE old == packages[c[1]]
           new == Grown(old, c[2])
<1>1. old \in Package /\ new \in Package /\ c[1] \in Int
  BY <1>0, GrownIsPackage DEF PackInv, PackTypeOK
<1>2. Volume(old) \in Int /\ Volume(new) \in Int /\ new.l + new.w + new.h \in Int
  BY <1>1, VolumeIsInt DEF Package
<1>3. c[2].x \in Int /\ c[2].y \in Int /\ c[2].z \in Int
  BY <1>0 DEF Placed
<1>4. Preference(c) \in [1 .. 7 -> Int]
  <2> DEFINE a == Volume(old)
             b == Volume(new)
             e == new.l + new.w + new.h
             x == c[2].x
             y == c[2].y
             z == c[2].z
             n == c[1]
  <2>1. a \in Int /\ b \in Int /\ e \in Int /\ x \in Int /\ y \in Int /\ z \in Int /\ n \in Int
    BY <1>1, <1>2, <1>3
  <2>2. Preference(c) = <<b - a, b, e, y, x, z, n>>
    BY DEF Preference
  <2> HIDE DEF a, b, e, x, y, z, n
  <2>3. <<b - a, b, e, y, x, z, n>> \in [1 .. 7 -> Int]
    BY <2>1
  <2> QED  BY <2>2, <2>3
<1>5. ASSUME NEW d \in Candidates(u), Preference(c) = Preference(d) PROVE c = d
  <2>1. c[2].y = d[2].y /\ c[2].x = d[2].x /\ c[2].z = d[2].z /\ c[1] = d[1]
    BY <1>5 DEF Preference
  <2>2. c[2] = d[2]
    BY <1>0, <2>1 DEF Placed
  <2> QED  BY <1>0, <2>1, <2>2
<1> QED  BY <1>4, <1>5

(* For every request the loop goes on to its end: of the units that are left one comes first, and *)
(* of the corners it fits at one is preferred to all the others (Build and betterCandidate).       *)
THEOREM PlanHasOneAnswer == PackSpec => []PlanGoesOn
<1>1. PackInv /\ PackFinite => PlanGoesOn
  <2> SUFFICES ASSUME PackInv, PackFinite, left # {}
               PROVE  \E u \in left : IsNext(u) /\ (Candidates(u) = {} \/
                        \E c \in Candidates(u) : \A d \in Candidates(u) \ {c} : LexLess(Preference(c), Preference(d)))
    BY DEF PlanGoesOn
  <2>1. \E u \in left : \A v \in left \ {u} : LexLess(SortKey(u), SortKey(v))
    <3> DEFINE key == [u \in left |-> SortKey(u)]
    <3>1. \A u \in left : u \in Unit
      BY DEF PackInv, PackTypeOK
    <3>2. key \in [left -> [1 .. 4 -> Int]] /\ \A u, v \in left : u # v => key[u] # key[v]
      BY <3>1, SortKeys
    <3>3. \E u \in left : \A v \in left \ {u} : LexLess(key[u], key[v])
      <4> HIDE DEF key
      <4> QED  BY <3>2, LexFirst DEF PackFinite
    <3> QED  BY <3>3
  <2>2. PICK u \in left : IsNext(u)
    BY <2>1 DEF IsNext
  <2>3. ASSUME Candidates(u) # {}
        PROVE  \E c \in Candidates(u) : \A d \in Candidates(u) \ {c} : LexLess(Preference(c), Preference(d))
    <3> DEFINE S == Candidates(u)
               key == [c \in S |-> Preference(c)]
    <3>0. u \in Unit
      BY DEF PackInv, PackTypeOK
    <3>1. IsFiniteSet(S)
      BY <3>0, CandidatesAreFinite
    <3>2. key \in [S -> [1 .. 7 -> Int]] /\ \A c, d \in S : c # d => key[c] # key[d]
      BY <3>0, Preferences
    <3>3. \E c \in S : \A d \in S \ {c} : LexLess(key[c], key[d])
      <4>1. S # {}
        BY <2>3
      <4> HIDE DEF key, S
      <4> QED  BY <3>1, <3>2, <4>1, LexFirst
    <3> QED  BY <3>3
  <2> QED  BY <2>2, <2>3
<1> QED
  BY <1>1, PackInitHolds, PackNextHolds, PackFiniteInit, PackFiniteNext, PTL DEF PackSpec

--------------------------------------------------------------------------------
(* Tracking: the two classifications are one, at every age of every row *)

Hour == Nat \cup {NoStart}

Row(p, k, r, e, c) == [packages |-> p, picked |-> k, reason |-> r, error |-> e, category |-> c]

Picked(p, k) == p > 0 /\ k >= p

(* What classifyTracking says of a row. *)
ReasonOf(picked, failed, age) ==
  IF picked THEN "" ELSE IF failed /\ GraceElapsed(age) THEN "pickup_failed"
  ELSE IF Overdue(age) THEN "pickup_overdue" ELSE IF failed THEN "pickup_failed" ELSE ""

CategoryOf(picked, error, failed, age) ==
  IF picked THEN "picked_up"
  ELSE IF (failed /\ GraceElapsed(age)) \/ Overdue(age) THEN "pickup_exception"
  ELSE IF error THEN "tracking_error" ELSE "awaiting_pickup"

(* The columns are written one after the other. *)
SetPackages(row, x) == [row EXCEPT !.packages = x]
SetPicked(row, x) == [row EXCEPT !.picked = x]
SetReason(row, x) == [row EXCEPT !.reason = x]
SetError(row, x) == [row EXCEPT !.error = x]
SetCategory(row, x) == [row EXCEPT !.category = x]

LEMMA SetRow ==
  ASSUME NEW p, NEW k, NEW r, NEW e, NEW c, NEW x
  PROVE  /\ SetPackages(Row(p, k, r, e, c), x) = Row(x, k, r, e, c)
         /\ SetPicked(Row(p, k, r, e, c), x) = Row(p, x, r, e, c)
         /\ SetReason(Row(p, k, r, e, c), x) = Row(p, k, x, e, c)
         /\ SetCategory(Row(p, k, r, e, c), x) = Row(p, k, r, e, x)
         /\ SetError(Row(p, k, r, e, c), x) = Row(p, k, r, x, c)
BY DEF Row, SetPackages, SetPicked, SetReason, SetCategory, SetError

LEMMA SetClass ==
  ASSUME NEW p, NEW k, NEW r, NEW e, NEW c, NEW x, NEW y
  PROVE  /\ SetReason(SetCategory(Row(p, k, r, e, c), x), y) = Row(p, k, y, e, x)
         /\ SetCategory(SetReason(Row(p, k, r, e, c), y), x) = Row(p, k, y, e, x)
BY SetRow

LEMMA ClassifiedRow ==
  ASSUME NEW p, NEW k, NEW r, NEW e, NEW c, NEW failed \in BOOLEAN, NEW age
  PROVE  Classified(Row(p, k, r, e, c), failed, age) =
           Row(p, k, ReasonOf(Picked(p, k), failed, age), e, CategoryOf(Picked(p, k), e, failed, age))
<1> DEFINE row == Row(p, k, r, e, c)
<1>1. AllPicked(row) = Picked(p, k) /\ row.error = e
  BY DEF AllPicked, Picked, Row
<1> HIDE DEF row
<1>2. CASE Picked(p, k)
  <2>1. Classified(row, failed, age) = SetReason(SetCategory(row, "picked_up"), "")
    BY <1>1, <1>2 DEF Classified, SetReason, SetCategory
  <2>2. SetReason(SetCategory(row, "picked_up"), "") = Row(p, k, "", e, "picked_up")
    <3>1. ASSUME NEW x, NEW y PROVE SetReason(SetCategory(row, x), y) = Row(p, k, y, e, x)
      BY SetClass DEF row
    <3> QED  BY <3>1, Zenon
  <2>3. ReasonOf(Picked(p, k), failed, age) = "" /\ CategoryOf(Picked(p, k), e, failed, age) = "picked_up"
    BY <1>2 DEF ReasonOf, CategoryOf
  <2> QED  BY <2>1, <2>2, <2>3 DEF row
<1>3. CASE ~Picked(p, k) /\ failed /\ GraceElapsed(age)
  <2>1. Classified(row, failed, age) = SetReason(SetCategory(row, "pickup_exception"), "pickup_failed")
    BY <1>1, <1>3 DEF Classified, SetReason, SetCategory
  <2>2. SetReason(SetCategory(row, "pickup_exception"), "pickup_failed") =
          Row(p, k, "pickup_failed", e, "pickup_exception")
    BY SetClass DEF row
  <2>3. /\ ReasonOf(Picked(p, k), failed, age) = "pickup_failed"
        /\ CategoryOf(Picked(p, k), e, failed, age) = "pickup_exception"
    BY <1>3 DEF ReasonOf, CategoryOf
  <2> QED  BY <2>1, <2>2, <2>3 DEF row
<1>4. CASE ~Picked(p, k) /\ ~(failed /\ GraceElapsed(age)) /\ Overdue(age)
  <2>1. Classified(row, failed, age) = SetReason(SetCategory(row, "pickup_exception"), "pickup_overdue")
    BY <1>1, <1>4 DEF Classified, SetReason, SetCategory
  <2>2. SetReason(SetCategory(row, "pickup_exception"), "pickup_overdue") =
          Row(p, k, "pickup_overdue", e, "pickup_exception")
    BY SetClass DEF row
  <2>3. /\ ReasonOf(Picked(p, k), failed, age) = "pickup_overdue"
        /\ CategoryOf(Picked(p, k), e, failed, age) = "pickup_exception"
    BY <1>4 DEF ReasonOf, CategoryOf
  <2> QED  BY <2>1, <2>2, <2>3 DEF row
<1>5. CASE ~Picked(p, k) /\ ~(failed /\ GraceElapsed(age)) /\ ~Overdue(age)
  <2> DEFINE x == IF e THEN "tracking_error" ELSE "awaiting_pickup"
             y == IF failed THEN "pickup_failed" ELSE ""
  <2>1. Classified(row, failed, age) =
          [row EXCEPT !.category = IF row.error THEN "tracking_error" ELSE "awaiting_pickup", !.reason = y]
    BY <1>1, <1>5 DEF Classified
  <2>2. (IF row.error THEN "tracking_error" ELSE "awaiting_pickup") = x
    BY <1>1
  <2>3. ReasonOf(Picked(p, k), failed, age) = y /\ CategoryOf(Picked(p, k), e, failed, age) = x
    BY <1>5 DEF ReasonOf, CategoryOf
  <2> HIDE DEF x, y
  <2>4. SetReason(SetCategory(row, x), y) = Row(p, k, y, e, x)
    BY SetClass DEF row
  <2>5. Classified(row, failed, age) = SetReason(SetCategory(row, x), y)
    BY <2>1, <2>2 DEF SetReason, SetCategory
  <2> QED  BY <2>3, <2>4, <2>5 DEF row
<1> QED  BY <1>2, <1>3, <1>4, <1>5 DEF row

LEMMA RefreshedRow ==
  ASSUME NEW p, NEW k, NEW r, NEW e, NEW c, NEW age \in Hour
  PROVE  Refreshed(Row(p, k, r, e, c), age) =
           Row(p, k, ReasonOf(Picked(p, k), r = "pickup_failed", age), e,
               CategoryOf(Picked(p, k), e, r = "pickup_failed", age))
<1> DEFINE row == Row(p, k, r, e, c)
           failed == r = "pickup_failed"
<1>0. Overdue(age) => GraceElapsed(age)
  BY DEF Overdue, GraceElapsed, Hour
<1>1. AllPicked(row) = Picked(p, k) /\ row.error = e /\ row.reason = r
  BY DEF AllPicked, Picked, Row
<1> HIDE DEF row
<1>3. RefreshedReason(row, age) = ReasonOf(Picked(p, k), failed, age)
  <2>1. CASE Picked(p, k)
    BY <1>1, <2>1 DEF RefreshedReason, ReasonOf
  <2>2. CASE ~Picked(p, k) /\ failed
    BY <1>0, <1>1, <2>2 DEF RefreshedReason, ReasonOf
  <2>3. CASE ~Picked(p, k) /\ ~failed /\ Overdue(age)
    BY <1>1, <2>3 DEF RefreshedReason, ReasonOf
  <2>4. CASE ~Picked(p, k) /\ ~failed /\ ~Overdue(age)
    BY <1>1, <2>4 DEF RefreshedReason, ReasonOf
  <2> QED  BY <2>1, <2>2, <2>3, <2>4
<1>4. RefreshedCategory(row, age) = CategoryOf(Picked(p, k), e, failed, age)
  <2>1. CASE Picked(p, k)
    BY <1>1, <2>1 DEF RefreshedCategory, CategoryOf
  <2>2. CASE ~Picked(p, k) /\ (Overdue(age) \/ (failed /\ GraceElapsed(age)))
    BY <1>1, <2>2 DEF RefreshedCategory, CategoryOf
  <2>3. CASE ~Picked(p, k) /\ ~(Overdue(age) \/ (failed /\ GraceElapsed(age)))
    BY <1>1, <2>3 DEF RefreshedCategory, CategoryOf
  <2> QED  BY <2>1, <2>2, <2>3
<1> DEFINE x == CategoryOf(Picked(p, k), e, failed, age)
           y == ReasonOf(Picked(p, k), failed, age)
<1>5. Refreshed(row, age) = SetCategory(SetReason(row, y), x)
  BY <1>3, <1>4 DEF Refreshed, SetCategory, SetReason
<1> HIDE DEF x, y
<1>6. SetCategory(SetReason(row, y), x) = Row(p, k, y, e, x)
  BY SetClass DEF row
<1> QED  BY <1>5, <1>6 DEF row, x, y, failed

(* What the last answer says of a row, or that there is none. *)
ResolvedAs(n, m, error, failed, age) ==
  Row(n, m, ReasonOf(Picked(n, m), failed, age), error, CategoryOf(Picked(n, m), error, failed, age))

Silent(n, m, failed, age) == ResolvedAs(n, m, TRUE, failed, age)

LEMMA NoAnswer ==
  ASSUME NEW p, NEW k, NEW r, NEW e, NEW c, NEW age,
         NEW failed \in BOOLEAN, failed <=> r = "pickup_failed"
  PROVE  Resolved(Row(p, k, r, e, c), NoReply, age) = Silent(p, k, failed, age)
<1> DEFINE row == Row(p, k, r, e, c)
<1>1. row.reason = r
  BY DEF Row
<1>2. SetError(row, TRUE) = Row(p, k, r, TRUE, c)
  <2>1. ASSUME NEW q PROVE SetError(row, q) = Row(p, k, r, q, c)
    BY SetRow
  <2> QED  BY <2>1, Zenon
<1> HIDE DEF row
<1>3. Resolved(row, NoReply, age) = Classified(SetError(row, TRUE), failed, age)
  BY <1>1 DEF Resolved, SetError
<1>4. Classified(Row(p, k, r, TRUE, c), failed, age) = ResolvedAs(p, k, TRUE, failed, age)
  <2>1. ASSUME NEW q
        PROVE  Classified(Row(p, k, r, q, c), failed, age) = ResolvedAs(p, k, q, failed, age)
    BY ClassifiedRow DEF ResolvedAs
  <2> QED  BY <2>1, Zenon
<1> QED  BY <1>2, <1>3, <1>4 DEF row, Silent

(* The answer alone decides. *)
LEMMA AnAnswer ==
  ASSUME NEW reply, reply # NoReply, NEW age
  PROVE  \E n, m : \E failed \in BOOLEAN : \A p, k, r, e, c :
           Resolved(Row(p, k, r, e, c), reply, age) = ResolvedAs(n, m, FALSE, failed, age)
<1> DEFINE n == Len(reply)
           m == Quantify(DOMAIN reply, LAMBDA i : PickedUp(reply[i]))
           failed == \E i \in DOMAIN reply : "pickup_failed" \in reply[i]
<1>1. ASSUME NEW row
      PROVE  Resolved(row, reply, age) = Classified([row EXCEPT !.error = FALSE, !.packages = n, !.picked = m], failed, age)
  BY DEF Resolved
<1>2. failed \in BOOLEAN
  OBVIOUS
<1> HIDE DEF n, m, failed
<1>3. ASSUME NEW p, NEW k, NEW r, NEW e, NEW c
      PROVE  Resolved(Row(p, k, r, e, c), reply, age) = ResolvedAs(n, m, FALSE, failed, age)
  <2> DEFINE row == Row(p, k, r, e, c)
  <2>1. SetPicked(SetPackages(SetError(row, FALSE), n), m) = Row(n, m, r, FALSE, c)
    <3>1. SetError(row, FALSE) = Row(p, k, r, FALSE, c)
      <4>1. ASSUME NEW q PROVE SetError(row, q) = Row(p, k, r, q, c)
        BY SetRow
      <4> QED  BY <4>1, Zenon
    <3>2. ASSUME NEW q PROVE SetPicked(SetPackages(Row(p, k, r, q, c), n), m) = Row(n, m, r, q, c)
      BY SetRow
    <3>3. SetPicked(SetPackages(Row(p, k, r, FALSE, c), n), m) = Row(n, m, r, FALSE, c)
      BY <3>2, Zenon
    <3> QED  BY <3>1, <3>3
  <2> HIDE DEF row
  <2>2. [row EXCEPT !.error = FALSE, !.packages = n, !.picked = m] = SetPicked(SetPackages(SetError(row, FALSE), n), m)
    BY DEF SetPicked, SetPackages, SetError
  <2>3. Resolved(row, reply, age) = Classified(Row(n, m, r, FALSE, c), failed, age)
    <3>1. Resolved(row, reply, age) = Classified([row EXCEPT !.error = FALSE, !.packages = n, !.picked = m], failed, age)
      BY <1>1
    <3> QED  BY <2>1, <2>2, <3>1
  <2>4. Classified(Row(n, m, r, FALSE, c), failed, age) = ResolvedAs(n, m, FALSE, failed, age)
    <3>1. ASSUME NEW q PROVE Classified(Row(n, m, r, q, c), failed, age) = ResolvedAs(n, m, q, failed, age)
      BY <1>2, ClassifiedRow DEF ResolvedAs
    <3> QED  BY <3>1, Zenon
  <2> QED  BY <2>3, <2>4 DEF row
<1> QED  BY <1>2, <1>3

(* Refreshing a row that was just classified changes nothing. *)
LEMMA RefreshKeeps ==
  ASSUME NEW n, NEW m, NEW error, NEW failed \in BOOLEAN, NEW age \in Hour
  PROVE  Refreshed(ResolvedAs(n, m, error, failed, age), age) = ResolvedAs(n, m, error, failed, age)
<1> DEFINE r == ReasonOf(Picked(n, m), failed, age)
           c == CategoryOf(Picked(n, m), error, failed, age)
           again == r = "pickup_failed"
<1>1. Overdue(age) => GraceElapsed(age)
  BY DEF Overdue, GraceElapsed, Hour
<1>2. Refreshed(Row(n, m, r, error, c), age) =
        Row(n, m, ReasonOf(Picked(n, m), again, age), error, CategoryOf(Picked(n, m), error, again, age))
  <2> HIDE DEF r, c
  <2> QED  BY RefreshedRow
<1>3. ReasonOf(Picked(n, m), again, age) = r
  BY <1>1 DEF ReasonOf
<1>4. CategoryOf(Picked(n, m), error, again, age) = c
  BY <1>1 DEF ReasonOf, CategoryOf
<1> QED  BY <1>2, <1>3, <1>4 DEF ResolvedAs

(* A row that was refreshed between two answers takes the second one like one that was not. *)
LEMMA RefreshBetween ==
  ASSUME NEW p, NEW k, NEW r, NEW e, NEW c, NEW later \in Hour, NEW reply
  PROVE  Resolved(Refreshed(Row(p, k, r, e, c), later), reply, later) = Resolved(Row(p, k, r, e, c), reply, later)
<1> DEFINE failed == r = "pickup_failed"
           rr == ReasonOf(Picked(p, k), failed, later)
           cc == CategoryOf(Picked(p, k), e, failed, later)
           again == rr = "pickup_failed"
<1>1. Refreshed(Row(p, k, r, e, c), later) = Row(p, k, rr, e, cc)
  BY RefreshedRow
<1>2. CASE reply = NoReply
  <2>1. Resolved(Row(p, k, rr, e, cc), NoReply, later) = Silent(p, k, again, later)
    <3>1. again \in BOOLEAN /\ (again <=> rr = "pickup_failed")
      OBVIOUS
    <3> HIDE DEF rr, cc, again
    <3> QED  BY <3>1, NoAnswer
  <2>2. Resolved(Row(p, k, r, e, c), NoReply, later) = Silent(p, k, failed, later)
    <3>1. failed \in BOOLEAN /\ (failed <=> r = "pickup_failed")
      OBVIOUS
    <3> HIDE DEF failed
    <3> QED  BY <3>1, NoAnswer
  <2>3. Overdue(later) => GraceElapsed(later)
    BY DEF Overdue, GraceElapsed, Hour
  <2>4. /\ ReasonOf(Picked(p, k), again, later) = ReasonOf(Picked(p, k), failed, later)
        /\ CategoryOf(Picked(p, k), TRUE, again, later) = CategoryOf(Picked(p, k), TRUE, failed, later)
    BY <2>3 DEF ReasonOf, CategoryOf
  <2>5. Silent(p, k, again, later) = Silent(p, k, failed, later)
    <3> HIDE DEF again, failed
    <3> QED  BY <2>4 DEF ResolvedAs, Silent
  <2> HIDE DEF rr, cc, again, failed
  <2> QED  BY <1>1, <1>2, <2>1, <2>2, <2>5
<1>3. CASE reply # NoReply
  <2>1. PICK n, m : \E f \in BOOLEAN : \A pp, kk, rr2, ee, cc2 :
          Resolved(Row(pp, kk, rr2, ee, cc2), reply, later) = ResolvedAs(n, m, FALSE, f, later)
    BY <1>3, AnAnswer
  <2> HIDE DEF rr, cc
  <2> QED  BY <1>1, <2>1
<1> QED  BY <1>2, <1>3

(* Without an answer the reason, and whether the pickup failed or succeeded, are what the refresh says. *)
LEMMA SilenceDecidesNothing ==
  ASSUME NEW p, NEW k, NEW r, NEW e, NEW c, NEW later \in Hour
  PROVE  LET then == Resolved(Row(p, k, r, e, c), NoReply, later)
             between == Refreshed(Row(p, k, r, e, c), later)
         IN /\ then.reason = between.reason
            /\ \A category \in {"pickup_exception", "picked_up"} :
                 (then.category = category) = (between.category = category)
<1> DEFINE failed == r = "pickup_failed"
           picked == Picked(p, k)
<1> HIDE DEF picked
<1>1. Resolved(Row(p, k, r, e, c), NoReply, later) =
        Row(p, k, ReasonOf(picked, failed, later), TRUE, CategoryOf(picked, TRUE, failed, later))
  <2>1. failed \in BOOLEAN /\ (failed <=> r = "pickup_failed")
    OBVIOUS
  <2> HIDE DEF failed
  <2>2. Resolved(Row(p, k, r, e, c), NoReply, later) = Silent(p, k, failed, later)
    BY <2>1, NoAnswer
  <2> QED  BY <2>2 DEF Silent, ResolvedAs, picked
<1>2. Refreshed(Row(p, k, r, e, c), later) =
        Row(p, k, ReasonOf(picked, failed, later), e, CategoryOf(picked, e, failed, later))
  BY RefreshedRow DEF picked
<1>3. \A category \in {"pickup_exception", "picked_up"} :
        (CategoryOf(picked, TRUE, failed, later) = category) = (CategoryOf(picked, e, failed, later) = category)
  BY DEF CategoryOf
<1>4. \A x, y, error : Row(p, k, x, error, y).reason = x /\ Row(p, k, x, error, y).category = y
  BY DEF Row
<1> DEFINE then == Resolved(Row(p, k, r, e, c), NoReply, later)
           between == Refreshed(Row(p, k, r, e, c), later)
           x == ReasonOf(picked, failed, later)
           y1 == CategoryOf(picked, TRUE, failed, later)
           y2 == CategoryOf(picked, e, failed, later)
<1>5. then.reason = x /\ then.category = y1
  <2> HIDE DEF x, y1
  <2>1. ASSUME NEW q PROVE Row(p, k, x, q, y1).reason = x /\ Row(p, k, x, q, y1).category = y1
    BY DEF Row
  <2>2. Row(p, k, x, TRUE, y1).reason = x /\ Row(p, k, x, TRUE, y1).category = y1
    BY <2>1, Zenon
  <2> QED  BY <1>1, <2>2 DEF x, y1
<1>6. between.reason = x /\ between.category = y2
  <2> HIDE DEF x, y2
  <2>1. Row(p, k, x, e, y2).reason = x /\ Row(p, k, x, e, y2).category = y2
    BY DEF Row
  <2> QED  BY <1>2, <2>1 DEF x, y2
<1> HIDE DEF then, between, x, y1, y2
<1>7. \A category \in {"pickup_exception", "picked_up"} : (y1 = category) = (y2 = category)
  BY <1>3 DEF y1, y2
<1>8. then.reason = between.reason /\ \A category \in {"pickup_exception", "picked_up"} :
        (then.category = category) = (between.category = category)
  BY <1>5, <1>6, <1>7
<1> QED  BY <1>8 DEF then, between

--------------------------------------------------------------------------------
(* A question is answered at most once, and stays what it is. *)

LEMMA OneAnswer ==
  ASSUME [Next]_algorithmVars
  PROVE  /\ question' = question
         /\ AnswerMatch \/ AnswerWarehouse \/ AnswerTracking \/ answer' = answer
BY DEF Next, algorithmVars, AnswerMatch, AnswerWarehouse, AnswerTracking, Packing, Assigning, Policies

TrackingQuestion == Asking("tracking") => question.age \in Hour /\ question.later \in Hour

LEMMA TrackingQuestionInit == Init => TrackingQuestion
<1> SUFFICES ASSUME Init, Asking("tracking") PROVE question.age \in Hour /\ question.later \in Hour
  BY DEF TrackingQuestion
<1>1. PICK first, then \in Replies, age, later \in Ages :
        question = [about |-> "tracking", first |-> first, then |-> then, age |-> age, later |-> later]
  BY StockAssumption DEF Init, Asking
<1> QED  BY <1>1, AgesAssumption DEF Hour

LEMMA AnswerTrackingFollows ==
  ASSUME TrackingQuestion, AnswerTracking
  PROVE  QueueFollowsTheAnswer'
<1> DEFINE row == Resolved(Untracked, question.first, question.age)
           later == question.later
           between == Refreshed(row, later)
           final == Resolved(row, question.then, later)
<1>1. /\ answer'.row = row /\ answer'.at_once = Refreshed(row, question.age)
      /\ answer'.between = between /\ answer'.then = final
      /\ answer'.refreshed_then = Resolved(between, question.then, later)
      /\ question' = question
  BY DEF AnswerTracking
<1>2. question.age \in Hour /\ later \in Hour
  BY DEF AnswerTracking, Asked, TrackingQuestion
<1>3. PICK n, m, error : \E failed \in BOOLEAN : row = ResolvedAs(n, m, error, failed, question.age)
  <2> DEFINE reply == question.first
  <2>1. PICK p, k, r, e, c : Untracked = Row(p, k, r, e, c)
    BY Zenon DEF Untracked, Row
  <2>2. CASE reply = NoReply
    <3>1. PICK failed \in BOOLEAN : failed <=> r = "pickup_failed"
      OBVIOUS
    <3>2. row = Silent(p, k, failed, question.age)
      <4>1. Resolved(Row(p, k, r, e, c), NoReply, question.age) = Silent(p, k, failed, question.age)
        BY <3>1, NoAnswer
      <4> QED  BY <2>1, <2>2, <4>1
    <3>3. row = ResolvedAs(p, k, TRUE, failed, question.age)
      BY <3>2 DEF Silent
    <3> HIDE DEF row
    <3> QED  BY <3>3, Zenon
  <2>3. CASE reply # NoReply
    <3>1. PICK n, m : \E failed \in BOOLEAN : \A pp, kk, rr, er, ca :
            Resolved(Row(pp, kk, rr, er, ca), reply, question.age) = ResolvedAs(n, m, FALSE, failed, question.age)
      BY <2>3, AnAnswer
    <3>2. PICK failed \in BOOLEAN : row = ResolvedAs(n, m, FALSE, failed, question.age)
      BY <2>1, <3>1, Zenon
    <3> HIDE DEF row
    <3> QED  BY <3>2, Zenon
  <2> QED  BY <2>2, <2>3
<1>4. Refreshed(row, question.age) = row
  BY <1>2, <1>3, RefreshKeeps
<1>5. PICK r, c : row = Row(n, m, r, error, c)
  BY <1>3 DEF ResolvedAs
<1> HIDE DEF row, later
<1>6. Resolved(between, question.then, later) = final
  BY <1>2, <1>5, RefreshBetween
<1>7. ASSUME question.then = NoReply
      PROVE  /\ final.reason = between.reason
             /\ \A category \in {"pickup_exception", "picked_up"} :
                  (final.category = category) = (between.category = category)
  BY <1>2, <1>5, <1>7, SilenceDecidesNothing
<1> HIDE DEF between, final
<1> QED  BY <1>1, <1>4, <1>6, <1>7 DEF QueueFollowsTheAnswer

(* The two classifications of a row agree, for every pair of the answers Replies and every two *)
(* of the Ages, whatever sets these are (tracking.go:153, fulfillment_audits.go:330).          *)
THEOREM TrackingIsOneClassification == Spec => []QueueFollowsTheAnswer
<1>1. Init => QueueFollowsTheAnswer
  BY DEF Init, QueueFollowsTheAnswer, Answered
<1>2. TrackingQuestion /\ [Next]_algorithmVars => TrackingQuestion'
  BY OneAnswer DEF TrackingQuestion, Asking
<1>3. TrackingQuestion /\ QueueFollowsTheAnswer /\ [Next]_algorithmVars => QueueFollowsTheAnswer'
  <2> SUFFICES ASSUME TrackingQuestion, QueueFollowsTheAnswer, [Next]_algorithmVars
               PROVE  QueueFollowsTheAnswer'
    OBVIOUS
  <2>1. CASE answer' = answer
    BY <2>1, OneAnswer DEF QueueFollowsTheAnswer, Answered, Asking
  <2>2. CASE AnswerTracking
    BY <2>2, AnswerTrackingFollows
  <2>3. CASE AnswerMatch \/ AnswerWarehouse
    BY <2>3 DEF AnswerMatch, AnswerWarehouse, Asked, Asking, QueueFollowsTheAnswer, Answered
  <2> QED  BY <2>1, <2>2, <2>3, OneAnswer
<1> QED  BY <1>1, <1>2, <1>3, TrackingQuestionInit, PTL DEF Spec

--------------------------------------------------------------------------------
(* The decision about a SKU, for any warehouses, holdings, answers, corrections and limits *)

StockQuestion == Asking("warehouse") => StockOf(question)

(* The warehouse a list of rules names first. *)
LEMMA FirstListed ==
  ASSUME NEW S \in SUBSET (DOMAIN Rules)
  PROVE  /\ S = {} => First(S) = NoChoice
         /\ S # {} => \E i \in S : First(S) = Rules[i].wh
<1>1. ASSUME S # {} PROVE \E i \in S : First(S) = Rules[i].wh
  <2>1. Rules \in Seq([wh : Places, region : Regions, preferred : BOOLEAN])
    BY RulesAssumption
  <2>2. S \subseteq 1 .. Len(Rules) /\ Len(Rules) \in Nat
    BY <2>1
  <2>3. IsFiniteSet(S)
    BY <2>2, FS_Interval, FS_Subset
  <2> DEFINE rank == [i \in S |-> Len(Rules) - i]
  <2>4. rank \in [S -> Nat] /\ \A i \in S : rank[i] = Len(Rules) - i
    BY <2>2
  <2>5. PICK i \in S : \A j \in S : rank[j] <= rank[i]
    <3> HIDE DEF rank
    <3> QED  BY <1>1, <2>3, <2>4, HighestOf
  <2>6. \A j \in S : i <= j
    BY <2>2, <2>4, <2>5
  <2>7. Min(S) \in S
    BY <2>6 DEF Min
  <2> QED  BY <1>1, <2>7 DEF First
<1> QED  BY <1>1 DEF First

LEMMA PlacesOfRules ==
  ASSUME NEW i \in DOMAIN Rules
  PROVE  Rules[i].wh \in Places /\ Rules[i].wh # NoChoice /\ Rules[i].region \in Regions
BY RulesAssumption DEF Places, Regions

(* What is recommended in a region is listed in it and may be selected. *)
ChoosesFrom(c, s) ==
  \A r \in Regions : c[r] # NoChoice => c[r] \in InRegion(r) \cap s

LEMMA FirstIsFounded ==
  ASSUME NEW r \in Regions, NEW C, NEW S, S \subseteq Listed(r, C), First(S) # NoChoice
  PROVE  First(S) \in InRegion(r) \cap C
<1>1. S \subseteq DOMAIN Rules
  BY DEF Listed
<1>2. PICK i \in S : First(S) = Rules[i].wh
  BY <1>1, FirstListed
<1>3. i \in DOMAIN Rules /\ Rules[i].region = r /\ Rules[i].wh \in C
  BY DEF Listed
<1> QED  BY <1>2, <1>3 DEF InRegion

LEMMA DecisionIsFounded ==
  ASSUME NEW stock, NEW limits
  PROVE  ChoosesFrom(Decision(stock, limits).choice, Decision(stock, limits).selectable)
<1> DEFINE scoped == Scoped(stock, limits)
           decision == Decision(stock, limits)
<1>1. decision.selectable = Selectable(scoped) /\ \A r \in Regions : decision.choice[r] = RegionChoice(r, scoped)
  BY DEF Decision
<1> HIDE DEF scoped, decision
<1>2. ASSUME NEW r \in Regions, RegionChoice(r, scoped) # NoChoice
      PROVE  RegionChoice(r, scoped) \in InRegion(r) \cap Selectable(scoped)
  <2> DEFINE usable == Listed(r, Selectable(scoped))
             preferred == {i \in usable : Rules[i].preferred}
             S == IF preferred # {} THEN preferred ELSE usable
  <2>1. RegionChoice(r, scoped) = First(S)
    BY <1>2 DEF RegionChoice
  <2>2. S \subseteq usable
    OBVIOUS
  <2> HIDE DEF S
  <2> QED  BY <1>2, <2>1, <2>2, FirstIsFounded
<1> QED  BY <1>1, <1>2 DEF ChoosesFrom, decision

(* The fields of a decision. *)
Decided(s, t, c, k, m) == [selectable |-> s, total |-> t, choice |-> c, code |-> k, manual |-> m]

SetSelectable(decision, x) == [decision EXCEPT !.selectable = x]
SetChoice(decision, x) == [decision EXCEPT !.choice = x]
SetManual(decision, x) == [decision EXCEPT !.manual = x]
SetCode(decision, x) == [decision EXCEPT !.code = x]

LEMMA SetDecided ==
  ASSUME NEW s, NEW t, NEW c, NEW k, NEW m, NEW x
  PROVE  /\ SetSelectable(Decided(s, t, c, k, m), x) = Decided(x, t, c, k, m)
         /\ SetChoice(Decided(s, t, c, k, m), x) = Decided(s, t, x, k, m)
         /\ SetManual(Decided(s, t, c, k, m), x) = Decided(s, t, c, k, x)
         /\ SetCode(Decided(s, t, c, k, m), x) = Decided(s, t, c, x, m)
BY DEF Decided, SetSelectable, SetChoice, SetManual, SetCode

LEMMA FieldsOf ==
  ASSUME NEW s, NEW t, NEW c, NEW k, NEW m
  PROVE  /\ Decided(s, t, c, k, m).selectable = s /\ Decided(s, t, c, k, m).total = t
         /\ Decided(s, t, c, k, m).choice = c /\ Decided(s, t, c, k, m).code = k
         /\ Decided(s, t, c, k, m).manual = m
BY DEF Decided

(* The choice made again among what is left. *)
Again(s) == [r \in Regions |-> First(Listed(r, s))]

LEMMA AgainIsFounded ==
  ASSUME NEW s, NEW r \in Regions
  PROVE  Again(s)[r] # NoChoice => Again(s)[r] \in InRegion(r) \cap s
BY FirstIsFounded DEF Again

LEMMA AgainFinds ==
  ASSUME NEW s, s \subseteq Places, s # {}
  PROVE  \E r \in Regions : Again(s)[r] # NoChoice
<1>1. PICK i \in DOMAIN Rules : Rules[i].wh \in s
  BY DEF Places
<1> DEFINE r == Rules[i].region
<1>2. r \in Regions /\ i \in Listed(r, s) /\ Listed(r, s) \subseteq DOMAIN Rules
  BY <1>1, PlacesOfRules DEF Listed
<1>3. PICK j \in Listed(r, s) : First(Listed(r, s)) = Rules[j].wh
  BY <1>2, FirstListed
<1>4. Rules[j].wh # NoChoice
  BY <1>2, PlacesOfRules
<1> QED  BY <1>2, <1>3, <1>4 DEF Again

LEMMA WithoutSome ==
  ASSUME NEW s, NEW t, NEW c, NEW k, NEW m, NEW removed
  PROVE  Without(Decided(s, t, c, k, m), removed) = Decided(s \ removed, t, Again(s \ removed), k, m)
<1> DEFINE decision == Decided(s, t, c, k, m)
           remaining == s \ removed
<1>1. decision.selectable = s
  BY FieldsOf
<1>2. SetChoice(SetSelectable(decision, remaining), Again(remaining)) = Decided(remaining, t, Again(remaining), k, m)
  <2> HIDE DEF remaining
  <2> QED  BY SetDecided
<1> HIDE DEF decision
<1>3. Without(decision, removed) = SetChoice(SetSelectable(decision, remaining), Again(remaining))
  BY <1>1 DEF Without, SetChoice, SetSelectable, Again
<1> QED  BY <1>2, <1>3 DEF decision

(* What is left of a decision when the platform and the shop have taken out what they do not use. *)
TakenOut(a, s, t, k, m, disabled, shop) ==
  /\ ChoosesFrom(a.choice, a.selectable)
  /\ a.selectable \subseteq s \ disabled
  /\ shop # NoShop => a.selectable \subseteq shop
  /\ a.total = t
  /\ ~a.manual => ~m /\ a.code = k
  /\ ~a.manual /\ shop # NoShop => \E r \in Regions : a.choice[r] # NoChoice

LEMMA AfterRestrictions ==
  ASSUME NEW s, s \subseteq Places, NEW t, NEW c, ChoosesFrom(c, s), NEW k, NEW m \in BOOLEAN,
         NEW disabled, NEW shop, NEW a,
         a = IF shop = NoShop THEN ForPlatform(Decided(s, t, c, k, m), disabled)
             ELSE ForShop(ForPlatform(Decided(s, t, c, k, m), disabled), shop)
  PROVE  TakenOut(a, s, t, k, m, disabled, shop)
<1> DEFINE d0 == Decided(s, t, c, k, m)
           d1 == ForPlatform(d0, disabled)
<1>1. PICK s1, c1 : /\ d1 = Decided(s1, t, c1, k, m)
                    /\ s1 \subseteq s \ disabled
                    /\ ChoosesFrom(c1, s1)
  <2>1. CASE disabled = {}
    BY <2>1 DEF ForPlatform
  <2>2. CASE disabled # {}
    <3> DEFINE s2 == s \ disabled
    <3>1. d1 = Decided(s2, t, Again(s2), k, m)
      BY <2>2, WithoutSome DEF ForPlatform
    <3>2. ChoosesFrom(Again(s2), s2)
      BY AgainIsFounded DEF ChoosesFrom
    <3>3. s2 \subseteq s \ disabled
      OBVIOUS
    <3> HIDE DEF d1, s2
    <3> QED  BY <3>1, <3>2, <3>3
  <2> QED  BY <2>1, <2>2
<1>2. CASE shop = NoShop
  <2>1. a = Decided(s1, t, c1, k, m)
    BY <1>1, <1>2
  <2>2. a.selectable = s1 /\ a.total = t /\ a.choice = c1 /\ a.code = k /\ a.manual = m
    BY <2>1, FieldsOf
  <2> HIDE DEF d0, d1
  <2> QED  BY <1>1, <1>2, <2>2 DEF TakenOut
<1>3. CASE shop # NoShop
  <2> DEFINE s2 == s1 \ (Places \ shop)
             restricted == Without(d1, Places \ shop)
  <2>1. restricted = Decided(s2, t, Again(s2), k, m)
    <3> HIDE DEF d1
    <3> QED  BY <1>1, WithoutSome
  <2>2. ChoosesFrom(Again(s2), s2)
    BY AgainIsFounded DEF ChoosesFrom
  <2>3. s2 \subseteq s \ disabled /\ s2 \subseteq shop /\ s2 \subseteq Places
    BY <1>1
  <2>4. a = ForShop(d1, shop)
    BY <1>3
  <2>5. CASE s2 # {}
    <3>1. restricted.selectable = s2
      BY <2>1, FieldsOf
    <3>2. a = Decided(s2, t, Again(s2), k, m)
      <4> HIDE DEF d1, s2
      <4> QED  BY <2>1, <2>4, <2>5, <3>1 DEF ForShop
    <3>3. a.selectable = s2 /\ a.total = t /\ a.choice = Again(s2) /\ a.code = k /\ a.manual = m
      <4> HIDE DEF s2
      <4> QED  BY <3>2, FieldsOf
    <3>4. \E r \in Regions : Again(s2)[r] # NoChoice
      <4> HIDE DEF s2
      <4> QED  BY <2>3, <2>5, AgainFinds
    <3> HIDE DEF d0, d1, s2
    <3> QED  BY <2>2, <2>3, <3>3, <3>4 DEF TakenOut
  <2>6. CASE s2 = {}
    <3>1. restricted.selectable = s2
      BY <2>1, FieldsOf
    <3>2. a = SetCode(SetManual(restricted, TRUE), "MANUAL_SHOP_WAREHOUSE_UNAVAILABLE")
      <4> HIDE DEF d1, s2
      <4> QED  BY <2>4, <2>6, <3>1 DEF ForShop, SetCode, SetManual
    <3>3. PICK k1 : a = Decided(s2, t, Again(s2), k1, TRUE)
      <4>1. ASSUME NEW q, NEW k1 PROVE SetCode(SetManual(restricted, q), k1) = Decided(s2, t, Again(s2), k1, q)
        <5> HIDE DEF restricted, s2
        <5> QED  BY <2>1, SetDecided
      <4>2. a = Decided(s2, t, Again(s2), "MANUAL_SHOP_WAREHOUSE_UNAVAILABLE", TRUE)
        <5> HIDE DEF restricted, s2
        <5> QED  BY <3>2, <4>1, Zenon
      <4> HIDE DEF s2
      <4> QED  BY <4>2, Zenon
    <3>4. a.selectable = s2 /\ a.total = t /\ a.choice = Again(s2) /\ a.manual
      <4>1. ASSUME NEW q, a = Decided(s2, t, Again(s2), k1, q)
            PROVE  a.selectable = s2 /\ a.total = t /\ a.choice = Again(s2) /\ a.manual = q
        <5> HIDE DEF s2
        <5> QED  BY <4>1, FieldsOf
      <4> HIDE DEF s2
      <4>2. a.selectable = s2 /\ a.total = t /\ a.choice = Again(s2) /\ a.manual = TRUE
        BY <3>3, <4>1, Zenon
      <4> QED  BY <4>2
    <3> HIDE DEF d0, d1, s2
    <3> QED  BY <2>2, <2>3, <3>4 DEF TakenOut
  <2> QED  BY <2>5, <2>6
<1> QED  BY <1>2, <1>3

--------------------------------------------------------------------------------
(* The stock a decision starts from: what XLWMS answers, corrected by hand *)

StockRecord == [sku : SkusAsked, wh : Places \cup {""}, amount : Nat]

(* The amounts of one reply add up to a number. *)
LEMMA AmountIsNat ==
  ASSUME NEW reply \in Reply, NEW sku
  PROVE  Amount(reply, sku) \in Nat
<1> DEFINE S == {i \in DOMAIN reply.records : reply.records[i].sku = sku}
           f == [i \in S |-> reply.records[i].amount]
           Is(g) == g = [A \in SUBSET S |-> IF A = {} THEN 0
                      ELSE reply.records[CHOOSE x \in A : TRUE].amount + g[A \ {CHOOSE x \in A : TRUE}]]
<1>1. reply.records \in Seq(StockRecord)
  BY DEF Reply, StockRecord
<1>2. IsFiniteSet(S)
  <2> DEFINE records == reply.records
             D == DOMAIN records
  <2>1. D = 1 .. Len(records) /\ Len(records) \in Nat
    <3>1. records \in Seq(StockRecord)
      BY <1>1
    <3> HIDE DEF records
    <3> QED  BY <3>1
  <2>2. IsFiniteSet(D)
    <3> HIDE DEF D, records
    <3> QED  BY <2>1, FS_Interval
  <2>3. S \subseteq D
    OBVIOUS
  <2> HIDE DEF D, S
  <2> QED  BY <2>2, <2>3, FS_Subset
<1>3. f \in [S -> Nat]
  <2> DEFINE records == reply.records
  <2>1. \A i \in DOMAIN records : records[i].amount \in Nat
    <3>1. \A i \in DOMAIN records : records[i] \in StockRecord
      <4>1. records \in Seq(StockRecord)
        BY <1>1
      <4> HIDE DEF records
      <4> QED  BY <4>1
    <3> QED  BY <3>1 DEF StockRecord
  <2>2. \A i \in S : reply.records[i].amount \in Nat
    BY <2>1
  <2> HIDE DEF S
  <2> QED  BY <2>2
<1>4. \A g : SumTable(g, f, S) <=> Is(g)
  <2> TAKE g
  <2>1. \A A \in SUBSET S : A # {} => f[Pick(A)] = reply.records[CHOOSE x \in A : TRUE].amount
    <3>1. \A i \in S : f[i] = reply.records[i].amount
      OBVIOUS
    <3> HIDE DEF f, S
    <3> QED  BY <3>1, PickIn DEF Pick
  <2> HIDE DEF f, S
  <2>2. \A A \in SUBSET S : (IF A = {} THEN 0 ELSE f[Pick(A)] + g[A \ {Pick(A)}])
          = (IF A = {} THEN 0 ELSE reply.records[CHOOSE x \in A : TRUE].amount + g[A \ {CHOOSE x \in A : TRUE}])
    BY <2>1 DEF Pick
  <2>3. [A \in SUBSET S |-> (IF A = {} THEN 0 ELSE f[Pick(A)] + g[A \ {Pick(A)}])]
          = [A \in SUBSET S |-> (IF A = {} THEN 0
               ELSE reply.records[CHOOSE x \in A : TRUE].amount + g[A \ {CHOOSE x \in A : TRUE}])]
    BY <2>2
  <2> QED  BY <2>3 DEF SumTable
<1>5. \E g : Is(g)
  <2> HIDE DEF Is, f, S
  <2> QED BY <1>2, <1>4, TableExists
<1>6. Is(CHOOSE g : Is(g))
  BY <1>5
<1>7. Amount(reply, sku) = (CHOOSE g : Is(g))[S]
  BY DEF Amount, MapThenSumSet, MapThenFoldSet
<1> HIDE DEF Is, f, S
<1>8. Adds(CHOOSE g : Is(g), f, S)
  BY <1>2, <1>3, <1>4, <1>6, TableAdds
<1> QED  BY <1>7, <1>8 DEF Adds

LEMMA HeldAre ==
  ASSUME NEW holdings, NEW sku
  PROVE  {s.wh : s \in Scopes(holdings, sku)} = {h.wh : h \in Held(holdings, sku)}
<1> DEFINE H == Held(holdings, sku)
<1>1. ASSUME NEW h \in H PROVE [wh |-> h.wh, scope |-> h.scope] \in Scopes(holdings, sku)
  BY DEF Scopes
<1>2. ASSUME NEW h \in H PROVE \E s \in Scopes(holdings, sku) : s.wh = h.wh
  BY <1>1
<1>3. ASSUME NEW s \in Scopes(holdings, sku) PROVE \E h \in H : s.wh = h.wh
  BY DEF Scopes
<1> HIDE DEF H
<1>4. {s.wh : s \in Scopes(holdings, sku)} = {h.wh : h \in H}
  BY <1>2, <1>3
<1> QED  BY <1>4 DEF H

Known(query, amount) == [query |-> query, amount |-> amount]

(* What is known of a warehouse before the corrections. *)
ToldOf(holdings, replies, sku, wh) ==
  LET asked == {h.wh : h \in Held(holdings, sku)}
      told == ScopedStock(holdings, replies, sku)[wh]
  IN  /\ wh \in asked =>
           /\ told.query \in {"failed", "succeeded"}
           /\ told.query = "succeeded" =>
                /\ replies[wh].ok /\ ~Misplaced(replies[wh], Batch(holdings, sku), wh)
                /\ told.amount = Amount(replies[wh], sku)
      /\ wh \notin asked => told.query \in {"inactive", "out_of_scope"}
      /\ asked = {} => told.query = "inactive"
      /\ told = Known(told.query, told.amount)

LEMMA ScopedStockOf ==
  ASSUME NEW holdings, NEW replies, NEW sku, NEW wh \in Places
  PROVE  ToldOf(holdings, replies, sku, wh)
<1> DEFINE asked == {h.wh : h \in Held(holdings, sku)}
           batch == Batch(holdings, sku)
           stock == LiveStock(asked, replies, batch, sku)
           told == ScopedStock(holdings, replies, sku)[wh]
<1>1. told = IF stock[wh].query = "inactive" /\ asked # {} THEN [query |-> "out_of_scope", amount |-> 0] ELSE stock[wh]
  BY HeldAre DEF ScopedStock
<1>2. stock[wh] = IF wh \in asked THEN StockAnswered(replies[wh], batch, sku, wh)
                  ELSE [query |-> "inactive", amount |-> 0]
  BY DEF LiveStock
<1> HIDE DEF asked, batch, stock, told
<1>3. CASE wh \in asked
  <2> DEFINE answered == StockAnswered(replies[wh], batch, sku, wh)
  <2>1. /\ answered.query \in {"failed", "succeeded"}
        /\ answered.query = "succeeded" => /\ replies[wh].ok /\ ~Misplaced(replies[wh], batch, wh)
                                           /\ answered.amount = Amount(replies[wh], sku)
        /\ answered = Known(answered.query, answered.amount)
    BY DEF StockAnswered, Known
  <2> HIDE DEF answered
  <2>2. told = answered
    BY <1>1, <1>2, <1>3, <2>1 DEF answered
  <2> QED  BY <1>3, <2>1, <2>2 DEF asked, batch, told, ToldOf
<1>4. CASE wh \notin asked
  <2>1. told \in {Known("inactive", 0), Known("out_of_scope", 0)} /\ (asked = {} => told = Known("inactive", 0))
    BY <1>1, <1>2, <1>4 DEF Known
  <2>2. /\ told.query \in {"inactive", "out_of_scope"}
        /\ asked = {} => told.query = "inactive"
        /\ told = Known(told.query, told.amount)
    BY <2>1 DEF Known
  <2> QED  BY <1>4, <2>2 DEF asked, batch, told, ToldOf
<1> QED  BY <1>3, <1>4

SetAmount(stock, x) == [stock EXCEPT !.amount = x]

(* The stock after the corrections. *)
KnownStock == WithCorrections(ScopedStock(question.holdings, question.replies, ThisSku), question.corrections)

LEMMA KnownStockOf ==
  ASSUME StockQuestion, Asking("warehouse"), NEW wh \in Places
  PROVE  /\ KnownStock[wh].query \in {"inactive", "out_of_scope", "failed", "succeeded"}
         /\ wh \in HeldIn => KnownStock[wh].query \in {"failed", "succeeded"}
         /\ wh \notin HeldIn => KnownStock[wh].query \in {"inactive", "out_of_scope"}
         /\ HeldIn = {} => KnownStock[wh].query = "inactive"
         /\ KnownStock[wh].query = "succeeded" => Trusted(wh)
         /\ KnownStock[wh].query = "succeeded" /\ KnownStock[wh].amount > 0 => InStock(wh)
<1> DEFINE reply == question.replies[wh]
           correction == question.corrections[wh]
           batch == Batch(question.holdings, ThisSku)
           told == ScopedStock(question.holdings, question.replies, ThisSku)[wh]
           amount == Amount(reply, ThisSku)
<1>1. reply \in Reply /\ (correction = NoRow \/ correction \in Correction)
  BY DEF StockQuestion, StockOf
<1>2. amount \in Nat
  <2> HIDE DEF reply
  <2> QED  BY <1>1, AmountIsNat
<1> HIDE DEF amount, told
<1>3. /\ wh \in HeldIn => /\ told.query \in {"failed", "succeeded"}
                          /\ told.query = "succeeded" => /\ reply.ok /\ ~Misplaced(reply, batch, wh)
                                                         /\ told.amount = amount
      /\ wh \notin HeldIn => told.query \in {"inactive", "out_of_scope"}
      /\ HeldIn = {} => told.query = "inactive"
      /\ told = Known(told.query, told.amount)
  <2>1. ToldOf(question.holdings, question.replies, ThisSku, wh)
    BY ScopedStockOf
  <2>2. HeldIn = {h.wh : h \in Held(question.holdings, ThisSku)}
    BY DEF HeldIn
  <2> HIDE DEF reply, batch
  <2>3. question.replies[wh] = reply /\ Batch(question.holdings, ThisSku) = batch
    BY DEF reply, batch
  <2>4. ScopedStock(question.holdings, question.replies, ThisSku)[wh] = told /\ Amount(reply, ThisSku) = amount
    BY DEF told, amount
  <2>5. wh \in HeldIn => /\ told.query \in {"failed", "succeeded"}
                         /\ told.query = "succeeded" => /\ reply.ok /\ ~Misplaced(reply, batch, wh)
                                                        /\ told.amount = amount
    BY <2>1, <2>2, <2>3, <2>4 DEF ToldOf
  <2>6. wh \notin HeldIn => told.query \in {"inactive", "out_of_scope"}
    BY <2>1, <2>2, <2>3, <2>4 DEF ToldOf
  <2>7. HeldIn = {} => told.query = "inactive"
    BY <2>1, <2>2, <2>3, <2>4 DEF ToldOf
  <2>8. told = Known(told.query, told.amount)
    BY <2>1, <2>2, <2>3, <2>4 DEF ToldOf
  <2> QED  BY <2>5, <2>6, <2>7, <2>8
<1> DEFINE q == told.query
           n == told.amount
           kept == Corrected(n, correction)
<1>4. KnownStock[wh] = IF q # "succeeded" \/ correction = NoRow THEN Known(q, n) ELSE Known(q, kept)
  <2>1. KnownStock[wh] = IF told.query # "succeeded" \/ correction = NoRow THEN told
                        ELSE SetAmount(told, Corrected(told.amount, correction))
    BY DEF KnownStock, WithCorrections, told, SetAmount
  <2>2. told = Known(q, n)
    BY <1>3
  <2> HIDE DEF q, n, kept
  <2>3. SetAmount(told, kept) = Known(q, kept)
    BY <2>2 DEF Known, SetAmount
  <2> QED  BY <2>1, <2>2, <2>3 DEF q, n, kept
<1>5. KnownStock[wh].query = q /\ KnownStock[wh].amount = IF q # "succeeded" \/ correction = NoRow THEN n ELSE kept
  <2> HIDE DEF q, n, kept
  <2> QED  BY <1>4 DEF Known
<1>6. q = "succeeded" => wh \in HeldIn /\ reply.ok /\ ~Misplaced(reply, batch, wh) /\ n = amount
  BY <1>3
<1>7. ASSUME q = "succeeded" PROVE Trusted(wh)
  <2>1. ASSUME NEW i \in DOMAIN reply.records, Scopes(question.holdings, reply.records[i].sku) = Scopes(question.holdings, ThisSku)
        PROVE  reply.records[i].wh \in {wh, ""}
    <3> DEFINE records == reply.records
    <3>1. records[i] \in StockRecord
      <4>1. records \in Seq(StockRecord)
        BY <1>1 DEF Reply, StockRecord
      <4>2. i \in DOMAIN records
        OBVIOUS
      <4> HIDE DEF records
      <4> QED  BY <4>1, <4>2
    <3>2. reply.records[i].sku \in batch
      BY <2>1, <3>1 DEF Batch, StockRecord
    <3> QED  BY <1>6, <1>7, <2>1, <3>2 DEF Misplaced
  <2>2. reply.ok
    BY <1>6, <1>7
  <2> QED  BY <2>1, <2>2 DEF Trusted
<1>8. ASSUME q = "succeeded", KnownStock[wh].amount > 0 PROVE InStock(wh)
  <2>1. n = amount /\ amount \in Nat
    BY <1>2, <1>6, <1>8
  <2>2. CASE correction = NoRow
    <3>1. amount > 0
      BY <1>5, <1>8, <2>1, <2>2
    <3> QED  BY <2>2, <3>1 DEF InStock, amount
  <2>3. CASE correction # NoRow
    <3>1. kept > 0
      BY <1>5, <1>8, <2>3
    <3>2. correction.mode \in {"absolute", "subtract"} /\ correction.amount \in Nat
      BY <1>1, <2>3 DEF Correction
    <3>3. CASE correction.mode = "absolute"
      <4>1. correction.amount > 0
        BY <3>1, <3>3 DEF Corrected
      <4> QED  BY <2>3, <3>3, <4>1 DEF InStock
    <3>4. CASE correction.mode = "subtract"
      <4>1. amount > correction.amount
        BY <2>1, <3>1, <3>2, <3>4 DEF Corrected
      <4> QED  BY <2>3, <3>4, <4>1 DEF InStock, amount
    <3> QED  BY <3>2, <3>3, <3>4
  <2> QED  BY <2>2, <2>3
<1> HIDE DEF q, n, kept
<1>9. q \in {"inactive", "out_of_scope", "failed", "succeeded"}
  BY <1>3 DEF q
<1> QED  BY <1>3, <1>5, <1>7, <1>8, <1>9 DEF q

(* Within the scope of the limits. *)
LEMMA ScopedBy ==
  ASSUME NEW stock, NEW limits, NEW wh \in Places
  PROVE  /\ wh \in Selectable(Scoped(stock, limits)) =>
              /\ stock[wh].query = "succeeded" /\ stock[wh].amount > 0
              /\ limits.codes # {} => wh \in limits.codes
         /\ wh \notin Unknown(Scoped(stock, limits)) =>
              /\ limits.codes = {} => stock[wh].query \notin {"inactive", "failed"}
              /\ wh \in limits.codes => stock[wh].query \notin {"inactive", "failed", "out_of_scope"}
<1>1. CASE limits.codes = {}
  BY <1>1 DEF Scoped, Selectable, Unknown
<1>2. CASE limits.codes # {}
  <2> DEFINE scoped == Scoped(stock, limits)
  <2>1. scoped[wh] = IF wh \notin limits.codes THEN [query |-> "out_of_scope", amount |-> 0]
                     ELSE IF stock[wh].query = "out_of_scope" THEN [query |-> "inactive", amount |-> 0]
                     ELSE stock[wh]
    BY <1>2 DEF Scoped
  <2>2. wh \in Selectable(scoped) => scoped[wh].query = "succeeded" /\ scoped[wh].amount > 0
    BY DEF Selectable
  <2>3. wh \notin Unknown(scoped) => scoped[wh].query \notin {"inactive", "failed"}
    BY DEF Unknown
  <2> HIDE DEF scoped
  <2>4. wh \in Selectable(scoped) => wh \in limits.codes /\ scoped[wh] = stock[wh]
    BY <2>1, <2>2
  <2>5. wh \notin Unknown(scoped) /\ wh \in limits.codes => stock[wh].query # "out_of_scope" /\ scoped[wh] = stock[wh]
    BY <2>1, <2>3
  <2> QED  BY <1>2, <2>2, <2>3, <2>4, <2>5 DEF scoped
<1> QED  BY <1>1, <1>2

LEMMA LimitsAreKnown ==
  ASSUME StockQuestion, Asking("warehouse")
  PROVE  Limits.codes \subseteq Places
<1>1. CASE question.accountRules # {}
  <2>1. Limits \in question.accountRules
    BY <1>1 DEF Limits, LimitsFor
  <2> QED  BY <2>1 DEF StockQuestion, StockOf
<1>2. CASE question.accountRules = {} /\ question.own # NoRow
  BY <1>2 DEF Limits, LimitsFor, StockQuestion, StockOf
<1>3. CASE question.accountRules = {} /\ question.own = NoRow
  BY <1>3 DEF Limits, LimitsFor, StockQuestion, StockOf
<1> QED  BY <1>1, <1>2, <1>3

(* An answer that is not refused is safe. *)
LEMMA AvailabilityIsSafe ==
  ASSUME StockQuestion, Asking("warehouse"), Places # {},
         answer = Availability(question, ThisSku), answer # Refused
  PROVE  RecommendedIsUsable /\ AutomaticIsSafe
<1> DEFINE scoped == Scoped(KnownStock, Limits)
           s == Selectable(scoped)
<1>1. answer = LET decision == ForPlatform(Decision(KnownStock, Limits), question.disabled)
               IN  IF question.shop = NoShop THEN decision ELSE ForShop(decision, question.shop)
  BY DEF Availability, KnownStock, Limits
<1>2. PICK t, c, k : \E m \in BOOLEAN :
        /\ Decision(KnownStock, Limits) = Decided(s, t, c, k, m)
        /\ ChoosesFrom(c, s)
        /\ ~m => Unknown(scoped) = {} /\ ~Below(t, Limits) /\ k = "AUTO_SELECTION_READY"
  <2> DEFINE decision == Decision(KnownStock, Limits)
             t == decision.total
             c == decision.choice
             k == decision.code
  <2>1. PICK m \in BOOLEAN : m <=> (Unknown(scoped) # {} \/ Below(t, Limits))
    OBVIOUS
  <2>2. decision = Decided(s, t, c, k, m)
    BY <2>1 DEF Decision, Decided
  <2>3. ChoosesFrom(decision.choice, decision.selectable) /\ decision.selectable = s
    BY DecisionIsFounded DEF Decision
  <2>4. ~m => k = "AUTO_SELECTION_READY"
    BY <2>1 DEF Decision
  <2>5. ChoosesFrom(c, s)
    <3> HIDE DEF decision, s
    <3> QED  BY <2>3 DEF ChoosesFrom
  <2> HIDE DEF decision, s, t, c, k, scoped
  <2> QED  BY <2>1, <2>2, <2>4, <2>5 DEF decision
<1>3. PICK m \in BOOLEAN :
        /\ Decision(KnownStock, Limits) = Decided(s, t, c, k, m)
        /\ ChoosesFrom(c, s)
        /\ ~m => Unknown(scoped) = {} /\ ~Below(t, Limits) /\ k = "AUTO_SELECTION_READY"
  BY <1>2
<1>4. s \subseteq Places
  BY DEF Selectable
<1> HIDE DEF s, scoped
<1>5. /\ \A r \in Regions : answer.choice[r] # NoChoice => answer.choice[r] \in InRegion(r) \cap answer.selectable
      /\ answer.selectable \subseteq s \ question.disabled
      /\ question.shop # NoShop => answer.selectable \subseteq question.shop
      /\ answer.total = t
      /\ ~answer.manual => ~m /\ answer.code = k
      /\ ~answer.manual /\ question.shop # NoShop => \E r \in Regions : answer.choice[r] # NoChoice
  <2> DEFINE disabled == question.disabled
             shop == question.shop
  <2>1. answer = IF shop = NoShop THEN ForPlatform(Decided(s, t, c, k, m), disabled)
                 ELSE ForShop(ForPlatform(Decided(s, t, c, k, m), disabled), shop)
    BY <1>1, <1>3
  <2> HIDE DEF disabled, shop
  <2>2. TakenOut(answer, s, t, k, m, disabled, shop)
    BY <1>3, <1>4, <2>1, AfterRestrictions
  <2> QED  BY <2>2 DEF TakenOut, ChoosesFrom, disabled, shop
<1>6. ASSUME NEW wh \in s
      PROVE  wh \in HeldIn /\ Trusted(wh) /\ InStock(wh) /\ (Limits.codes # {} => wh \in Limits.codes)
  <2>1. wh \in Places /\ wh \in Selectable(Scoped(KnownStock, Limits))
    BY <1>4 DEF s, scoped
  <2>2. /\ KnownStock[wh].query = "succeeded" /\ KnownStock[wh].amount > 0
        /\ Limits.codes # {} => wh \in Limits.codes
    BY <2>1, ScopedBy
  <2> QED  BY <2>1, <2>2, KnownStockOf
<1>7. RecommendedIsUsable
  <2> SUFFICES ASSUME NEW r \in Regions, answer.choice[r] # NoChoice
               PROVE  LET wh == answer.choice[r]
                      IN /\ wh \in InRegion(r) \cap answer.selectable \cap HeldIn
                         /\ Trusted(wh) /\ InStock(wh)
                         /\ wh \notin question.disabled
                         /\ question.shop # NoShop => wh \in question.shop
                         /\ Limits.codes # {} => wh \in Limits.codes
    BY DEF RecommendedIsUsable
  <2> DEFINE wh == answer.choice[r]
  <2>1. wh \in InRegion(r) \cap answer.selectable
    BY <1>5
  <2>2. wh \in s /\ wh \notin question.disabled
    BY <1>5, <2>1
  <2> HIDE DEF wh
  <2>3. wh \in HeldIn /\ Trusted(wh) /\ InStock(wh) /\ (Limits.codes # {} => wh \in Limits.codes)
    BY <1>6, <2>2
  <2>4. question.shop # NoShop => wh \in question.shop
    BY <1>5, <2>1
  <2> QED  BY <2>1, <2>2, <2>3, <2>4 DEF wh
<1>8. AutomaticIsSafe
  <2> SUFFICES ASSUME ~answer.manual
               PROVE  /\ HeldIn # {}
                      /\ \A wh \in IF Limits.codes = {} THEN HeldIn ELSE Limits.codes : wh \in HeldIn /\ Trusted(wh)
                      /\ ~Below(answer.total, Limits)
                      /\ answer.code = "AUTO_SELECTION_READY"
                      /\ question.shop # NoShop => \E r \in Regions : answer.choice[r] # NoChoice
    BY DEF AutomaticIsSafe
  <2>1. Unknown(Scoped(KnownStock, Limits)) = {}
    BY <1>3, <1>5 DEF scoped
  <2>2. ~Below(answer.total, Limits) /\ answer.code = "AUTO_SELECTION_READY"
    BY <1>3, <1>5
  <2>3. ASSUME NEW wh \in Places, Limits.codes = {} \/ wh \in Limits.codes
        PROVE  KnownStock[wh].query # "inactive"
    BY <2>1, <2>3, ScopedBy
  <2>4. HeldIn # {}
    <3> SUFFICES ASSUME HeldIn = {} PROVE FALSE
      OBVIOUS
    <3>1. PICK wh \in Places : Limits.codes = {} \/ wh \in Limits.codes
      BY LimitsAreKnown
    <3> QED  BY <2>3, <3>1, KnownStockOf
  <2>5. ASSUME NEW wh \in IF Limits.codes = {} THEN HeldIn ELSE Limits.codes
        PROVE  wh \in HeldIn /\ Trusted(wh)
    <3>1. HeldIn \subseteq Places
      BY DEF HeldIn, Held, StockQuestion, StockOf
    <3>2. wh \in Places
      BY <3>1, LimitsAreKnown
    <3>3. wh \notin Unknown(Scoped(KnownStock, Limits))
      BY <2>1
    <3>4. /\ Limits.codes = {} => KnownStock[wh].query \notin {"inactive", "failed"}
          /\ wh \in Limits.codes => KnownStock[wh].query \notin {"inactive", "failed", "out_of_scope"}
      BY <3>2, <3>3, ScopedBy
    <3>5. wh \in HeldIn /\ KnownStock[wh].query = "succeeded"
      BY <3>2, <3>4, KnownStockOf
    <3> QED  BY <3>2, <3>5, KnownStockOf
  <2> QED  BY <1>5, <2>2, <2>4, <2>5
<1> QED  BY <1>7, <1>8

LEMMA StockQuestionInit == Init => StockQuestion
<1> SUFFICES ASSUME Init, Asking("warehouse") PROVE StockOf(question)
  BY DEF StockQuestion, StockOf
<1>1. question \in StockQuestions
  BY DEF Init, Asking
<1> QED  BY <1>1, StockAssumption

(* An answer about a SKU is what temuWarehouseAvailability says. *)
AnsweredAsComputed == Answered("warehouse") => answer = Availability(question, ThisSku)

(* Every decision about a SKU is safe, whatever the StockQuestions are, that is, whatever is held,  *)
(* answered, corrected and restricted: what it recommends can be used, and it goes without a        *)
(* person only where nothing is missing                                                             *)
(* (warehouse_decision.go:169, live_inventory.go:43).                                               *)
THEOREM EveryDecisionIsSafe == Spec => []DecisionIsSafe
<1>1. Init => AnsweredAsComputed
  BY DEF Init, AnsweredAsComputed, Answered
<1>2. StockQuestion /\ [Next]_algorithmVars => StockQuestion'
  BY OneAnswer DEF StockQuestion, StockOf, Asking
<1>3. AnsweredAsComputed /\ [Next]_algorithmVars => AnsweredAsComputed'
  <2> SUFFICES ASSUME AnsweredAsComputed, [Next]_algorithmVars PROVE AnsweredAsComputed'
    OBVIOUS
  <2>1. CASE answer' = answer
    BY <2>1, OneAnswer DEF AnsweredAsComputed, Answered, Asking
  <2>2. CASE AnswerWarehouse
    BY <2>2 DEF AnswerWarehouse, AnsweredAsComputed
  <2>3. CASE AnswerMatch \/ AnswerTracking
    BY <2>3 DEF AnswerMatch, AnswerTracking, Asked, Asking, AnsweredAsComputed, Answered
  <2> QED  BY <2>1, <2>2, <2>3, OneAnswer
<1>4. StockQuestion /\ AnsweredAsComputed => DecisionIsSafe
  <2>1. Places # {}
    <3> DEFINE R == [wh : Places, region : Regions, preferred : BOOLEAN]
    <3>1. Rules \in Seq(R) /\ Rules # <<>>
      BY RulesAssumption, StockAssumption
    <3> HIDE DEF R
    <3>2. 1 \in DOMAIN Rules
      BY <3>1
    <3> QED  BY <3>2 DEF Places
  <2> QED  BY <2>1, AvailabilityIsSafe DEF DecisionIsSafe, AnsweredAsComputed, Answered
<1> QED  BY <1>1, <1>2, <1>3, <1>4, StockQuestionInit, PTL DEF Spec

--------------------------------------------------------------------------------
(* Which record an audit is matched with, for any records *)

(* FoldLeft takes the highest position of a set. *)
Maximal(A) == CHOOSE x \in A : \A y \in A : x >= y

LEMMA TopmostIsMax ==
  ASSUME NEW n \in Nat, NEW A \in SUBSET (1 .. n)
  PROVE  Topmost[A] = Maximal(A)
<1>1. A \in SUBSET Nat
  OBVIOUS
<1> QED  BY <1>1 DEF Topmost, Maximal

(* The loop that collects the records of a group, record by record. *)
Collect(gathered, r, group) == IF r \in group THEN Append(gathered, r) ELSE gathered

LEMMA CollectStays ==
  ASSUME NEW gathered \in Seq(Record), NEW r \in Record, NEW group
  PROVE  Collect(gathered, r, group) \in Seq(Record)
<1> DEFINE R == Record
<1>1. gathered \in Seq(R) /\ r \in R
  OBVIOUS
<1> HIDE DEF R
<1>2. Append(gathered, r) \in Seq(R)
  BY <1>1
<1> QED  BY <1>1, <1>2 DEF Collect, R

CollectIs(g, records, group) ==
  g = [A \in SUBSET DOMAIN records |->
         IF A = {} THEN <<>> ELSE Collect(g[A \ {Maximal(A)}], records[Maximal(A)], group)]

LEMMA CollectIsFold ==
  ASSUME NEW records, NEW group
  PROVE  Gathered(records, group) = (CHOOSE g : CollectIs(g, records, group))[DOMAIN records]
BY DEF Gathered, Collect, CollectIs, Maximal, FoldLeft, MapThenFoldSet, Max

CollectSteps(records, group) ==
  [v \in Seq(Record) \X (1 .. Len(records)) |-> Collect(v[1], records[v[2]], group)]

LEMMA CollectAlong ==
  ASSUME NEW records \in Seq(Record), NEW group
  PROVE  FoldsTo(Gathered(records, group), <<>>, CollectSteps(records, group), Seq(Record), Len(records))
<1> DEFINE n == Len(records)
           D == 1 .. n
           V == Seq(Record)
           step == CollectSteps(records, group)
<1>1. n \in Nat /\ DOMAIN records = D /\ PicksFrom(Topmost, D) /\ <<>> \in V
      /\ \A i \in D : records[i] \in Record
  BY TopmostOf
<1>2. ASSUME NEW v \in V, NEW i \in D PROVE Collect(v, records[i], group) \in V
  BY <1>1, CollectStays
<1>3. ASSUME NEW v \in V, NEW i \in D PROVE step[<<v, i>>] = Collect(v, records[i], group)
  <2> HIDE DEF V
  <2> QED  BY DEF CollectSteps, V
<1>4. step \in [V \X D -> V]
  <2> HIDE DEF V
  <2> QED  BY <1>2 DEF CollectSteps, V
<1>5. \A A \in SUBSET D : Topmost[A] = Maximal(A) /\ (A # {} => Topmost[A] \in D)
  BY <1>1, TopmostIsMax DEF PicksFrom
<1>6. PICK h : FoldTable(h, <<>>, step, Topmost, D) /\ \A A \in SUBSET D : h[A] \in V
  <2>1. Positions(D, n)
    BY <1>1 DEF Positions
  <2> HIDE DEF n, D, V, step
  <2> QED  BY <1>1, <1>4, <2>1, FoldExists
<1>7. CollectIs(h, records, group)
  <2>1. ASSUME NEW A \in SUBSET D, A # {}
        PROVE  step[<<h[A \ {Topmost[A]}], Topmost[A]>>]
                 = Collect(h[A \ {Maximal(A)}], records[Maximal(A)], group)
    <3> DEFINE i == Topmost[A]
               v == h[A \ {i}]
    <3>1. v \in V /\ i \in D /\ i = Maximal(A)
      BY <1>5, <1>6, <2>1
    <3> HIDE DEF v, i, V, D, step
    <3>2. step[<<v, i>>] = Collect(v, records[i], group)
      BY <1>3, <3>1
    <3> QED  BY <3>1, <3>2 DEF v, i
  <2>2. [A \in SUBSET D |-> IF A = {} THEN <<>>
                            ELSE step[<<h[A \ {Topmost[A]}], Topmost[A]>>]]
         = [A \in SUBSET D |-> IF A = {} THEN <<>>
                             ELSE Collect(h[A \ {Maximal(A)}], records[Maximal(A)], group)]
    <3> HIDE DEF D, step
    <3> QED  BY <2>1
  <2> HIDE DEF D, step
  <2> QED  BY <1>1, <1>6, <2>2 DEF CollectIs, FoldTable
<1> DEFINE g == CHOOSE g : CollectIs(g, records, group)
<1>8. CollectIs(g, records, group)
  BY <1>7
<1> HIDE DEF g
<1>9. StepsThrough(g, <<>>, step, V, D)
  <2>1. \A A \in SUBSET D : g[A] = IF A = {} THEN <<>>
                                  ELSE Collect(g[A \ {Maximal(A)}], records[Maximal(A)], group)
    BY <1>1, <1>8 DEF CollectIs
  <2>2. ASSUME NEW A \in SUBSET D, A # {}, g[A \ {Topmost[A]}] \in V
        PROVE  g[A] = step[<<g[A \ {Topmost[A]}], Topmost[A]>>]
    <3> DEFINE i == Topmost[A]
               v == g[A \ {i}]
    <3>1. v \in V /\ i \in D /\ i = Maximal(A)
      BY <1>5, <2>2
    <3>2. g[A] = Collect(v, records[i], group)
      BY <2>1, <2>2, <3>1
    <3> HIDE DEF v, i, V, D, step
    <3> QED  BY <1>3, <3>1, <3>2 DEF v, i
  <2>3. g[{}] = <<>>
    BY <2>1
  <2> HIDE DEF V, step, D
  <2> QED  BY <2>2, <2>3 DEF StepsThrough
<1>10. Gathered(records, group) = g[D]
  BY <1>1, CollectIsFold DEF g
<1>11. FoldsTo(g[D], <<>>, step, V, n)
  <2>1. Positions(D, n) /\ <<>> \in V
    BY <1>1 DEF Positions
  <2> HIDE DEF V, D, step, n
  <2> QED  BY <1>4, <1>9, <2>1, PrefixesFold
<1> QED  BY <1>10, <1>11

(* The rest of the candidates, past the first one. *)
LEMMA TailOf ==
  ASSUME NEW cs \in Seq(Record), cs # <<>>
  PROVE  /\ Len(cs) \in Nat \ {0} /\ Len(Tail(cs)) = Len(cs) - 1
         /\ DOMAIN Tail(cs) = 1 .. Len(Tail(cs))
         /\ \A i \in 1 .. Len(Tail(cs)) : Tail(cs)[i] = cs[i + 1]
         /\ \A i \in 1 .. Len(cs) : cs[i] \in Record
         /\ Head(cs) = cs[1]
<1> DEFINE R == Record
<1>1. cs \in Seq(R)
  OBVIOUS
<1> HIDE DEF R
<1>2. /\ Len(cs) \in Nat \ {0} /\ Len(Tail(cs)) = Len(cs) - 1
      /\ DOMAIN Tail(cs) = 1 .. Len(Tail(cs))
      /\ \A i \in 1 .. Len(Tail(cs)) : Tail(cs)[i] = cs[i + 1]
      /\ \A i \in 1 .. Len(cs) : cs[i] \in R
      /\ Head(cs) = cs[1]
  BY <1>1
<1> QED  BY <1>2 DEF R

(* One candidate of Pass: is it taken? *)
Takes(selected, c, wh) == IF Prefer(c, selected, wh) THEN c ELSE selected

PassIs(g, cs, wh) ==
  g = [A \in SUBSET DOMAIN Tail(cs) |->
         IF A = {} THEN Head(cs) ELSE Takes(g[A \ {Maximal(A)}], Tail(cs)[Maximal(A)], wh)]

LEMMA PassIsFold ==
  ASSUME NEW cs, cs # <<>>, NEW wh
  PROVE  Pass(cs, wh) = (CHOOSE g : PassIs(g, cs, wh))[DOMAIN Tail(cs)]
BY DEF Pass, Takes, PassIs, Maximal, FoldLeft, MapThenFoldSet, Max

PassSteps(cs, wh) ==
  [v \in Record \X (1 .. Len(Tail(cs))) |-> Takes(v[1], Tail(cs)[v[2]], wh)]

LEMMA PassAlong ==
  ASSUME NEW cs \in Seq(Record), cs # <<>>, NEW wh
  PROVE  FoldsTo(Pass(cs, wh), Head(cs), PassSteps(cs, wh), Record, Len(Tail(cs)))
<1> DEFINE n == Len(Tail(cs))
           D == 1 .. n
           V == Record
           step == PassSteps(cs, wh)
<1>1. n \in Nat /\ DOMAIN Tail(cs) = D /\ PicksFrom(Topmost, D) /\ Head(cs) \in V
      /\ \A i \in D : Tail(cs)[i] \in Record
  BY TopmostOf, TailOf
<1>2. ASSUME NEW v \in V, NEW i \in D PROVE Takes(v, Tail(cs)[i], wh) \in V
  BY <1>1 DEF Takes
<1>3. ASSUME NEW v \in V, NEW i \in D PROVE step[<<v, i>>] = Takes(v, Tail(cs)[i], wh)
  <2> HIDE DEF V
  <2> QED  BY DEF PassSteps, V
<1>4. step \in [V \X D -> V]
  <2> HIDE DEF V
  <2> QED  BY <1>2 DEF PassSteps, V
<1>5. \A A \in SUBSET D : Topmost[A] = Maximal(A) /\ (A # {} => Topmost[A] \in D)
  BY <1>1, TopmostIsMax DEF PicksFrom
<1>6. PICK h : FoldTable(h, Head(cs), step, Topmost, D) /\ \A A \in SUBSET D : h[A] \in V
  <2>1. Positions(D, n)
    BY <1>1 DEF Positions
  <2> HIDE DEF n, D, V, step
  <2> QED  BY <1>1, <1>4, <2>1, FoldExists
<1>7. PassIs(h, cs, wh)
  <2>1. ASSUME NEW A \in SUBSET D, A # {}
        PROVE  step[<<h[A \ {Topmost[A]}], Topmost[A]>>]
                 = Takes(h[A \ {Maximal(A)}], Tail(cs)[Maximal(A)], wh)
    <3> DEFINE i == Topmost[A]
               v == h[A \ {i}]
    <3>1. v \in V /\ i \in D /\ i = Maximal(A)
      BY <1>5, <1>6, <2>1
    <3> HIDE DEF v, i, V, D, step
    <3>2. step[<<v, i>>] = Takes(v, Tail(cs)[i], wh)
      BY <1>3, <3>1
    <3> QED  BY <3>1, <3>2 DEF v, i
  <2>2. [A \in SUBSET D |-> IF A = {} THEN Head(cs)
                            ELSE step[<<h[A \ {Topmost[A]}], Topmost[A]>>]]
         = [A \in SUBSET D |-> IF A = {} THEN Head(cs)
                             ELSE Takes(h[A \ {Maximal(A)}], Tail(cs)[Maximal(A)], wh)]
    <3> HIDE DEF D, step
    <3> QED  BY <2>1
  <2> HIDE DEF D, step
  <2> QED  BY <1>1, <1>6, <2>2 DEF PassIs, FoldTable
<1> DEFINE g == CHOOSE g : PassIs(g, cs, wh)
<1>8. PassIs(g, cs, wh)
  BY <1>7
<1> HIDE DEF g
<1>9. StepsThrough(g, Head(cs), step, V, D)
  <2>1. \A A \in SUBSET D : g[A] = IF A = {} THEN Head(cs)
                                  ELSE Takes(g[A \ {Maximal(A)}], Tail(cs)[Maximal(A)], wh)
    BY <1>1, <1>8 DEF PassIs
  <2>2. ASSUME NEW A \in SUBSET D, A # {}, g[A \ {Topmost[A]}] \in V
        PROVE  g[A] = step[<<g[A \ {Topmost[A]}], Topmost[A]>>]
    <3> DEFINE i == Topmost[A]
               v == g[A \ {i}]
    <3>1. v \in V /\ i \in D /\ i = Maximal(A)
      BY <1>5, <2>2
    <3>2. g[A] = Takes(v, Tail(cs)[i], wh)
      BY <2>1, <2>2, <3>1
    <3> HIDE DEF v, i, V, D, step
    <3> QED  BY <1>3, <3>1, <3>2 DEF v, i
  <2>3. g[{}] = Head(cs)
    BY <2>1
  <2> HIDE DEF V, step, D
  <2> QED  BY <2>2, <2>3 DEF StepsThrough
<1>10. Pass(cs, wh) = g[D]
  BY <1>1, PassIsFold DEF g
<1>11. FoldsTo(g[D], Head(cs), step, V, n)
  <2>1. Positions(D, n) /\ Head(cs) \in V
    BY <1>1 DEF Positions
  <2> HIDE DEF V, D, step, n
  <2> QED  BY <1>4, <1>9, <2>1, PrefixesFold
<1> QED  BY <1>10, <1>11

(* One candidate of TrackingPass: is it taken? *)
TakenByTracking(selected, c, wh) == IF PreferTracking(c, selected, wh) THEN c ELSE selected

TrackingPassIs(g, cs, wh) ==
  g = [A \in SUBSET DOMAIN Tail(cs) |->
         IF A = {} THEN Head(cs) ELSE TakenByTracking(g[A \ {Maximal(A)}], Tail(cs)[Maximal(A)], wh)]

LEMMA TrackingPassIsFold ==
  ASSUME NEW cs, cs # <<>>, NEW wh
  PROVE  TrackingPass(cs, wh) = (CHOOSE g : TrackingPassIs(g, cs, wh))[DOMAIN Tail(cs)]
BY DEF TrackingPass, TakenByTracking, TrackingPassIs, Maximal, FoldLeft, MapThenFoldSet, Max

TrackingPassSteps(cs, wh) ==
  [v \in Record \X (1 .. Len(Tail(cs))) |-> TakenByTracking(v[1], Tail(cs)[v[2]], wh)]

LEMMA TrackingPassAlong ==
  ASSUME NEW cs \in Seq(Record), cs # <<>>, NEW wh
  PROVE  FoldsTo(TrackingPass(cs, wh), Head(cs), TrackingPassSteps(cs, wh), Record, Len(Tail(cs)))
<1> DEFINE n == Len(Tail(cs))
           D == 1 .. n
           V == Record
           step == TrackingPassSteps(cs, wh)
<1>1. n \in Nat /\ DOMAIN Tail(cs) = D /\ PicksFrom(Topmost, D) /\ Head(cs) \in V
      /\ \A i \in D : Tail(cs)[i] \in Record
  BY TopmostOf, TailOf
<1>2. ASSUME NEW v \in V, NEW i \in D PROVE TakenByTracking(v, Tail(cs)[i], wh) \in V
  BY <1>1 DEF TakenByTracking
<1>3. ASSUME NEW v \in V, NEW i \in D PROVE step[<<v, i>>] = TakenByTracking(v, Tail(cs)[i], wh)
  <2> HIDE DEF V
  <2> QED  BY DEF TrackingPassSteps, V
<1>4. step \in [V \X D -> V]
  <2> HIDE DEF V
  <2> QED  BY <1>2 DEF TrackingPassSteps, V
<1>5. \A A \in SUBSET D : Topmost[A] = Maximal(A) /\ (A # {} => Topmost[A] \in D)
  BY <1>1, TopmostIsMax DEF PicksFrom
<1>6. PICK h : FoldTable(h, Head(cs), step, Topmost, D) /\ \A A \in SUBSET D : h[A] \in V
  <2>1. Positions(D, n)
    BY <1>1 DEF Positions
  <2> HIDE DEF n, D, V, step
  <2> QED  BY <1>1, <1>4, <2>1, FoldExists
<1>7. TrackingPassIs(h, cs, wh)
  <2>1. ASSUME NEW A \in SUBSET D, A # {}
        PROVE  step[<<h[A \ {Topmost[A]}], Topmost[A]>>]
                 = TakenByTracking(h[A \ {Maximal(A)}], Tail(cs)[Maximal(A)], wh)
    <3> DEFINE i == Topmost[A]
               v == h[A \ {i}]
    <3>1. v \in V /\ i \in D /\ i = Maximal(A)
      BY <1>5, <1>6, <2>1
    <3> HIDE DEF v, i, V, D, step
    <3>2. step[<<v, i>>] = TakenByTracking(v, Tail(cs)[i], wh)
      BY <1>3, <3>1
    <3> QED  BY <3>1, <3>2 DEF v, i
  <2>2. [A \in SUBSET D |-> IF A = {} THEN Head(cs)
                            ELSE step[<<h[A \ {Topmost[A]}], Topmost[A]>>]]
         = [A \in SUBSET D |-> IF A = {} THEN Head(cs)
                             ELSE TakenByTracking(h[A \ {Maximal(A)}], Tail(cs)[Maximal(A)], wh)]
    <3> HIDE DEF D, step
    <3> QED  BY <2>1
  <2> HIDE DEF D, step
  <2> QED  BY <1>1, <1>6, <2>2 DEF TrackingPassIs, FoldTable
<1> DEFINE g == CHOOSE g : TrackingPassIs(g, cs, wh)
<1>8. TrackingPassIs(g, cs, wh)
  BY <1>7
<1> HIDE DEF g
<1>9. StepsThrough(g, Head(cs), step, V, D)
  <2>1. \A A \in SUBSET D : g[A] = IF A = {} THEN Head(cs)
                                  ELSE TakenByTracking(g[A \ {Maximal(A)}], Tail(cs)[Maximal(A)], wh)
    BY <1>1, <1>8 DEF TrackingPassIs
  <2>2. ASSUME NEW A \in SUBSET D, A # {}, g[A \ {Topmost[A]}] \in V
        PROVE  g[A] = step[<<g[A \ {Topmost[A]}], Topmost[A]>>]
    <3> DEFINE i == Topmost[A]
               v == g[A \ {i}]
    <3>1. v \in V /\ i \in D /\ i = Maximal(A)
      BY <1>5, <2>2
    <3>2. g[A] = TakenByTracking(v, Tail(cs)[i], wh)
      BY <2>1, <2>2, <3>1
    <3> HIDE DEF v, i, V, D, step
    <3> QED  BY <1>3, <3>1, <3>2 DEF v, i
  <2>3. g[{}] = Head(cs)
    BY <2>1
  <2> HIDE DEF V, step, D
  <2> QED  BY <2>2, <2>3 DEF StepsThrough
<1>10. TrackingPass(cs, wh) = g[D]
  BY <1>1, TrackingPassIsFold DEF g
<1>11. FoldsTo(g[D], Head(cs), step, V, n)
  <2>1. Positions(D, n) /\ Head(cs) \in V
    BY <1>1 DEF Positions
  <2> HIDE DEF V, D, step, n
  <2> QED  BY <1>4, <1>9, <2>1, PrefixesFold
<1> QED  BY <1>10, <1>11

--------------------------------------------------------------------------------
(* What the loops find *)

LEMMA AppendAdds ==
  ASSUME NEW R, NEW s \in Seq(R), NEW r \in R
  PROVE  ToSet(Append(s, r)) = ToSet(s) \cup {r}
<1>1. /\ Append(s, r) \in Seq(R) /\ Len(Append(s, r)) = Len(s) + 1 /\ Len(s) \in Nat
      /\ \A i \in 1 .. Len(s) : Append(s, r)[i] = s[i]
      /\ Append(s, r)[Len(s) + 1] = r
      /\ DOMAIN s = 1 .. Len(s) /\ DOMAIN Append(s, r) = 1 .. (Len(s) + 1)
  OBVIOUS
<1>2. ASSUME NEW x \in ToSet(Append(s, r)) PROVE x \in ToSet(s) \cup {r}
  BY <1>1, <1>2 DEF ToSet
<1>3. ASSUME NEW x \in ToSet(s) \cup {r} PROVE x \in ToSet(Append(s, r))
  <2>1. CASE x \in ToSet(s)
    <3>1. PICK i \in 1 .. Len(s) : x = s[i]
      BY <1>1, <2>1 DEF ToSet
    <3>2. i \in 1 .. (Len(s) + 1) /\ Append(s, r)[i] = x
      BY <1>1, <3>1
    <3> QED  BY <1>1, <3>2 DEF ToSet
  <2>2. CASE x = r
    <3>1. Len(s) + 1 \in 1 .. (Len(s) + 1)
      BY <1>1
    <3> QED  BY <1>1, <2>2, <3>1 DEF ToSet
  <2> QED  BY <1>3, <2>1, <2>2
<1> QED  BY <1>2, <1>3

(* The loop gathers the records of the group, and all of them. *)
LEMMA GatheredIsGroup ==
  ASSUME NEW records \in Seq(Record), NEW group
  PROVE  Gathered(records, group) \in Seq(Record) /\ ToSet(Gathered(records, group)) = ToSet(records) \cap group
<1> DEFINE n == Len(records)
           V == Seq(Record)
           upto(k) == {records[i] : i \in 1 .. k} \cap group
<1>1. n \in Nat /\ DOMAIN records = 1 .. n /\ \A i \in 1 .. n : records[i] \in Record
  OBVIOUS
<1>2. PICK p : FoldsAlong(p, <<>>, CollectSteps(records, group), V, n) /\ p[n] = Gathered(records, group)
  <2>1. FoldsTo(Gathered(records, group), <<>>, CollectSteps(records, group), V, n)
    BY CollectAlong
  <2> HIDE DEF V, n
  <2> QED  BY <2>1 DEF FoldsTo
<1>3. ASSUME NEW k \in 1 .. n PROVE p[k] = Collect(p[k - 1], records[k], group) /\ p[k - 1] \in V
  <2>1. k - 1 \in 0 .. n
    OBVIOUS
  <2>2. p[k - 1] \in V /\ p[k] = CollectSteps(records, group)[<<p[k - 1], k>>]
    <3> HIDE DEF V
    <3> QED  BY <1>2, <2>1 DEF FoldsAlong
  <2> DEFINE v == p[k - 1]
  <2> HIDE DEF v
  <2>3. v \in V => CollectSteps(records, group)[<<v, k>>] = Collect(v, records[k], group)
    BY DEF CollectSteps
  <2> QED  BY <2>2, <2>3 DEF v
<1> DEFINE B == {k \in 0 .. n : ToSet(p[k]) = upto(k)}
<1>4. 0 \in B
  <2>1. p[0] = <<>> /\ 1 .. 0 = {}
    BY <1>2 DEF FoldsAlong
  <2>2. ToSet(<<>>) = {}
    BY DEF ToSet
  <2> QED  BY <1>1, <2>1, <2>2
<1>5. ASSUME NEW k \in 1 .. n, k - 1 \in B PROVE k \in B
  <2> DEFINE s == p[k - 1]
             r == records[k]
  <2>1. s \in V /\ r \in Record /\ p[k] = Collect(s, r, group) /\ ToSet(s) = upto(k - 1)
    BY <1>1, <1>3, <1>5
  <2>2. upto(k) = upto(k - 1) \cup ({r} \cap group)
    <3>1. 1 .. k = (1 .. (k - 1)) \cup {k}
      BY <1>1
    <3> QED  BY <3>1
  <2>3. ToSet(Append(s, r)) = ToSet(s) \cup {r}
    <3> DEFINE R == Record
    <3>1. s \in Seq(R) /\ r \in R
      BY <2>1
    <3> HIDE DEF R, s, r
    <3> QED  BY <3>1, AppendAdds
  <2>4. ToSet(p[k]) = upto(k)
    <3> HIDE DEF s, r, upto, V
    <3>1. CASE r \in group
      BY <2>1, <2>2, <2>3, <3>1 DEF Collect
    <3>2. CASE r \notin group
      BY <2>1, <2>2, <3>2 DEF Collect
    <3> QED  BY <3>1, <3>2
  <2> QED  BY <1>1, <2>4
<1>6. n \in B
  <2>1. 0 .. n \subseteq B
    <3> HIDE DEF B, n
    <3> QED  BY <1>1, <1>4, <1>5, UpTo
  <2> HIDE DEF B
  <2> QED  BY <1>1, <2>1
<1>7. ToSet(records) = {records[i] : i \in 1 .. n}
  BY <1>1 DEF ToSet
<1>8. Gathered(records, group) \in V
  <2> HIDE DEF V, n
  <2> QED  BY <1>1, <1>2 DEF FoldsAlong
<1> QED  BY <1>2, <1>6, <1>7, <1>8

(* Taking a candidate whenever its rank is higher ends with one of the highest rank. *)
LEMMA BestAlong ==
  ASSUME NEW n \in Nat, NEW R, NEW rank \in [R -> Nat], NEW c, \A i \in 1 .. (n + 1) : c[i] \in R,
         NEW p, p[0] = c[1], \A k \in 0 .. n : p[k] \in R,
         \A k \in 1 .. n : p[k] = IF rank[c[k + 1]] > rank[p[k - 1]] THEN c[k + 1] ELSE p[k - 1]
  PROVE  /\ \E i \in 1 .. (n + 1) : p[n] = c[i]
         /\ \A i \in 1 .. (n + 1) : rank[c[i]] <= rank[p[n]]
<1> DEFINE Best(k) == /\ \E i \in 1 .. (k + 1) : p[k] = c[i]
                      /\ \A i \in 1 .. (k + 1) : rank[c[i]] <= rank[p[k]]
           B == {k \in 0 .. n : Best(k)}
<1>1. 0 \in B
  <2>1. 1 .. (0 + 1) = {1}
    OBVIOUS
  <2>2. c[1] \in R /\ rank[c[1]] \in Nat
    OBVIOUS
  <2> QED  BY <2>1, <2>2
<1>2. ASSUME NEW k \in 1 .. n, k - 1 \in B PROVE k \in B
  <2>1. Best(k - 1) /\ p[k - 1] \in R /\ c[k + 1] \in R /\ p[k] \in R
    BY <1>2
  <2>2. 1 .. (k + 1) = (1 .. k) \cup {k + 1} /\ (k - 1) + 1 = k
    OBVIOUS
  <2>3. rank[p[k - 1]] \in Nat /\ rank[c[k + 1]] \in Nat /\ \A i \in 1 .. k : rank[c[i]] \in Nat
    BY <2>1
  <2>4. (\E i \in 1 .. k : p[k - 1] = c[i]) /\ \A i \in 1 .. k : rank[c[i]] <= rank[p[k - 1]]
    BY <2>1, <2>2
  <2>5. CASE rank[c[k + 1]] > rank[p[k - 1]]
    <3>1. p[k] = c[k + 1]
      BY <2>5
    <3>2. \A i \in 1 .. (k + 1) : rank[c[i]] <= rank[p[k]]
      BY <2>2, <2>3, <2>4, <2>5, <3>1
    <3> QED  BY <3>1, <3>2
  <2>6. CASE ~(rank[c[k + 1]] > rank[p[k - 1]])
    <3>1. p[k] = p[k - 1]
      BY <2>6
    <3>2. \A i \in 1 .. (k + 1) : rank[c[i]] <= rank[p[k]]
      BY <2>2, <2>3, <2>4, <2>6, <3>1
    <3>3. \E i \in 1 .. (k + 1) : p[k] = c[i]
      BY <2>2, <2>4, <3>1
    <3> QED  BY <3>2, <3>3
  <2> QED  BY <2>5, <2>6
<1>3. n \in B
  <2>1. 0 .. n \subseteq B
    <3> HIDE DEF B
    <3> QED  BY <1>1, <1>2, UpTo
  <2> HIDE DEF B
  <2> QED  BY <2>1
<1> QED  BY <1>3

--------------------------------------------------------------------------------
(* The preferences are orders of two numbers *)

Where == Warehouses \cup {NoWarehouse}

LEMMA RanksAreNat ==
  ASSUME NEW r \in Record, NEW wh
  PROVE  /\ Priority(r.status) \in 0 .. 4 /\ Here(r, wh) \in 0 .. 1
         /\ ByPlace(r, wh) \in Nat /\ ByStatus(r, wh) \in Nat
<1>1. r.status \in Status
  BY DEF Record
<1>2. Priority(r.status) \in 0 .. 4 /\ Here(r, wh) \in 0 .. 1
  BY <1>1 DEF Priority, Here, Status
<1> QED  BY <1>2 DEF ByPlace, ByStatus

(* preferOutboundRecord: the warehouse of the audit first, then the status. *)
LEMMA PreferIsByPlace ==
  ASSUME NEW c \in Record, NEW s \in Record, NEW wh \in Where
  PROVE  Prefer(c, s, wh) <=> ByPlace(c, wh) > ByPlace(s, wh)
<1>1. /\ Priority(c.status) \in 0 .. 4 /\ Priority(s.status) \in 0 .. 4
      /\ wh = NoWarehouse => c.wh # wh /\ s.wh # wh
  BY RanksAreNat, WarehousesAssumption DEF WarehousesAssumption, Record
<1> DEFINE pc == Priority(c.status)
           ps == Priority(s.status)
<1>2. Prefer(c, s, wh) <=> IF wh # NoWarehouse /\ ~((c.wh = wh) <=> (s.wh = wh)) THEN c.wh = wh ELSE pc > ps
  BY DEF Prefer
<1>3. ByPlace(c, wh) = 5 * (IF c.wh = wh THEN 1 ELSE 0) + pc
      /\ ByPlace(s, wh) = 5 * (IF s.wh = wh THEN 1 ELSE 0) + ps
  BY DEF ByPlace, Here
<1> HIDE DEF pc, ps
<1>4. pc \in 0 .. 4 /\ ps \in 0 .. 4
  BY <1>1 DEF pc, ps
<1>5. CASE c.wh = wh /\ s.wh = wh
  BY <1>2, <1>3, <1>4, <1>5
<1>6. CASE c.wh = wh /\ s.wh # wh
  BY <1>1, <1>2, <1>3, <1>4, <1>6
<1>7. CASE c.wh # wh /\ s.wh = wh
  BY <1>1, <1>2, <1>3, <1>4, <1>7
<1>8. CASE c.wh # wh /\ s.wh # wh
  BY <1>2, <1>3, <1>4, <1>8
<1> QED  BY <1>5, <1>6, <1>7, <1>8

(* The pass over the tracking numbers: the status first, then the warehouse. *)
LEMMA PreferTrackingIsByStatus ==
  ASSUME NEW c \in Record, NEW s \in Record, NEW wh \in Where
  PROVE  PreferTracking(c, s, wh) <=> ByStatus(c, wh) > ByStatus(s, wh)
<1> DEFINE pc == Priority(c.status)
           ps == Priority(s.status)
           hc == Here(c, wh)
           hs == Here(s, wh)
<1>1. PreferTracking(c, s, wh) <=> pc > ps \/ (pc = ps /\ 5 * hc + pc > 5 * hs + ps)
  BY PreferIsByPlace DEF PreferTracking, ByPlace
<1>2. ByStatus(c, wh) = 2 * pc + hc /\ ByStatus(s, wh) = 2 * ps + hs
  BY DEF ByStatus
<1>3. pc \in 0 .. 4 /\ ps \in 0 .. 4 /\ hc \in 0 .. 1 /\ hs \in 0 .. 1
  BY RanksAreNat
<1> HIDE DEF pc, ps, hc, hs
<1> QED  BY <1>1, <1>2, <1>3

--------------------------------------------------------------------------------
(* What the passes find *)

BestOf(r, group, rank) == r \in group /\ \A q \in group : rank[q] <= rank[r]

PlaceRank(wh) == [r \in Record |-> ByPlace(r, wh)]
StatusRank(wh) == [r \in Record |-> ByStatus(r, wh)]

LEMMA PassIsBest ==
  ASSUME NEW cs \in Seq(Record), cs # <<>>, NEW wh \in Where
  PROVE  BestOf(Pass(cs, wh), ToSet(cs), PlaceRank(wh))
<1> DEFINE n == Len(Tail(cs))
           rank == PlaceRank(wh)
<1>1. /\ n \in Nat /\ Len(cs) = n + 1 /\ DOMAIN cs = 1 .. (n + 1)
      /\ \A i \in 1 .. n : Tail(cs)[i] = cs[i + 1]
      /\ \A i \in 1 .. (n + 1) : cs[i] \in Record
      /\ Head(cs) = cs[1]
  <2>1. DOMAIN cs = 1 .. Len(cs)
    OBVIOUS
  <2> QED  BY TailOf, <2>1
<1>2. PICK p : FoldsAlong(p, Head(cs), PassSteps(cs, wh), Record, n) /\ p[n] = Pass(cs, wh)
  <2>1. FoldsTo(Pass(cs, wh), Head(cs), PassSteps(cs, wh), Record, n)
    BY PassAlong
  <2> HIDE DEF n
  <2> QED  BY <2>1 DEF FoldsTo
<1>3. rank \in [Record -> Nat] /\ \A r \in Record : rank[r] = ByPlace(r, wh)
  BY RanksAreNat DEF PlaceRank
<1>4. p[0] = cs[1] /\ \A k \in 0 .. n : p[k] \in Record
  BY <1>1, <1>2 DEF FoldsAlong
<1>5. ASSUME NEW k \in 1 .. n
      PROVE  p[k] = IF rank[cs[k + 1]] > rank[p[k - 1]] THEN cs[k + 1] ELSE p[k - 1]
  <2> DEFINE v == p[k - 1]
             c == cs[k + 1]
  <2>1. k - 1 \in 0 .. n /\ k + 1 \in 1 .. (n + 1)
    BY <1>1
  <2>2. v \in Record /\ c \in Record /\ Tail(cs)[k] = c
    BY <1>1, <1>4, <2>1
  <2>3. p[k] = PassSteps(cs, wh)[<<v, k>>]
    BY <1>2 DEF FoldsAlong
  <2> HIDE DEF v, c, rank
  <2>4. PassSteps(cs, wh)[<<v, k>>] = Takes(v, c, wh)
    BY <2>2 DEF PassSteps
  <2>5. Prefer(c, v, wh) <=> rank[c] > rank[v]
    BY <1>3, <2>2, PreferIsByPlace
  <2>6. p[k] = IF rank[c] > rank[v] THEN c ELSE v
    BY <2>3, <2>4, <2>5 DEF Takes
  <2> QED  BY <2>6 DEF v, c
<1>6. /\ \E i \in 1 .. (n + 1) : p[n] = cs[i]
      /\ \A i \in 1 .. (n + 1) : rank[cs[i]] <= rank[p[n]]
  <2> HIDE DEF n, rank
  <2> QED  BY <1>1, <1>3, <1>4, <1>5, BestAlong
<1> HIDE DEF n, rank
<1>7. ToSet(cs) = {cs[i] : i \in 1 .. (n + 1)}
  BY <1>1 DEF ToSet
<1> QED  BY <1>2, <1>6, <1>7 DEF BestOf, rank

LEMMA TrackingPassIsBest ==
  ASSUME NEW cs \in Seq(Record), cs # <<>>, NEW wh \in Where
  PROVE  BestOf(TrackingPass(cs, wh), ToSet(cs), StatusRank(wh))
<1> DEFINE n == Len(Tail(cs))
           rank == StatusRank(wh)
<1>1. /\ n \in Nat /\ Len(cs) = n + 1 /\ DOMAIN cs = 1 .. (n + 1)
      /\ \A i \in 1 .. n : Tail(cs)[i] = cs[i + 1]
      /\ \A i \in 1 .. (n + 1) : cs[i] \in Record
      /\ Head(cs) = cs[1]
  <2>1. DOMAIN cs = 1 .. Len(cs)
    OBVIOUS
  <2> QED  BY TailOf, <2>1
<1>2. PICK p : FoldsAlong(p, Head(cs), TrackingPassSteps(cs, wh), Record, n) /\ p[n] = TrackingPass(cs, wh)
  <2>1. FoldsTo(TrackingPass(cs, wh), Head(cs), TrackingPassSteps(cs, wh), Record, n)
    BY TrackingPassAlong
  <2> HIDE DEF n
  <2> QED  BY <2>1 DEF FoldsTo
<1>3. rank \in [Record -> Nat] /\ \A r \in Record : rank[r] = ByStatus(r, wh)
  BY RanksAreNat DEF StatusRank
<1>4. p[0] = cs[1] /\ \A k \in 0 .. n : p[k] \in Record
  BY <1>1, <1>2 DEF FoldsAlong
<1>5. ASSUME NEW k \in 1 .. n
      PROVE  p[k] = IF rank[cs[k + 1]] > rank[p[k - 1]] THEN cs[k + 1] ELSE p[k - 1]
  <2> DEFINE v == p[k - 1]
             c == cs[k + 1]
  <2>1. k - 1 \in 0 .. n /\ k + 1 \in 1 .. (n + 1)
    BY <1>1
  <2>2. v \in Record /\ c \in Record /\ Tail(cs)[k] = c
    BY <1>1, <1>4, <2>1
  <2>3. p[k] = TrackingPassSteps(cs, wh)[<<v, k>>]
    BY <1>2 DEF FoldsAlong
  <2> HIDE DEF v, c, rank
  <2>4. TrackingPassSteps(cs, wh)[<<v, k>>] = TakenByTracking(v, c, wh)
    BY <2>2 DEF TrackingPassSteps
  <2>5. PreferTracking(c, v, wh) <=> rank[c] > rank[v]
    BY <1>3, <2>2, PreferTrackingIsByStatus
  <2>6. p[k] = IF rank[c] > rank[v] THEN c ELSE v
    BY <2>3, <2>4, <2>5 DEF TakenByTracking
  <2> QED  BY <2>6 DEF v, c
<1>6. /\ \E i \in 1 .. (n + 1) : p[n] = cs[i]
      /\ \A i \in 1 .. (n + 1) : rank[cs[i]] <= rank[p[n]]
  <2> HIDE DEF n, rank
  <2> QED  BY <1>1, <1>3, <1>4, <1>5, BestAlong
<1> HIDE DEF n, rank
<1>7. ToSet(cs) = {cs[i] : i \in 1 .. (n + 1)}
  BY <1>1 DEF ToSet
<1> QED  BY <1>2, <1>6, <1>7 DEF BestOf, rank

--------------------------------------------------------------------------------
(* The choice between the two *)

LEMMA MatchFits ==
  ASSUME NEW records \in Seq(Record), NEW wh \in Where
  PROVE  IF records = <<>> THEN Match(records, wh) = NoRecord
         ELSE Match(records, wh) \in Selected(records, wh)
<1> DEFINE Q == ToSet(records) \cap Quoting
           L == ToSet(records) \cap Labelled
           bq == Pass(Gathered(records, Quoting), wh)
           bl == TrackingPass(Gathered(records, Labelled), wh)
           place == PlaceRank(wh)
           status == StatusRank(wh)
<1>1. ToSet(records) \subseteq Record
  <2> DEFINE R == Record
  <2>1. records \in Seq(R)
    OBVIOUS
  <2> HIDE DEF R
  <2>2. ToSet(records) \subseteq R
    BY <2>1 DEF ToSet
  <2> QED  BY <2>2 DEF R
<1>2. ASSUME NEW cs \in Seq(Record) PROVE cs = <<>> <=> ToSet(cs) = {}
  <2> DEFINE R == Record
  <2>1. cs \in Seq(R)
    OBVIOUS
  <2> HIDE DEF R
  <2>2. DOMAIN cs = 1 .. Len(cs) /\ Len(cs) \in Nat /\ (cs = <<>> <=> Len(cs) = 0)
    BY <2>1
  <2>3. Len(cs) # 0 => 1 \in DOMAIN cs
    BY <2>2
  <2>4. Len(cs) = 0 => DOMAIN cs = {}
    BY <2>2
  <2> QED  BY <2>2, <2>3, <2>4 DEF ToSet
<1>3. IF Q = {} THEN bq = NoRecord ELSE BestOf(bq, Q, place)
  <2> DEFINE cs == Gathered(records, Quoting)
  <2>1. cs \in Seq(Record) /\ ToSet(cs) = Q
    BY GatheredIsGroup
  <2> HIDE DEF cs
  <2>2. cs = <<>> => Pass(cs, wh) = NoRecord
    BY DEF Pass
  <2>3. cs # <<>> => BestOf(Pass(cs, wh), ToSet(cs), place)
    BY <2>1, PassIsBest
  <2>4. cs = <<>> <=> Q = {}
    BY <1>2, <2>1
  <2> HIDE DEF Q, place
  <2> QED  BY <2>1, <2>2, <2>3, <2>4 DEF cs
<1>4. IF L = {} THEN bl = NoRecord ELSE BestOf(bl, L, status)
  <2> DEFINE cs == Gathered(records, Labelled)
  <2>1. cs \in Seq(Record) /\ ToSet(cs) = L
    BY GatheredIsGroup
  <2> HIDE DEF cs
  <2>2. cs = <<>> => TrackingPass(cs, wh) = NoRecord
    BY DEF TrackingPass
  <2>3. cs # <<>> => BestOf(TrackingPass(cs, wh), ToSet(cs), status)
    BY <2>1, TrackingPassIsBest
  <2>4. cs = <<>> <=> L = {}
    BY <1>2, <2>1
  <2> HIDE DEF L, status
  <2> QED  BY <2>1, <2>2, <2>3, <2>4 DEF cs
<1>5. ToSet(records) = Q \cup L
  BY <1>1 DEF Quoting, Labelled, Record
<1>6. records = <<>> <=> Q = {} /\ L = {}
  BY <1>2, <1>5
<1>7. Q \subseteq Record /\ L \subseteq Record /\ NoRecord \notin Record
  BY <1>1, WarehousesAssumption DEF WarehousesAssumption
<1>8. Match(records, wh) = Choose(bq, bl, wh)
  BY DEF Match
<1>9. /\ Q = {r \in ToSet(records) : r.quotes}
      /\ L = {r \in ToSet(records) : r.label}
  BY <1>1 DEF Quoting, Labelled
<1> DEFINE bestQ == {r \in Q : \A q \in Q : ByPlace(q, wh) <= ByPlace(r, wh)}
           bestL == {r \in L : \A q \in L : ByStatus(q, wh) <= ByStatus(r, wh)}
<1>10. Selected(records, wh)
         = {r \in bestQ : L = {} \/ \E n \in bestL : ByStatus(n, wh) <= ByStatus(r, wh)}
             \cup {n \in bestL : Q = {} \/ \E r \in bestQ : ByStatus(n, wh) > ByStatus(r, wh)}
  <2> HIDE DEF Q, L
  <2> QED  BY <1>9 DEF Selected
<1>11. \A r \in Record : place[r] = ByPlace(r, wh) /\ status[r] = ByStatus(r, wh)
  BY DEF PlaceRank, StatusRank
<1>12. Q # {} => bq \in bestQ /\ bq \in Record
  <2> HIDE DEF Q, bq, place
  <2> QED  BY <1>3, <1>7, <1>11 DEF BestOf
<1>13. L # {} => bl \in bestL /\ bl \in Record
  <2> HIDE DEF L, bl, status
  <2> QED  BY <1>4, <1>7, <1>11 DEF BestOf
<1>14. ASSUME Q # {}, L # {} PROVE Choose(bq, bl, wh) \in Selected(records, wh)
  <2>1. bq # NoRecord /\ bl # NoRecord
    <3> HIDE DEF bq, bl, Q, L
    <3> QED  BY <1>7, <1>12, <1>13, <1>14
  <2>2. PreferTracking(bl, bq, wh) <=> ByStatus(bl, wh) > ByStatus(bq, wh)
    <3> HIDE DEF bq, bl
    <3> QED  BY <1>12, <1>13, <1>14, PreferTrackingIsByStatus
  <2>3. ByStatus(bl, wh) \in Nat /\ ByStatus(bq, wh) \in Nat
    <3> HIDE DEF bq, bl
    <3> QED  BY <1>12, <1>13, <1>14, RanksAreNat
  <2> HIDE DEF bq, bl, Q, L, bestQ, bestL
  <2>4. CASE PreferTracking(bl, bq, wh)
    BY <1>10, <1>12, <1>13, <1>14, <2>1, <2>2, <2>4 DEF Choose
  <2>5. CASE ~PreferTracking(bl, bq, wh)
    BY <1>10, <1>12, <1>13, <1>14, <2>1, <2>2, <2>3, <2>5 DEF Choose
  <2> QED  BY <2>4, <2>5
<1> HIDE DEF bq, bl, Q, L, bestQ, bestL
<1>15. ASSUME Q = {}, L # {} PROVE Choose(bq, bl, wh) \in Selected(records, wh)
  BY <1>3, <1>10, <1>13, <1>15 DEF Choose
<1>16. ASSUME Q # {}, L = {} PROVE Choose(bq, bl, wh) \in Selected(records, wh)
  BY <1>4, <1>7, <1>10, <1>12, <1>16 DEF Choose
<1>17. ASSUME Q = {}, L = {} PROVE Choose(bq, bl, wh) = NoRecord
  BY <1>3, <1>4, <1>17 DEF Choose
<1> QED  BY <1>6, <1>8, <1>14, <1>15, <1>16, <1>17

--------------------------------------------------------------------------------
(* The specification asks about such records *)

MatchQuestion == Asking("match") => question.records \in Seq(Record) /\ question.wh \in Where

LEMMA MatchQuestionInit == Init => MatchQuestion
<1> SUFFICES ASSUME Init, Asking("match") PROVE question.records \in Seq(Record) /\ question.wh \in Where
  BY DEF MatchQuestion
<1>1. PICK records \in BoundedSeq(Record, MaxRecords), wh \in Warehouses \cup {NoWarehouse} :
        question = [about |-> "match", records |-> records, wh |-> wh]
  BY StockAssumption DEF Init, Asking
<1>2. records \in Seq(Record)
  <2> DEFINE R == Record
  <2>1. records \in BoundedSeq(R, MaxRecords)
    BY <1>1
  <2> HIDE DEF R
  <2>2. PICK m \in 0 .. MaxRecords : records \in [1 .. m -> R]
    BY <2>1 DEF BoundedSeq, SeqOf
  <2>3. m \in Nat
    BY MaxRecordsAssumption DEF MaxRecordsAssumption
  <2>4. records \in Seq(R)
    BY <2>2, <2>3
  <2> QED  BY <2>4 DEF R
<1> QED  BY <1>1, <1>2 DEF Where

(* Whatever the order in which the records are listed, the passes find one of the declarative *)
(* definition (service.go:488).                                                               *)
THEOREM MatchIsOneOfTheBest == Spec => []MatchIsSelected
<1>1. Init => MatchIsSelected
  BY DEF Init, MatchIsSelected, Answered
<1>2. MatchQuestion /\ [Next]_algorithmVars => MatchQuestion'
  BY OneAnswer DEF MatchQuestion, Asking
<1>3. MatchQuestion /\ MatchIsSelected /\ [Next]_algorithmVars => MatchIsSelected'
  <2> SUFFICES ASSUME MatchQuestion, MatchIsSelected, [Next]_algorithmVars
               PROVE  MatchIsSelected'
    OBVIOUS
  <2>1. CASE answer' = answer
    BY <2>1, OneAnswer DEF MatchIsSelected, Matched, Answered, Asking
  <2>2. CASE AnswerMatch
    <3> DEFINE records == question.records
               wh == question.wh
    <3>1. records \in Seq(Record) /\ wh \in Where
      BY <2>2 DEF AnswerMatch, Asked, MatchQuestion
    <3>2. IF records = <<>> THEN Match(records, wh) = NoRecord
          ELSE Match(records, wh) \in Selected(records, wh)
      BY <3>1, MatchFits
    <3>3. Matched' = Match(records, wh) /\ question' = question
      BY <2>2 DEF AnswerMatch, Matched
    <3> QED  BY <3>2, <3>3 DEF MatchIsSelected
  <2>3. CASE AnswerTracking \/ AnswerWarehouse
    BY <2>3 DEF AnswerTracking, AnswerWarehouse, Asked, Asking, MatchIsSelected, Answered
  <2> QED  BY <2>1, <2>2, <2>3, OneAnswer
<1> QED  BY <1>1, <1>2, <1>3, MatchQuestionInit, PTL DEF Spec
================================================================================
