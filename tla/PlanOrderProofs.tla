--------------------------- MODULE PlanOrderProofs ---------------------------
(***************************************************************************)
(* Proofs about PlanOrder for every plan, however long it is and however   *)
(* often it names a file, and for every graph of dependencies.             *)
(***************************************************************************)
EXTENDS PlanOrder, FiniteSetTheorems, FunctionTheorems, SequenceTheorems, TLAPS

Sorted == { "number", "insert", "raised", "stored" }

(* Every placed file stands for a step of the plan of its own. *)
Fits(fit) ==
  /\ \A i \in DOMAIN order : files[fit[i]] = order[i]
  /\ \A i, j \in DOMAIN order : fit[i] = fit[j] => i = j

FitInv == \E fit \in [DOMAIN order -> DOMAIN files] : Fits(fit)

(* No file is placed, or waits to be, more often than the plan names it; a *)
(* file with dependencies enters the list ready once.                      *)
CountInv ==
  /\ \A f \in Planned : Count(order, f) + ready[f] <= Count(files, f)
  /\ at \in { "plan", "sort" } => \A f \in Planned :
       indeg[f] >= 1 => ready[f] = 0 /\ Count(order, f) = 0

(* What is not placed yet is still to come. *)
CoverInv ==
  /\ at = "rest" => \A f \in Planned : f \in Placed \/ ready[f] > 0
  /\ at \in Sorted => Placed = Planned

(* The rows follow the order. *)
RowsInv ==
  /\ at \in { "plan", "sort", "rest", "number" } => rows = << >>
  /\ at = "plan" => order = << >> /\ \A f \in Planned : ready[f] = 0 /\ indeg[f] = 0
  /\ at \in { "insert", "raised", "stored" } =>
       /\ number = [f \in Planned |-> LastAt(order, f) - 1]
       /\ Len(rows) <= Len(order)
       /\ \A i \in DOMAIN rows :
            rows[i] = [index |-> number[order[i]], step |-> LastAt(files, order[i])]
  /\ at = "stored" => Len(rows) = Len(order)

IInv == TypeOK /\ FitInv /\ CountInv /\ CoverInv /\ RowsInv

-----------------------------------------------------------------------------
(* One step for each file: Kahn's invariant, and what the list ready hides *)

(* A file waits for the dependencies that are not placed, and is ready     *)
(* when there are none.                                                    *)
KahnInv ==
  at = "sort" => \A f \in Planned :
    /\ indeg[f] = Cardinality(Deps(f) \ Placed)
    /\ f \in Placed => ready[f] = 0
    /\ f \notin Placed => (ready[f] > 0 <=> indeg[f] = 0)

(* Files are placed after their dependencies until only cycles are left.   *)
AfterDeps(i) == \A g \in Deps(order[i]) : \E k \in 1 .. i - 1 : order[k] = g

DepsInv ==
  /\ \A i \in DOMAIN order : AfterDeps(i) \/ RestsOnCycle(order[i])
  /\ at = "sort" => \A i \in DOMAIN order : AfterDeps(i) /\ ~RestsOnCycle(order[i])
  /\ at = "rest" => \A f \in Planned : ready[f] > 0 => RestsOnCycle(f)

(* A file that was overtaken still waited for another, or waited for the   *)
(* rest.                                                                   *)
TieInv ==
  /\ at = "sort" => \A f \in Planned \ Placed : \A i \in DOMAIN order :
       LastAt(files, f) < LastAt(files, order[i]) =>
         \E g \in Deps(f) : \A k \in 1 .. i - 1 : order[k] # g
  /\ at = "rest" => \A f \in Planned : \A i \in DOMAIN order :
       ready[f] > 0 /\ RestsOnCycle(order[i]) => LastAt(files, order[i]) <= LastAt(files, f)

DistinctInv == OneStepPerFile => KahnInv /\ DepsInv /\ TieInv /\ PlanBreaksTies

-----------------------------------------------------------------------------
(* Lemmas about sequences: how often, and where last, an element occurs *)

(* A set of numbers that is not empty has a least one. *)
LEMMA LeastNumber ==
  ASSUME NEW T, T \subseteq Nat, T # {}
  PROVE  \E x \in T : \A y \in T : x <= y
<1>1. \E x \in T : \A y \in T : ~(<< y, x >> \in OpToRel(<, Nat))
  BY NatLessThanWellFounded, WFMin, Zenon
<1>2. \A x, y \in Nat : ~(<< y, x >> \in OpToRel(<, Nat)) => x <= y
  BY DEF OpToRel
<1> QED
  BY <1>1, <1>2

(* The numbers up to n are n.                                              *)
LEMMA FirstNumbers ==
  ASSUME NEW n \in Nat
  PROVE  IsFiniteSet(1 .. n) /\ Cardinality(1 .. n) = n
<1>1. /\ IsFiniteSet(1 .. n)
      /\ Cardinality(1 .. n) = IF 1 > n THEN 0 ELSE n - 1 + 1
  BY FS_Interval
<1> QED
  BY <1>1

(* What occurs in a sequence has a last occurrence: the index topo_order   *)
(* and replace_steps use is defined.                                       *)
LEMMA LastOccurrence ==
  ASSUME NEW S, NEW s \in Seq(S), NEW f, \E i \in DOMAIN s : s[i] = f
  PROVE  /\ LastAt(s, f) \in DOMAIN s /\ s[LastAt(s, f)] = f
         /\ \A j \in DOMAIN s : s[j] = f => j <= LastAt(s, f)
<1> DEFINE T == { n \in Nat : Len(s) - n \in DOMAIN s /\ s[Len(s) - n] = f }
<1>1. DOMAIN s = 1 .. Len(s) /\ Len(s) \in Nat
  BY LenProperties
<1>2. \A i \in DOMAIN s : s[i] = f => Len(s) - i \in T
  <2> SUFFICES ASSUME NEW i \in DOMAIN s, s[i] = f PROVE Len(s) - i \in T
    OBVIOUS
  <2>1. Len(s) - i \in Nat /\ Len(s) - (Len(s) - i) = i
    BY <1>1
  <2> QED
    BY <2>1
<1>3. T # {} /\ T \subseteq Nat
  BY <1>2
<1>4. PICK n \in T : \A m \in T : n <= m
  BY <1>3, LeastNumber
<1>5. /\ Len(s) - n \in DOMAIN s /\ s[Len(s) - n] = f
      /\ \A j \in DOMAIN s : s[j] = f => j <= Len(s) - n
  <2>1. ASSUME NEW j \in DOMAIN s, s[j] = f PROVE j <= Len(s) - n
    <3>1. n <= Len(s) - j /\ n \in Nat
      BY <1>2, <1>4, <2>1
    <3> QED
      BY <1>1, <3>1
  <2> QED
    BY <1>4, <2>1
<1>6. \E l \in DOMAIN s : s[l] = f /\ \A j \in DOMAIN s : s[j] = f => j <= l
  BY <1>5
<1> QED
  BY <1>6, Zenon DEF LastAt

(* Where nothing is repeated, the last occurrence is the only one. *)
LEMMA OnlyOccurrence ==
  ASSUME NEW S, NEW s \in Seq(S), \A i, j \in DOMAIN s : s[i] = s[j] => i = j,
         NEW i \in DOMAIN s
  PROVE  LastAt(s, s[i]) = i
BY LastOccurrence

(* Count, of what is in the sequence, and of a longer one. *)
LEMMA CountProperties ==
  ASSUME NEW S, NEW s \in Seq(S), NEW f
  PROVE  /\ Count(s, f) \in Nat
         /\ IsFiniteSet({ i \in DOMAIN s : s[i] = f })
         /\ Count(s, f) = 0 <=> \A i \in DOMAIN s : s[i] # f
<1>1. IsFiniteSet(DOMAIN s)
  BY LenProperties, FS_Interval
<1>2. IsFiniteSet({ i \in DOMAIN s : s[i] = f })
  BY <1>1, FS_Subset
<1> QED
  BY <1>2, FS_CardinalityType, FS_EmptySet DEF Count

(* One more element is counted once.                                       *)
LEMMA CountOfAppend ==
  ASSUME NEW S, NEW s \in Seq(S), NEW e \in S, NEW f
  PROVE  Count(Append(s, e), f) = IF e = f THEN Count(s, f) + 1 ELSE Count(s, f)
<1> DEFINE t == Append(s, e)
           N == { i \in DOMAIN s : s[i] = f }
<1>1. /\ DOMAIN s = 1 .. Len(s) /\ Len(s) \in Nat /\ DOMAIN t = 1 .. Len(s) + 1
      /\ \A i \in 1 .. Len(s) : t[i] = s[i]
      /\ t[Len(s) + 1] = e
  BY AppendProperties, LenProperties
<1>2. IsFiniteSet(N) /\ Len(s) + 1 \notin N
  <2>1. IsFiniteSet(N)
    BY CountProperties, Zenon
  <2>2. Len(s) + 1 \notin DOMAIN s
    BY <1>1
  <2> QED
    BY <2>1, <2>2
<1>3. DOMAIN t = DOMAIN s \cup { Len(s) + 1 }
  BY <1>1
<1> HIDE DEF t
<1>4. CASE e = f
  <2>1. { i \in DOMAIN t : t[i] = f } = N \cup { Len(s) + 1 }
    BY <1>1, <1>3, <1>4
  <2> QED
    BY <1>2, <1>4, <2>1, FS_AddElement DEF Count, t
<1>5. CASE e # f
  <2>1. { i \in DOMAIN t : t[i] = f } = N
    BY <1>1, <1>3, <1>5
  <2> QED
    BY <1>5, <2>1 DEF Count, t
<1> QED
  BY <1>4, <1>5

-----------------------------------------------------------------------------
(* Type correctness, and that no file is forgotten or placed too often *)

(* A plan names finitely many files, each of them at least once.           *)
LEMMA PlanFacts ==
  ASSUME files \in Seq(Files)
  PROVE  /\ Len(files) \in Nat /\ DOMAIN files = 1 .. Len(files)
         /\ files \in [DOMAIN files -> Planned]
         /\ IsFiniteSet(DOMAIN files) /\ Cardinality(DOMAIN files) = Len(files)
         /\ IsFiniteSet(Planned)
         /\ \A f \in Planned : Count(files, f) \in Nat \ { 0 }
         /\ \A f \in Planned : LastAt(files, f) \in DOMAIN files /\ files[LastAt(files, f)] = f
<1>1. /\ Len(files) \in Nat /\ DOMAIN files = 1 .. Len(files)
      /\ files \in [DOMAIN files -> Planned]
  BY LenProperties DEF Planned
<1>2. IsFiniteSet(DOMAIN files) /\ Cardinality(DOMAIN files) = Len(files)
  BY <1>1, FirstNumbers
<1>3. files \in Surjection(DOMAIN files, Planned)
  BY <1>1 DEF Surjection, Planned
<1>4. IsFiniteSet(Planned)
  BY <1>2, <1>3, FS_Surjection
<1>5. \A f \in Planned : \E i \in DOMAIN files : files[i] = f
  BY DEF Planned
<1>6. \A f \in Planned : Count(files, f) \in Nat \ { 0 }
  BY <1>5, CountProperties
<1>7. \A f \in Planned : LastAt(files, f) \in DOMAIN files /\ files[LastAt(files, f)] = f
  BY <1>5, LastOccurrence
<1> QED
  BY <1>1, <1>2, <1>4, <1>6, <1>7

(* The dependencies of a file that count are finitely many.                *)
LEMMA DepsFacts ==
  ASSUME files \in Seq(Files), NEW f \in Planned, NEW R
  PROVE  /\ Deps(f) \subseteq Planned /\ f \notin Deps(f)
         /\ IsFiniteSet(Deps(f) \ R) /\ Cardinality(Deps(f) \ R) \in Nat
         /\ Cardinality(Deps(f) \ R) = 0 <=> Deps(f) \subseteq R
<1>1. Deps(f) \subseteq Planned /\ f \notin Deps(f)
  BY DEF Deps
<1>2. IsFiniteSet(Deps(f) \ R)
  BY <1>1, PlanFacts, FS_Subset
<1> QED
  BY <1>1, <1>2, FS_CardinalityType, FS_EmptySet

(* The plan and its graph are read and never written.                      *)
LEMMA PlanKept ==
  ASSUME [Next]_vars
  PROVE  /\ files' = files /\ edges' = edges /\ Planned' = Planned
         /\ \A f : Deps(f)' = Deps(f) /\ Count(files, f)' = Count(files, f)
                /\ LastAt(files, f)' = LastAt(files, f)
         /\ OneStepPerFile' = OneStepPerFile
<1>1. files' = files /\ edges' = edges
  BY DEF Next, vars, CountEdges, Remainder, EndOfRest, Number, Insert, Stored, Place, PlaceRest
<1> QED
  BY <1>1 DEF Planned, Deps, Count, LastAt, OneStepPerFile

(* Nothing is placed at the start.                                         *)
LEMMA InitHolds == Init => IInv
<1> SUFFICES ASSUME Init PROVE IInv
  OBVIOUS
<1>1. files \in Seq(Files) /\ files # << >>
  BY ConstantsAssumption DEF Init
<1>2. Len(files) \in Nat \ { 0 } /\ 0 \in 0 .. Len(files) - 1
  <2>1. Len(files) \in Nat \ { 0 }
    BY <1>1, EmptySeq
  <2> QED
    BY <2>1
<1>3. TypeOK
  <2>1. << >> \in Seq(Planned) /\ << >> \in Seq([index : 0 .. Len(files) - 1, step : DOMAIN files])
    BY EmptySeq
  <2> QED
    BY <1>1, <1>2, <2>1 DEF Init, TypeOK
<1>4. FitInv
  <2>1. DOMAIN order = {}
    BY DEF Init
  <2> DEFINE fit == [i \in DOMAIN order |-> 1]
  <2>2. fit \in [DOMAIN order -> DOMAIN files] /\ Fits(fit)
    BY <2>1 DEF Fits
  <2> QED
    BY <2>2 DEF FitInv
<1>5. CountInv
  <2>1. order = << >> /\ << >> \in Seq(Planned) /\ DOMAIN << >> = {}
    BY EmptySeq DEF Init
  <2>2. \A f \in Planned : Count(order, f) = 0
    BY <2>1, CountProperties
  <2> QED
    BY <1>1, <2>2, PlanFacts DEF Init, CountInv
<1>6. CoverInv /\ RowsInv
  BY DEF Init, CoverInv, RowsInv, Sorted
<1> QED
  BY <1>3, <1>4, <1>5, <1>6 DEF IInv

(* What appending a file to the order changes.                             *)
LEMMA PlacingAppends ==
  ASSUME order \in Seq(Planned), NEW f \in Planned, order' = Append(order, f)
  PROVE  /\ order' \in Seq(Planned) /\ Len(order) \in Nat /\ Len(order') = Len(order) + 1
         /\ DOMAIN order = 1 .. Len(order) /\ DOMAIN order' = 1 .. Len(order) + 1
         /\ \A i \in 1 .. Len(order) : order'[i] = order[i]
         /\ order'[Len(order) + 1] = f
         /\ Placed' = Placed \cup { f }
         /\ \A g : Count(order, g)' = IF g = f THEN Count(order, g) + 1 ELSE Count(order, g)
<1>1. /\ order' \in Seq(Planned) /\ Len(order) \in Nat /\ Len(order') = Len(order) + 1
      /\ DOMAIN order = 1 .. Len(order) /\ DOMAIN order' = 1 .. Len(order) + 1
      /\ \A i \in 1 .. Len(order) : order'[i] = order[i]
      /\ order'[Len(order) + 1] = f
  BY AppendProperties, LenProperties
<1>2. 1 .. Len(order) + 1 = 1 .. Len(order) \cup { Len(order) + 1 }
  BY <1>1
<1>3. Placed' = Placed \cup { f }
  BY <1>1, <1>2 DEF Placed
<1>4. \A g : Count(order, g)' = Count(Append(order, f), g)
  BY DEF Count
<1> QED
  BY <1>1, <1>3, <1>4, CountOfAppend

(* The order is never longer than the plan, and when it is as long, it has *)
(* every file.                                                             *)
LEMMA OrderFits ==
  ASSUME files \in Seq(Files), order \in Seq(Planned), FitInv
  PROVE  Len(order) <= Len(files) /\ (Len(order) = Len(files) => Placed = Planned)
<1>1. PICK fit \in [DOMAIN order -> DOMAIN files] : Fits(fit)
  BY DEF FitInv
<1>2. fit \in Injection(DOMAIN order, DOMAIN files)
  <2>1. \A i, j \in DOMAIN order : fit[i] = fit[j] => i = j
    BY <1>1 DEF Fits
  <2> QED
    BY <2>1, Fun_IsInj
<1>3. Cardinality(DOMAIN order) = Len(order)
  <2>1. Len(order) \in Nat /\ DOMAIN order = 1 .. Len(order)
    BY LenProperties
  <2> QED
    BY <2>1, FirstNumbers
<1>4. Len(order) <= Len(files)
  BY <1>2, <1>3, PlanFacts, FS_Injection
<1>5. ASSUME Len(order) = Len(files) PROVE Placed = Planned
  <2>1. fit \in Surjection(DOMAIN order, DOMAIN files)
    BY <1>2, <1>3, <1>5, PlanFacts, FS_Injection
  <2>2. \A p \in DOMAIN files : \E i \in DOMAIN order : fit[i] = p
    BY <2>1 DEF Surjection
  <2>3. \A p \in DOMAIN files : files[p] \in Placed
    BY <1>1, <2>2 DEF Fits, Placed
  <2>4. Placed \subseteq Planned
    BY LenProperties DEF Placed
  <2> QED
    BY <2>3, <2>4 DEF Planned
<1> QED
  BY <1>4, <1>5

(* A file that is ready can still be given a step of its own.              *)
LEMMA FitStep ==
  ASSUME TypeOK, FitInv, CountInv, NEW f \in Planned, ready[f] > 0,
         order' = Append(order, f), files' = files
  PROVE  FitInv'
<1>0. files \in Seq(Files) /\ order \in Seq(Planned) /\ ready[f] \in Nat
  BY DEF TypeOK
<1>1. PICK fit \in [DOMAIN order -> DOMAIN files] : Fits(fit)
  BY DEF FitInv
<1> DEFINE U == { i \in DOMAIN order : order[i] = f }
           P == { p \in DOMAIN files : files[p] = f }
<1>2. IsFiniteSet(U) /\ Cardinality(U) \in Nat /\ Cardinality(P) \in Nat
      /\ Cardinality(U) < Cardinality(P)
  <2>1. IsFiniteSet(U) /\ Count(order, f) = Cardinality(U) /\ Count(order, f) \in Nat
    BY <1>0, CountProperties DEF Count
  <2>2. Count(files, f) = Cardinality(P) /\ Count(files, f) \in Nat
    BY <1>0, CountProperties DEF Count
  <2>3. Count(order, f) + ready[f] <= Count(files, f)
    BY DEF CountInv
  <2> HIDE DEF U, P
  <2> QED
    BY <1>0, <2>1, <2>2, <2>3
<1>3. PICK p \in P : \A i \in DOMAIN order : fit[i] # p
  <2> SUFFICES ASSUME \A p \in P : \E i \in DOMAIN order : fit[i] = p
               PROVE  FALSE
    OBVIOUS
  <2> DEFINE g == [i \in U |-> fit[i]]
  <2>1. g \in [U -> P]
    BY <1>1 DEF Fits
  <2>2. \A p \in P : \E i \in U : g[i] = p
    BY <1>1 DEF Fits
  <2>3. g \in Surjection(U, P)
    BY <2>1, <2>2 DEF Surjection
  <2> HIDE DEF g, U, P
  <2>4. Cardinality(P) <= Cardinality(U)
    BY <1>2, <2>3, FS_Surjection
  <2> QED
    BY <1>2, <2>4
<1> DEFINE n == Len(order) + 1
           new == [i \in DOMAIN order' |-> IF i = n THEN p ELSE fit[i]]
<1>4. /\ DOMAIN order = 1 .. Len(order) /\ DOMAIN order' = 1 .. n /\ n \in Nat
      /\ \A i \in DOMAIN order : order'[i] = order[i]
      /\ order'[n] = f
      /\ \A i \in DOMAIN order' : i = n \/ i \in DOMAIN order
      /\ n \notin DOMAIN order
  BY <1>0, PlacingAppends
<1> HIDE DEF n
<1>5. new \in [DOMAIN order' -> DOMAIN files]
  BY <1>1, <1>3, <1>4
<1>6. \A i \in DOMAIN order' : files[new[i]] = order'[i]
  BY <1>1, <1>3, <1>4 DEF Fits
<1>7. \A i, j \in DOMAIN order' : new[i] = new[j] => i = j
  BY <1>1, <1>3, <1>4 DEF Fits
<1>8. \E h \in [DOMAIN order' -> DOMAIN files] :
        /\ \A i \in DOMAIN order' : files[h[i]] = order'[i]
        /\ \A i, j \in DOMAIN order' : h[i] = h[j] => i = j
  BY <1>5, <1>6, <1>7
<1> QED
  BY <1>8 DEF FitInv, Fits

(* An action that places nothing keeps what the order is made of.          *)
LEMMA OrderKept ==
  ASSUME UNCHANGED << files, edges, order >>
  PROVE  /\ Planned' = Planned /\ Placed' = Placed /\ (FitInv => FitInv')
         /\ \A f : Deps(f)' = Deps(f) /\ Count(files, f)' = Count(files, f)
                /\ Count(order, f)' = Count(order, f) /\ LastAt(order, f)' = LastAt(order, f)
                /\ LastAt(files, f)' = LastAt(files, f)
BY DEF Planned, Placed, FitInv, Fits, Deps, Count, LastAt

(* What has no dependency is ready as often as the plan names it.          *)
LEMMA CountEdgesStep == ASSUME IInv, CountEdges PROVE IInv'
<1> USE DEF IInv, CountEdges
<1>0. /\ UNCHANGED << files, edges, order, number, rows >> /\ at' = "sort"
      /\ files \in Seq(Files) /\ order = << >>
      /\ \A f \in Planned : Count(order, f) = 0
  <2>1. order = << >> /\ << >> \in Seq(Planned) /\ DOMAIN << >> = {} /\ files \in Seq(Files)
    BY EmptySeq DEF RowsInv, TypeOK
  <2> QED
    BY <2>1, CountProperties
<1>1. \A f \in Planned : Cardinality(Deps(f)) \in Nat /\ (Cardinality(Deps(f)) = 0 <=> Deps(f) = {})
  <2>1. \A f \in Planned : Deps(f) \ {} = Deps(f)
    OBVIOUS
  <2>2. ASSUME NEW f \in Planned
        PROVE  IsFiniteSet(Deps(f))
    <3>1. Deps(f) \subseteq Planned
      BY DEF Deps
    <3> QED
      BY <1>0, <3>1, PlanFacts, FS_Subset
  <2> QED
    BY <2>2, FS_CardinalityType, FS_EmptySet
<1>2. \A f \in Planned : Count(files, f) \in Nat
  BY <1>0, PlanFacts
<1>3. TypeOK'
  <2>1. /\ indeg' \in [Planned -> Int] /\ ready' \in [Planned -> Nat]
    BY <1>1, <1>2
  <2> QED
    BY <1>0, <2>1, OrderKept DEF TypeOK
<1>4. CountInv'
  BY <1>0, <1>1, <1>2, OrderKept DEF CountInv
<1>5. FitInv' /\ CoverInv' /\ RowsInv'
  BY <1>0, OrderKept DEF CoverInv, RowsInv, Sorted
<1> QED
  BY <1>3, <1>4, <1>5

(* Placing a file takes it from the list ready, and frees only files that  *)
(* were never ready before.                                                *)
LEMMA PlaceStep == ASSUME IInv, NEW f \in Planned, Place(f) PROVE IInv'
<1> USE DEF IInv
<1>0. /\ UNCHANGED << files, edges, at, number, rows >> /\ at = "sort"
      /\ files \in Seq(Files) /\ order \in Seq(Planned) /\ ready[f] > 0
      /\ order' = Append(order, f) /\ f \notin Deps(f)
      /\ Planned' = Planned /\ rows = << >>
      /\ \A g : Count(files, g)' = Count(files, g)
  BY DEF Place, IsFirst, TypeOK, Planned, Deps, Count, RowsInv
<1>1. /\ order' \in Seq(Planned)
      /\ \A g : Count(order, g)' = IF g = f THEN Count(order, g) + 1 ELSE Count(order, g)
  BY <1>0, PlacingAppends
<1>2. ASSUME NEW g \in Planned
      PROVE  /\ indeg'[g] \in Int /\ ready'[g] \in Nat
             /\ Count(order, g)' + ready'[g] <= Count(files, g)
             /\ indeg'[g] >= 1 => ready'[g] = 0 /\ Count(order, g)' = 0
  <2> DEFINE c == Count(order, g)
             m == Count(files, g)
  <2>1. c \in Nat /\ m \in Nat \ { 0 } /\ indeg[g] \in Int /\ ready[g] \in Nat
    BY <1>0, PlanFacts, CountProperties DEF TypeOK
  <2>2. c + ready[g] <= m /\ (indeg[g] >= 1 => ready[g] = 0 /\ c = 0)
    BY <1>0 DEF CountInv
  <2>3. Count(order, g)' = IF g = f THEN c + 1 ELSE c
    BY <1>1
  <2>4. /\ indeg'[g] = IF f \in Deps(g) THEN indeg[g] - 1 ELSE indeg[g]
        /\ ready'[g] = (IF g = f THEN ready[g] - 1 ELSE ready[g])
                         + (IF f \in Deps(g) /\ indeg[g] = 1 THEN 1 ELSE 0)
    BY DEF Place
  <2>5. CASE g = f
    <3>1. indeg'[g] = indeg[g] /\ ready'[g] = ready[g] - 1 /\ Count(order, g)' = c + 1
      BY <1>0, <2>1, <2>3, <2>4, <2>5
    <3> HIDE DEF c, m
    <3>2. ready[g] > 0 /\ Count(files, g) = m
      BY <1>0, <2>5 DEF m
    <3> QED
      BY <2>1, <2>2, <3>1, <3>2
  <2>6. CASE g # f /\ f \in Deps(g)
    <3>1. indeg'[g] = indeg[g] - 1 /\ Count(order, g)' = c /\ Count(files, g) = m
      BY <2>3, <2>4, <2>6
    <3>2. CASE indeg[g] = 1
      <4>1. ready'[g] = ready[g] + 1
        BY <2>4, <2>6, <3>2
      <4> HIDE DEF c, m
      <4> QED
        BY <2>1, <2>2, <3>1, <3>2, <4>1
    <3>3. CASE indeg[g] # 1
      <4>1. ready'[g] = ready[g]
        BY <2>1, <2>4, <2>6, <3>3
      <4> HIDE DEF c, m
      <4> QED
        BY <2>1, <2>2, <3>1, <3>3, <4>1
    <3> QED
      BY <3>2, <3>3
  <2>7. CASE g # f /\ f \notin Deps(g)
    <3>1. /\ indeg'[g] = indeg[g] /\ ready'[g] = ready[g]
          /\ Count(order, g)' = c /\ Count(files, g) = m
      BY <2>1, <2>3, <2>4, <2>7
    <3> HIDE DEF c, m
    <3> QED
      BY <2>1, <2>2, <3>1
  <2> QED
    BY <2>5, <2>6, <2>7
<1>3. TypeOK'
  <2>1. /\ indeg' = [g \in Planned |-> indeg'[g]] /\ ready' = [g \in Planned |-> ready'[g]]
    BY DEF Place
  <2>2. indeg' \in [Planned -> Int] /\ ready' \in [Planned -> Nat]
    BY <1>2, <2>1
  <2> QED
    BY <1>0, <1>1, <2>2 DEF TypeOK
<1>4. CountInv'
  BY <1>0, <1>2 DEF CountInv
<1>5. FitInv'
  BY <1>0, FitStep
<1>6. CoverInv' /\ RowsInv'
  BY <1>0 DEF CoverInv, RowsInv, Sorted
<1> QED
  BY <1>3, <1>4, <1>5, <1>6

(* What is left is counted anew, and when nothing is left all is placed.   *)
LEMMA RemainderStep == ASSUME IInv, Remainder PROVE IInv'
<1> USE DEF IInv
<1>0. /\ UNCHANGED << files, edges, indeg, order, number, rows >> /\ at = "sort"
      /\ files \in Seq(Files) /\ order \in Seq(Planned) /\ rows = << >>
      /\ \A g \in Planned : ready[g] = 0
  BY DEF Remainder, TypeOK, RowsInv
<1>1. \A g \in Planned : Count(order, g) \in Nat /\ Count(files, g) \in Nat \ { 0 }
  BY <1>0, PlanFacts, CountProperties
<1>2. \A g \in Planned : Count(order, g) <= Count(files, g)
  BY <1>0, <1>1 DEF CountInv
<1>3. FitInv' /\ RowsInv' /\ Planned' = Planned /\ Placed' = Placed
      /\ \A g : Count(order, g)' = Count(order, g) /\ Count(files, g)' = Count(files, g)
  <2>1. at' \in { "rest", "number" }
    BY DEF Remainder
  <2> QED
    BY <1>0, <2>1, OrderKept DEF RowsInv
<1>4. CASE Len(order) < Len(files)
  <2>1. /\ at' = "rest"
        /\ ready' = [g \in Planned |-> IF g \in Placed THEN 0 ELSE Count(files, g)]
    BY <1>4 DEF Remainder
  <2>2. ready' \in [Planned -> Nat]
    BY <1>1, <2>1
  <2>3. TypeOK'
    BY <1>0, <1>3, <2>1, <2>2 DEF TypeOK
  <2>4. \A g \in Planned : g \notin Placed => Count(order, g) = 0
    BY <1>0, CountProperties DEF Placed
  <2>5. \A g \in Planned : Count(order, g) + ready'[g] <= Count(files, g)
    BY <1>1, <1>2, <2>1, <2>4
  <2>6. CountInv'
    BY <1>3, <2>1, <2>5 DEF CountInv
  <2>7. CoverInv'
    BY <1>1, <1>3, <2>1 DEF CoverInv, Sorted
  <2> QED
    BY <1>3, <2>3, <2>6, <2>7
<1>5. CASE ~(Len(order) < Len(files))
  <2>1. at' = "number" /\ ready' = ready
    BY <1>5 DEF Remainder
  <2>2. Placed = Planned
    <3>1. Len(order) \in Nat /\ Len(files) \in Nat
      BY <1>0, LenProperties
    <3> QED
      BY <1>0, <1>5, <3>1, OrderFits
  <2>3. TypeOK'
    BY <1>0, <1>3, <2>1 DEF TypeOK
  <2>4. CountInv' /\ CoverInv'
    BY <1>0, <1>3, <2>1, <2>2 DEF CountInv, CoverInv, Sorted
  <2> QED
    BY <1>3, <2>3, <2>4
<1> QED
  BY <1>4, <1>5

(* The rest is placed in the order of the plan.                            *)
LEMMA PlaceRestStep == ASSUME IInv, NEW f \in Planned, PlaceRest(f) PROVE IInv'
<1> USE DEF IInv
<1>0. /\ UNCHANGED << files, edges, indeg, at, number, rows >> /\ at = "rest"
      /\ files \in Seq(Files) /\ order \in Seq(Planned) /\ ready[f] > 0
      /\ ready \in [Planned -> Nat] /\ rows = << >>
      /\ order' = Append(order, f) /\ Planned' = Planned
      /\ \A g : Count(files, g)' = Count(files, g)
  BY DEF PlaceRest, IsFirst, TypeOK, Planned, Count, RowsInv
<1>1. /\ order' \in Seq(Planned) /\ Placed' = Placed \cup { f }
      /\ \A g : Count(order, g)' = IF g = f THEN Count(order, g) + 1 ELSE Count(order, g)
  BY <1>0, PlacingAppends
<1>2. /\ ready' = [ready EXCEPT ![f] = @ - 1] /\ ready' \in [Planned -> Nat]
      /\ ready'[f] = ready[f] - 1
      /\ \A g \in Planned : g # f => ready'[g] = ready[g]
  <2>1. ready' = [ready EXCEPT ![f] = @ - 1]
    BY DEF PlaceRest
  <2>2. ready[f] - 1 \in Nat
    BY <1>0
  <2> QED
    BY <1>0, <2>1, <2>2
<1>3. TypeOK'
  BY <1>0, <1>1, <1>2 DEF TypeOK
<1>4. \A g \in Planned : Count(order, g)' + ready'[g] <= Count(files, g)
  <2>1. \A g \in Planned : Count(order, g) \in Nat /\ Count(files, g) \in Nat
    BY <1>0, CountProperties
  <2>2. \A g \in Planned : Count(order, g) + ready[g] <= Count(files, g)
    BY DEF CountInv
  <2> SUFFICES ASSUME NEW g \in Planned
               PROVE  Count(order, g)' + ready'[g] <= Count(files, g)
    OBVIOUS
  <2>3. CASE g = f
    <3>1. Count(order, g)' = Count(order, g) + 1 /\ ready'[g] = ready[g] - 1
      BY <1>1, <1>2, <2>3
    <3>2. Count(order, g) \in Nat /\ Count(files, g) \in Nat /\ ready[g] \in Nat
      BY <1>0, <2>1
    <3> QED
      BY <2>2, <3>1, <3>2
  <2>4. CASE g # f
    BY <1>1, <1>2, <2>2, <2>4
  <2> QED
    BY <2>3, <2>4
<1>5. CountInv'
  BY <1>0, <1>4 DEF CountInv
<1>6. FitInv'
  BY <1>0, FitStep
<1>7. CoverInv'
  BY <1>0, <1>1, <1>2 DEF CoverInv, Sorted
<1>8. RowsInv'
  BY <1>0 DEF RowsInv
<1> QED
  BY <1>3, <1>5, <1>6, <1>7, <1>8

(* When the rest is placed, nothing is missing.                            *)
LEMMA EndOfRestStep == ASSUME IInv, EndOfRest PROVE IInv'
<1> USE DEF IInv
<1>0. /\ UNCHANGED << files, edges, indeg, ready, order, number, rows >>
      /\ at = "rest" /\ at' = "number" /\ rows = << >>
      /\ order \in Seq(Planned) /\ \A g \in Planned : ready[g] = 0
  BY DEF EndOfRest, TypeOK, RowsInv
<1>1. Placed = Planned
  <2>1. Placed \subseteq Planned
    BY <1>0, LenProperties DEF Placed
  <2>2. \A g \in Planned : g \in Placed
    BY <1>0 DEF CoverInv
  <2> QED
    BY <2>1, <2>2
<1>2. TypeOK'
  BY <1>0, OrderKept DEF TypeOK
<1>3. FitInv' /\ CountInv' /\ CoverInv' /\ RowsInv'
  BY <1>0, <1>1, OrderKept DEF CountInv, CoverInv, RowsInv, Sorted
<1> QED
  BY <1>2, <1>3

(* A step that was placed more than once has the number of its last place, *)
(* which is still a number of a step of the plan.                          *)
LEMMA NumberStep == ASSUME IInv, Number PROVE IInv'
<1> USE DEF IInv
<1>0. /\ UNCHANGED << files, edges, indeg, ready, order, rows >>
      /\ at = "number" /\ at' = "insert" /\ rows = << >> /\ Placed = Planned
      /\ number' = [f \in Planned |-> LastAt(order, f) - 1]
      /\ files \in Seq(Files) /\ order \in Seq(Planned)
  BY DEF Number, TypeOK, RowsInv, CoverInv, Sorted
<1>1. /\ Len(order) \in Nat /\ Len(files) \in Nat /\ Len(order) <= Len(files)
      /\ DOMAIN order = 1 .. Len(order)
  BY <1>0, OrderFits, LenProperties
<1>2. ASSUME NEW f \in Planned PROVE LastAt(order, f) - 1 \in 0 .. Len(files) - 1
  <2>1. \E i \in DOMAIN order : order[i] = f
    BY <1>0 DEF Placed
  <2>2. LastAt(order, f) \in 1 .. Len(order)
    BY <1>0, <1>1, <2>1, LastOccurrence
  <2> QED
    BY <1>1, <2>2
<1>3. number' \in [Planned -> 0 .. Len(files) - 1]
  BY <1>0, <1>2
<1>4. TypeOK'
  BY <1>0, <1>3, OrderKept DEF TypeOK
<1>5. RowsInv'
  <2>1. << >> \in Seq(Nat) /\ Len(<< >>) = 0 /\ DOMAIN << >> = {}
    BY EmptySeq
  <2> QED
    BY <1>0, <1>1, <2>1, OrderKept DEF RowsInv
<1>6. FitInv' /\ CountInv' /\ CoverInv'
  BY <1>0, OrderKept DEF CountInv, CoverInv, Sorted
<1> QED
  BY <1>4, <1>5, <1>6

(* An INSERT adds the row of the next file of the order, or raises.        *)
LEMMA InsertFacts ==
  ASSUME TypeOK, RowsInv, Insert
  PROVE  /\ UNCHANGED << files, edges, indeg, ready, order, number >>
         /\ at = "insert" /\ Len(rows) < Len(order)
         /\ Len(order) \in Nat /\ DOMAIN order = 1 .. Len(order) /\ order \in [DOMAIN order -> Planned]
         /\ Len(rows) \in Nat /\ DOMAIN rows = 1 .. Len(rows)
         /\ \/ at' = "raised" /\ rows' = rows
               /\ \E i \in DOMAIN rows : rows[i].index = number[order[Len(rows) + 1]]
            \/ /\ at' = "insert"
               /\ rows' = Append(rows, [index |-> number[order[Len(rows) + 1]],
                                         step |-> LastAt(files, order[Len(rows) + 1])])
<1>1. order \in Seq(Planned) /\ rows \in Seq([index : 0 .. Len(files) - 1, step : DOMAIN files])
  BY DEF TypeOK
<1>2. /\ Len(order) \in Nat /\ DOMAIN order = 1 .. Len(order) /\ order \in [DOMAIN order -> Planned]
      /\ Len(rows) \in Nat /\ DOMAIN rows = 1 .. Len(rows)
  BY <1>1, LenProperties
<1> QED
  BY <1>2 DEF Insert

(* The rows follow the order, one by one, until the last or until one      *)
(* raises.                                                                 *)
LEMMA InsertStep == ASSUME IInv, Insert PROVE IInv'
<1> USE DEF IInv
<1>0. /\ UNCHANGED << files, edges, indeg, ready, order, number >>
      /\ at = "insert" /\ Len(rows) < Len(order)
      /\ Len(order) \in Nat /\ DOMAIN order = 1 .. Len(order) /\ order \in [DOMAIN order -> Planned]
      /\ Len(rows) \in Nat /\ DOMAIN rows = 1 .. Len(rows)
      /\ at' \in { "raised", "insert" }
  BY InsertFacts
<1> DEFINE n == Len(rows) + 1
           row == [index |-> number[order[n]], step |-> LastAt(files, order[n])]
           Row == [index : 0 .. Len(files) - 1, step : DOMAIN files]
<1>1. FitInv' /\ CountInv' /\ CoverInv'
  BY <1>0, OrderKept DEF CountInv, CoverInv, Sorted
<1>2. rows' = rows \/ rows' = Append(rows, row)
  BY InsertFacts
<1>3. row \in Row /\ rows \in Seq(Row)
  <2>1. n \in DOMAIN order /\ order[n] \in Planned
    BY <1>0
  <2>2. number[order[n]] \in 0 .. Len(files) - 1 /\ rows \in Seq(Row) /\ files \in Seq(Files)
    BY <2>1 DEF TypeOK
  <2>3. LastAt(files, order[n]) \in DOMAIN files
    BY <2>1, <2>2, PlanFacts
  <2> QED
    BY <2>2, <2>3
<1> HIDE DEF row, Row
<1>4. rows' \in Seq(Row)
  BY <1>2, <1>3, AppendProperties
<1>5. TypeOK'
  BY <1>0, <1>4, OrderKept DEF TypeOK, Row
<1>6. /\ Len(rows)' <= Len(order)
      /\ \A i \in DOMAIN rows' :
           rows'[i] = [index |-> number[order[i]], step |-> LastAt(files, order[i])]
  <2>1. \A i \in DOMAIN rows :
          rows[i] = [index |-> number[order[i]], step |-> LastAt(files, order[i])]
    BY <1>0 DEF RowsInv
  <2>2. CASE rows' = rows
    BY <1>0, <2>1, <2>2
  <2>3. CASE rows' = Append(rows, row)
    <3>1. /\ Len(rows') = n /\ DOMAIN rows' = 1 .. n /\ rows'[n] = row
          /\ \A i \in 1 .. Len(rows) : rows'[i] = rows[i]
      BY <1>0, <1>3, <2>3, AppendProperties
    <3>2. \A i \in 1 .. n : i = n \/ i \in 1 .. Len(rows)
      BY <1>0
    <3> QED
      BY <1>0, <2>1, <3>1, <3>2 DEF row
  <2> QED
    BY <1>2, <2>2, <2>3
<1>7. number = [f \in Planned |-> LastAt(order, f) - 1]
  BY <1>0 DEF RowsInv
<1>8. RowsInv'
  BY <1>0, <1>6, <1>7, OrderKept DEF RowsInv
<1> QED
  BY <1>1, <1>5, <1>8

(* The table is complete when the last step of the order has its row.      *)
LEMMA StoredStep == ASSUME IInv, Stored PROVE IInv'
<1> USE DEF IInv
<1>0. /\ UNCHANGED << files, edges, indeg, ready, order, number, rows >>
      /\ at = "insert" /\ at' = "stored" /\ Len(rows) = Len(order)
  BY DEF Stored
<1>1. TypeOK'
  BY <1>0, OrderKept DEF TypeOK
<1>2. RowsInv'
  BY <1>0, OrderKept DEF RowsInv
<1>3. FitInv' /\ CountInv' /\ CoverInv'
  BY <1>0, OrderKept DEF CountInv, CoverInv, Sorted
<1> QED
  BY <1>1, <1>2, <1>3

(* Every step keeps the invariant, for plans that name a file twice as     *)
(* well.                                                                   *)
LEMMA StepHolds == IInv /\ [Next]_vars => IInv'
<1> SUFFICES ASSUME IInv, [Next]_vars PROVE IInv'
  OBVIOUS
<1>1. CASE UNCHANGED vars
  <2>1. UNCHANGED << files, edges, indeg, ready, order, at, number, rows >>
    BY <1>1 DEF vars
  <2> QED
    BY <2>1, OrderKept DEF IInv, TypeOK, CountInv, CoverInv, RowsInv
<1>2. CASE CountEdges
  BY <1>2, CountEdgesStep
<1>3. CASE Remainder
  BY <1>3, RemainderStep
<1>4. CASE EndOfRest
  BY <1>4, EndOfRestStep
<1>5. CASE Number
  BY <1>5, NumberStep
<1>6. CASE Insert
  BY <1>6, InsertStep
<1>7. CASE Stored
  BY <1>7, StoredStep
<1>8. ASSUME NEW f \in Planned, Place(f) PROVE IInv'
  BY <1>8, PlaceStep
<1>9. ASSUME NEW f \in Planned, PlaceRest(f) PROVE IInv'
  BY <1>9, PlaceRestStep
<1> QED
  BY <1>1, <1>2, <1>3, <1>4, <1>5, <1>6, <1>7, <1>8, <1>9 DEF Next

(* What a plan becomes keeps its type: no row names a step the plan has    *)
(* not, and none is numbered beyond the plan.                              *)
THEOREM TypeCorrect == Spec => []TypeOK
<1>1. IInv => TypeOK
  BY DEF IInv
<1> QED
  BY <1>1, InitHolds, StepHolds, PTL DEF Spec

(* No file of a plan is forgotten, whatever its cycles and however often   *)
(* it is named: the remainder of topo_order loses none.                    *)
THEOREM NoFileIsForgotten == Spec => []EveryFileIsPlaced
<1>1. IInv => EveryFileIsPlaced
  BY DEF IInv, CoverInv, EveryFileIsPlaced, Sorted
<1> QED
  BY <1>1, InitHolds, StepHolds, PTL DEF Spec

-----------------------------------------------------------------------------
(* One step for each file *)

(* A file is named at one place of the plan and placed at most once.       *)
LEMMA DistinctFacts ==
  ASSUME files \in Seq(Files), order \in Seq(Planned), FitInv, OneStepPerFile
  PROVE  /\ Len(order) \in Nat /\ DOMAIN order = 1 .. Len(order)
         /\ order \in [DOMAIN order -> Planned]
         /\ \A i, j \in DOMAIN order : order[i] = order[j] => i = j
         /\ \A i \in DOMAIN order : LastAt(order, order[i]) = i
         /\ \A i \in DOMAIN files : LastAt(files, files[i]) = i
         /\ \A f \in Planned : LastAt(files, f) \in Nat
         /\ \A f \in Planned : Count(files, f) = 1
<1>1. Len(order) \in Nat /\ DOMAIN order = 1 .. Len(order) /\ order \in [DOMAIN order -> Planned]
  BY LenProperties
<1>2. \A i, j \in DOMAIN order : order[i] = order[j] => i = j
  <2>1. PICK fit \in [DOMAIN order -> DOMAIN files] : Fits(fit)
    BY DEF FitInv
  <2> QED
    BY <2>1 DEF Fits, OneStepPerFile
<1>3. \A i \in DOMAIN order : LastAt(order, order[i]) = i
  BY <1>2, OnlyOccurrence
<1>4. \A i \in DOMAIN files : LastAt(files, files[i]) = i
  BY OnlyOccurrence DEF OneStepPerFile
<1>5. \A f \in Planned : LastAt(files, f) \in Nat
  BY PlanFacts
<1>6. ASSUME NEW f \in Planned PROVE Count(files, f) = 1
  <2>1. PICK i \in DOMAIN files : files[i] = f
    BY DEF Planned
  <2>2. { j \in DOMAIN files : files[j] = f } = { i }
    BY <2>1 DEF OneStepPerFile
  <2> QED
    BY <2>2, FS_Singleton DEF Count
<1> QED
  BY <1>1, <1>2, <1>3, <1>4, <1>5, <1>6

NeverRaised == OneStepPerFile => at # "raised"

(* Distinct files have distinct numbers: no row is there already.          *)
LEMMA NeverRaisedStep == ASSUME IInv, NeverRaised, [Next]_vars PROVE NeverRaised'
<1> SUFFICES ASSUME OneStepPerFile, at' = "raised" PROVE FALSE
  BY PlanKept DEF NeverRaised
<1>1. at # "raised"
  BY DEF NeverRaised
<1>2. Insert
  BY <1>1 DEF Next, vars, CountEdges, Remainder, EndOfRest, Number, Stored, Place, PlaceRest
<1>3. /\ at = "insert" /\ Len(rows) < Len(order)
      /\ Len(rows) \in Nat /\ DOMAIN rows = 1 .. Len(rows)
      /\ \E i \in DOMAIN rows : rows[i].index = number[order[Len(rows) + 1]]
  BY <1>2, InsertFacts DEF IInv
<1>4. /\ Len(order) \in Nat /\ DOMAIN order = 1 .. Len(order)
      /\ order \in [DOMAIN order -> Planned]
      /\ \A i \in DOMAIN order : LastAt(order, order[i]) = i
  BY DistinctFacts DEF IInv, TypeOK
<1>5. PICK i \in DOMAIN rows : rows[i].index = number[order[Len(rows) + 1]]
  BY <1>3
<1>6. /\ number = [f \in Planned |-> LastAt(order, f) - 1]
      /\ rows[i] = [index |-> number[order[i]], step |-> LastAt(files, order[i])]
  BY <1>3 DEF IInv, RowsInv
<1>7. i \in DOMAIN order /\ Len(rows) + 1 \in DOMAIN order /\ i \in Nat /\ i # Len(rows) + 1
  BY <1>3, <1>4
<1>8. number[order[i]] = i - 1 /\ number[order[Len(rows) + 1]] = Len(rows) + 1 - 1
  BY <1>4, <1>6, <1>7
<1> QED
  BY <1>3, <1>5, <1>6, <1>7, <1>8

(* What is stored: a row for each file of the order, at its place.         *)
LEMMA StoredRows ==
  ASSUME IInv, at = "stored", OneStepPerFile
  PROVE  /\ DOMAIN rows = DOMAIN order /\ Placed = Planned
         /\ \A i \in DOMAIN rows :
              rows[i].index = i - 1 /\ rows[i].step = LastAt(files, order[i])
<1>1. /\ files \in Seq(Files) /\ Len(rows) = Len(order) /\ Placed = Planned
      /\ number = [f \in Planned |-> LastAt(order, f) - 1]
      /\ \A i \in DOMAIN rows :
           rows[i] = [index |-> number[order[i]], step |-> LastAt(files, order[i])]
  BY DEF IInv, TypeOK, RowsInv, CoverInv, Sorted
<1>2. /\ DOMAIN order = 1 .. Len(order) /\ order \in [DOMAIN order -> Planned]
      /\ \A i \in DOMAIN order : LastAt(order, order[i]) = i
  BY DistinctFacts DEF IInv, TypeOK
<1>3. DOMAIN rows = DOMAIN order
  <2>1. rows \in Seq([index : 0 .. Len(files) - 1, step : DOMAIN files])
    BY DEF IInv, TypeOK
  <2>2. DOMAIN rows = 1 .. Len(rows)
    BY <2>1, LenProperties
  <2> QED
    BY <1>1, <1>2, <2>2
<1> QED
  BY <1>1, <1>2, <1>3

(* A plan of one step per file has all its rows, numbered as they were     *)
(* sorted.                                                                 *)
LEMMA AllStepsAreStored == IInv /\ NeverRaised => DistinctPlanIsStored
<1> SUFFICES ASSUME IInv, at = "stored", OneStepPerFile
             PROVE  { rows[i].step : i \in DOMAIN rows } = DOMAIN files
  BY StoredRows DEF NeverRaised, DistinctPlanIsStored
<1>1. /\ DOMAIN rows = DOMAIN order /\ Placed = Planned
      /\ \A i \in DOMAIN rows : rows[i].step = LastAt(files, order[i])
  BY StoredRows
<1>2. /\ files \in Seq(Files) /\ order \in [DOMAIN order -> Planned]
      /\ \A i \in DOMAIN files : LastAt(files, files[i]) = i
  BY DistinctFacts DEF IInv, TypeOK
<1>3. \A i \in DOMAIN rows : rows[i].step \in DOMAIN files
  BY <1>1, <1>2, PlanFacts
<1>4. \A p \in DOMAIN files : \E i \in DOMAIN rows : rows[i].step = p
  <2> SUFFICES ASSUME NEW p \in DOMAIN files PROVE \E i \in DOMAIN rows : rows[i].step = p
    OBVIOUS
  <2>1. PICK i \in DOMAIN order : order[i] = files[p]
    BY <1>1 DEF Placed, Planned
  <2> QED
    BY <1>1, <1>2, <2>1
<1> QED
  BY <1>3, <1>4

(* The step indices of a plan of one step per file are the ranks of its    *)
(* steps in the order, no INSERT violates UNIQUE(run_id, step_index), and  *)
(* no cycle loses a step.                                                  *)
THEOREM StepsAreStored == Spec => []DistinctPlanIsStored
<1>1. Init => NeverRaised
  BY DEF Init, NeverRaised
<1>2. IInv /\ NeverRaised /\ [Next]_vars => NeverRaised'
  BY NeverRaisedStep
<1> QED
  BY <1>1, <1>2, InitHolds, StepHolds, AllStepsAreStored, PTL DEF Spec

-----------------------------------------------------------------------------
(* The order is topological, and the plan breaks its ties *)

(* To rest on a cycle is a matter of the graph.                            *)
LEMMA CyclesKept ==
  ASSUME UNCHANGED << files, edges >>
  PROVE  \A f : RestsOnCycle(f)' <=> RestsOnCycle(f)
BY DEF RestsOnCycle, Deps, Planned

(* What the first file of the list ready has behind it, while the list is  *)
(* filled by the dependencies: all it depends on, and no cycle.            *)
LEMMA ReadyFacts ==
  ASSUME IInv, OneStepPerFile, KahnInv, at = "sort", NEW f \in Planned, ready[f] > 0
  PROVE  f \notin Placed /\ Deps(f) \subseteq Placed /\ ready[f] = 1
<1>1. f \notin Placed /\ indeg[f] = 0 /\ indeg[f] = Cardinality(Deps(f) \ Placed)
  BY DEF KahnInv
<1>2. Deps(f) \subseteq Placed
  BY <1>1, DepsFacts DEF IInv, TypeOK
<1>3. ready[f] = 1
  <2>1. /\ Count(order, f) \in Nat /\ ready[f] \in Nat /\ Count(files, f) = 1
        /\ Count(order, f) + ready[f] <= Count(files, f)
    BY CountProperties, DistinctFacts DEF IInv, TypeOK, CountInv
  <2> QED
    BY <2>1
<1> QED
  BY <1>1, <1>2, <1>3

(* A file that is not ready still waits for one that is not placed.        *)
LEMMA WaitingFacts ==
  ASSUME IInv, KahnInv, at = "sort", NEW f \in Planned, f \notin Placed, ready[f] = 0
  PROVE  \E g \in Deps(f) : g \in Planned /\ g \notin Placed
<1>1. indeg[f] # 0 /\ indeg[f] = Cardinality(Deps(f) \ Placed)
  BY DEF KahnInv
<1>2. ~(Deps(f) \subseteq Placed) /\ Deps(f) \subseteq Planned
  BY <1>1, DepsFacts DEF IInv, TypeOK
<1> QED
  BY <1>2

(* Placing a file takes it from the waiting list of all that depend on it. *)
LEMMA KahnPlace ==
  ASSUME IInv, OneStepPerFile, KahnInv, NEW f \in Planned, Place(f)
  PROVE  KahnInv'
<1>0. /\ UNCHANGED << files, edges >> /\ at = "sort" /\ ready[f] > 0
      /\ files \in Seq(Files) /\ order \in Seq(Planned) /\ order' = Append(order, f)
      /\ Planned' = Planned /\ \A g : Deps(g)' = Deps(g)
  BY DEF IInv, TypeOK, Place, IsFirst, Planned, Deps
<1>1. Placed' = Placed \cup { f }
  BY <1>0, PlacingAppends
<1>2. f \notin Placed /\ ready[f] = 1 /\ f \notin Deps(f)
  BY <1>0, ReadyFacts, DepsFacts
<1>3. ASSUME NEW g \in Planned
      PROVE  /\ indeg'[g] = Cardinality(Deps(g) \ (Placed \cup { f }))
             /\ g \in Placed \cup { f } => ready'[g] = 0
             /\ g \notin Placed \cup { f } => (ready'[g] > 0 <=> indeg'[g] = 0)
  <2>1. /\ indeg[g] = Cardinality(Deps(g) \ Placed)
        /\ g \in Placed => ready[g] = 0
        /\ g \notin Placed => (ready[g] > 0 <=> indeg[g] = 0)
    BY <1>0 DEF KahnInv
  <2>2. /\ indeg'[g] = IF f \in Deps(g) THEN indeg[g] - 1 ELSE indeg[g]
        /\ ready'[g] = (IF g = f THEN ready[g] - 1 ELSE ready[g])
                         + (IF f \in Deps(g) /\ indeg[g] = 1 THEN 1 ELSE 0)
    BY DEF Place
  <2>3. /\ IsFiniteSet(Deps(g) \ Placed) /\ Cardinality(Deps(g) \ Placed) \in Nat
        /\ Cardinality(Deps(g) \ Placed) = 0 <=> Deps(g) \subseteq Placed
    BY <1>0, DepsFacts
  <2>4. ready[g] \in Nat /\ Count(order, g) \in Nat /\ (Count(order, g) = 0 => g \notin Placed)
    BY <1>0, CountProperties DEF IInv, TypeOK, Placed
  <2>5. CASE f \in Deps(g)
    <3>1. Deps(g) \ (Placed \cup { f }) = (Deps(g) \ Placed) \ { f } /\ f \in Deps(g) \ Placed
      BY <1>2, <2>5
    <3>2. Cardinality(Deps(g) \ (Placed \cup { f })) = Cardinality(Deps(g) \ Placed) - 1
      BY <2>3, <3>1, FS_RemoveElement
    <3>3. indeg[g] >= 1 /\ indeg[g] \in Nat
      BY <2>1, <2>3, <3>1
    <3>4. g \notin Placed /\ g # f /\ ready[g] = 0
      BY <1>0, <1>2, <2>4, <2>5, <3>3 DEF IInv, CountInv
    <3>5. indeg'[g] = indeg[g] - 1 /\ ready'[g] = IF indeg[g] = 1 THEN 1 ELSE 0
      BY <2>2, <2>5, <3>4
    <3> QED
      BY <2>1, <3>2, <3>3, <3>4, <3>5
  <2>6. CASE f \notin Deps(g)
    <3>1. Deps(g) \ (Placed \cup { f }) = Deps(g) \ Placed
      BY <2>6
    <3>2. indeg'[g] = indeg[g] /\ ready'[g] = IF g = f THEN 0 ELSE ready[g]
      BY <1>2, <2>2, <2>4, <2>6
    <3> QED
      BY <2>1, <3>1, <3>2
  <2> QED
    BY <2>5, <2>6
<1> QED
  BY <1>0, <1>1, <1>3 DEF KahnInv

(* Every step keeps the in-degrees true.                                   *)
LEMMA KahnStep == ASSUME IInv, OneStepPerFile, KahnInv, [Next]_vars PROVE KahnInv'
<1>1. CASE CountEdges
  <2>1. /\ UNCHANGED << files, edges, order >> /\ files \in Seq(Files) /\ order = << >>
        /\ indeg' = [f \in Planned |-> Cardinality(Deps(f))]
        /\ ready' = [f \in Planned |-> IF Deps(f) = {} THEN Count(files, f) ELSE 0]
    BY <1>1 DEF CountEdges, IInv, TypeOK, RowsInv
  <2>2. Placed = {}
    <3>1. << >> \in Seq(Planned) /\ DOMAIN << >> = {}
      BY EmptySeq
    <3> QED
      BY <2>1, <3>1 DEF Placed
  <2>3. ASSUME NEW f \in Planned PROVE Cardinality(Deps(f)) = 0 <=> Deps(f) = {}
    <3>1. Deps(f) \subseteq Planned
      BY DEF Deps
    <3> QED
      BY <2>1, <3>1, PlanFacts, FS_Subset, FS_EmptySet
  <2>4. \A f \in Planned : Deps(f) \ Placed = Deps(f) /\ Count(files, f) \in Nat \ { 0 }
    BY <2>1, <2>2, PlanFacts
  <2>5. ASSUME NEW f \in Planned
        PROVE  /\ indeg'[f] = Cardinality(Deps(f) \ Placed)
               /\ f \notin Placed /\ (ready'[f] > 0 <=> indeg'[f] = 0)
    BY <2>1, <2>2, <2>3, <2>4
  <2>6. Planned' = Planned /\ Placed' = Placed /\ \A f : Deps(f)' = Deps(f)
    BY <2>1, OrderKept
  <2> QED
    BY <2>5, <2>6 DEF KahnInv
<1>2. ASSUME NEW f \in Planned, Place(f) PROVE KahnInv'
  BY <1>2, KahnPlace
<1>3. CASE at' # "sort"
  BY <1>3 DEF KahnInv
<1>4. CASE UNCHANGED vars
  BY <1>4, OrderKept DEF KahnInv, vars
<1> QED
  BY <1>1, <1>2, <1>3, <1>4
     DEF Next, Remainder, EndOfRest, Number, Insert, Stored, PlaceRest

(* What is placed behind the order does not change what is in it.          *)
LEMMA PlacingKeeps ==
  ASSUME order \in Seq(Planned), NEW f \in Planned, order' = Append(order, f),
         UNCHANGED << files, edges >>,
         NEW i \in DOMAIN order
  PROVE  /\ i \in DOMAIN order' /\ order'[i] = order[i]
         /\ AfterDeps(i)' <=> AfterDeps(i)
         /\ RestsOnCycle(order[i])' <=> RestsOnCycle(order[i])
<1>1. /\ Len(order) \in Nat
      /\ DOMAIN order = 1 .. Len(order) /\ DOMAIN order' = 1 .. Len(order) + 1
      /\ \A k \in 1 .. Len(order) : order'[k] = order[k]
  BY PlacingAppends
<1>2. i \in DOMAIN order' /\ order'[i] = order[i] /\ 1 .. i - 1 \subseteq 1 .. Len(order)
  BY <1>1
<1>3. \A g : Deps(g)' = Deps(g) /\ (RestsOnCycle(g)' <=> RestsOnCycle(g))
  BY CyclesKept DEF Deps, Planned
<1>4. AfterDeps(i)' <=> AfterDeps(i)
  BY <1>1, <1>2 DEF AfterDeps, Deps, Planned
<1>5. RestsOnCycle(order[i])' <=> RestsOnCycle(order[i])
  BY <1>2 DEF RestsOnCycle, Deps, Planned
<1> QED
  BY <1>2, <1>4, <1>5

(* While dependencies fill the list ready, a file comes after all it       *)
(* depends on, and none that rests on a cycle is placed.                   *)
LEMMA DepsPlace ==
  ASSUME IInv, OneStepPerFile, KahnInv, DepsInv, NEW f \in Planned, Place(f)
  PROVE  DepsInv'
<1>0. /\ UNCHANGED << files, edges, at >> /\ at = "sort" /\ ready[f] > 0
      /\ order \in Seq(Planned) /\ order' = Append(order, f)
  BY DEF IInv, TypeOK, Place, IsFirst
<1>n. PICK n \in Nat : n = Len(order) + 1
  BY <1>0, LenProperties
<1>1. /\ Len(order) \in Nat /\ DOMAIN order = 1 .. Len(order) /\ DOMAIN order' = 1 .. n
      /\ \A k \in 1 .. Len(order) : order'[k] = order[k]
      /\ order'[n] = f
  BY <1>0, <1>n, PlacingAppends
<1>2. Deps(f) \subseteq Placed
  BY <1>0, ReadyFacts
<1>3. AfterDeps(n)'
  <2>1. \A g \in Deps(f) : \E k \in 1 .. Len(order) : order'[k] = g
    BY <1>1, <1>2 DEF Placed
  <2>2. n - 1 = Len(order) /\ order'[n] = f
    BY <1>1, <1>n
  <2> QED
    BY <1>0, <2>1, <2>2 DEF AfterDeps, Deps, Planned
<1>4. ~RestsOnCycle(f)
  <2> SUFFICES ASSUME NEW S \in SUBSET Planned, f \in S, \A g \in S : Deps(g) \cap S # {}
               PROVE  FALSE
    BY DEF RestsOnCycle
  <2>1. PICK g \in Deps(f) : g \in S
    OBVIOUS
  <2>2. PICK k \in DOMAIN order : order[k] = g
    BY <1>2, <2>1 DEF Placed
  <2>3. RestsOnCycle(order[k])
    BY <2>1, <2>2 DEF RestsOnCycle
  <2> QED
    BY <1>0, <2>2, <2>3 DEF DepsInv
<1>5. ASSUME NEW i \in DOMAIN order'
      PROVE  AfterDeps(i)' /\ ~RestsOnCycle(order[i])'
  <2>1. CASE i = n
    <3>1. ~RestsOnCycle(f)'
      BY <1>0, <1>4, CyclesKept
    <3>2. ~RestsOnCycle(order[n])'
      BY <1>1, <3>1 DEF RestsOnCycle, Deps, Planned
    <3> QED
      BY <1>3, <2>1, <3>2
  <2>2. CASE i # n
    <3>1. i \in DOMAIN order
      BY <1>1, <1>n, <2>2
    <3>2. AfterDeps(i) /\ ~RestsOnCycle(order[i])
      BY <1>0, <3>1 DEF DepsInv
    <3>3. AfterDeps(i)' /\ order'[i] = order[i]
      BY <1>0, <3>1, <3>2, PlacingKeeps
    <3>4. ~RestsOnCycle(order[i])'
      BY <1>0, <3>2, <3>3 DEF RestsOnCycle, Deps, Planned
    <3> QED
      BY <3>3, <3>4
  <2> QED
    BY <2>1, <2>2
<1> QED
  BY <1>0, <1>5 DEF DepsInv

(* When nothing is ready, all that is left rests on a cycle.               *)
LEMMA DepsRemainder ==
  ASSUME IInv, KahnInv, DepsInv, Remainder
  PROVE  DepsInv'
<1>0. /\ UNCHANGED << files, edges, order >> /\ at = "sort" /\ at' \in { "rest", "number" }
      /\ \A g \in Planned : ready[g] = 0
      /\ at' = "rest" =>
           ready' = [g \in Planned |-> IF g \in Placed THEN 0 ELSE Count(files, g)]
  BY DEF Remainder
<1>1. ASSUME at' = "rest", NEW f \in Planned, ready'[f] > 0 PROVE RestsOnCycle(f)
  <2>1. f \in Planned \ Placed
    BY <1>0, <1>1
  <2>2. \A g \in Planned \ Placed : Deps(g) \cap (Planned \ Placed) # {}
    BY <1>0, WaitingFacts
  <2> QED
    BY <2>1, <2>2 DEF RestsOnCycle
<1>2. \A i \in DOMAIN order : AfterDeps(i) \/ RestsOnCycle(order[i])
  BY DEF DepsInv
<1>3. \A i \in DOMAIN order' : AfterDeps(i)' \/ RestsOnCycle(order[i])'
  BY <1>0, <1>2 DEF AfterDeps, RestsOnCycle, Deps, Planned
<1>4. at' = "rest" => \A f \in Planned' : ready'[f] > 0 => RestsOnCycle(f)'
  BY <1>0, <1>1, CyclesKept DEF Planned
<1> QED
  BY <1>0, <1>3, <1>4 DEF DepsInv

(* What is placed from the rest rests on a cycle.                          *)
LEMMA DepsPlaceRest ==
  ASSUME IInv, DepsInv, NEW f \in Planned, PlaceRest(f)
  PROVE  DepsInv'
<1>0. /\ UNCHANGED << files, edges, at >> /\ at = "rest" /\ ready[f] > 0
      /\ order \in Seq(Planned) /\ order' = Append(order, f)
      /\ ready \in [Planned -> Nat] /\ ready' = [ready EXCEPT ![f] = @ - 1]
  BY DEF IInv, TypeOK, PlaceRest, IsFirst
<1>n. PICK n \in Nat : n = Len(order) + 1
  BY <1>0, LenProperties
<1>1. /\ DOMAIN order = 1 .. Len(order) /\ DOMAIN order' = 1 .. n
      /\ \A i \in DOMAIN order' : i = n \/ i \in DOMAIN order
      /\ order'[n] = f
  BY <1>0, <1>n, PlacingAppends
<1>2. RestsOnCycle(order[n])'
  <2>1. RestsOnCycle(f)
    BY <1>0 DEF DepsInv
  <2> QED
    BY <1>0, <1>1, <2>1 DEF RestsOnCycle, Deps, Planned
<1>3. ASSUME NEW i \in DOMAIN order PROVE AfterDeps(i)' \/ RestsOnCycle(order[i])'
  <2>1. AfterDeps(i) \/ RestsOnCycle(order[i])
    BY DEF DepsInv
  <2> QED
    BY <1>0, <2>1, PlacingKeeps
<1>4. \A i \in DOMAIN order' : AfterDeps(i)' \/ RestsOnCycle(order[i])'
  <2> SUFFICES ASSUME NEW i \in DOMAIN order' PROVE AfterDeps(i)' \/ RestsOnCycle(order[i])'
    OBVIOUS
  <2>1. CASE i = n
    BY <1>2, <2>1
  <2>2. CASE i # n
    BY <1>1, <1>3, <2>2
  <2> QED
    BY <2>1, <2>2
<1>5. ASSUME NEW g \in Planned, ready'[g] > 0 PROVE RestsOnCycle(g)'
  <2>1. ready[g] > 0
    BY <1>0, <1>5
  <2>2. RestsOnCycle(g)
    BY <1>0, <2>1 DEF DepsInv
  <2> QED
    BY <1>0, <2>2, CyclesKept
<1>6. Planned' = Planned
  BY <1>0 DEF Planned
<1> QED
  BY <1>0, <1>4, <1>5, <1>6 DEF DepsInv

(* Every step keeps dependencies first.                                    *)
LEMMA DepsStep ==
  ASSUME IInv, OneStepPerFile, KahnInv, DepsInv, [Next]_vars
  PROVE  DepsInv'
<1>1. CASE CountEdges
  <2>1. order' = << >> /\ at' = "sort"
    BY <1>1 DEF CountEdges, IInv, RowsInv
  <2>2. << >> \in Seq(Planned) /\ DOMAIN << >> = {}
    BY EmptySeq
  <2> QED
    BY <2>1, <2>2 DEF DepsInv
<1>2. CASE Remainder
  BY <1>2, DepsRemainder
<1>3. ASSUME NEW f \in Planned, Place(f) PROVE DepsInv'
  BY <1>3, DepsPlace
<1>4. ASSUME NEW f \in Planned, PlaceRest(f) PROVE DepsInv'
  BY <1>4, DepsPlaceRest
<1>5. CASE EndOfRest \/ Number \/ Insert \/ Stored \/ UNCHANGED vars
  <2>1. /\ UNCHANGED << files, edges, order, ready >>
        /\ at' \in { "sort", "rest" } => at' = at
    BY <1>5 DEF vars, EndOfRest, Number, Insert, Stored
  <2>2. /\ Planned' = Planned /\ DOMAIN order' = DOMAIN order
        /\ \A f : RestsOnCycle(f)' <=> RestsOnCycle(f)
    BY <2>1, CyclesKept DEF Planned
  <2>3. \A i : /\ AfterDeps(i)' <=> AfterDeps(i)
               /\ RestsOnCycle(order[i])' <=> RestsOnCycle(order[i])
    BY <2>1 DEF AfterDeps, RestsOnCycle, Deps, Planned
  <2> QED
    BY <2>1, <2>2, <2>3 DEF DepsInv
<1> QED
  BY <1>1, <1>2, <1>3, <1>4, <1>5 DEF Next

(* A file that stays behind the one placed was not ready, or comes later   *)
(* in the plan.                                                            *)
LEMMA TiePlace ==
  ASSUME IInv, OneStepPerFile, KahnInv, TieInv, NEW h \in Planned, Place(h)
  PROVE  TieInv'
<1>0. /\ UNCHANGED << files, edges, at >> /\ at = "sort" /\ IsFirst(h)
      /\ files \in Seq(Files) /\ order \in Seq(Planned) /\ order' = Append(order, h)
      /\ ready \in [Planned -> Nat]
  BY DEF IInv, TypeOK, Place
<1>n. PICK n \in Nat : n = Len(order) + 1
  BY <1>0, LenProperties
<1>1. /\ DOMAIN order = 1 .. n - 1 /\ DOMAIN order' = 1 .. n
      /\ \A k \in 1 .. n - 1 : order'[k] = order[k]
      /\ order'[n] = h /\ Placed' = Placed \cup { h }
      /\ \A i \in 1 .. n : i = n \/ i \in 1 .. n - 1
      /\ \A i \in 1 .. n : 1 .. i - 1 \subseteq 1 .. n - 1
  BY <1>0, <1>n, PlacingAppends
<1>2. ASSUME NEW f \in Planned, f \notin Placed, f # h, NEW i \in 1 .. n,
             LastAt(files, f) < LastAt(files, order'[i])
      PROVE  \E g \in Deps(f) : \A k \in 1 .. i - 1 : order'[k] # g
  <2>1. CASE i = n
    <3>1. ready[f] = 0
      <4>1. ready[f] > 0 => LastAt(files, h) <= LastAt(files, f)
        BY <1>0 DEF IsFirst
      <4>2. LastAt(files, h) \in Nat /\ LastAt(files, f) \in Nat /\ ready[f] \in Nat
        BY <1>0, DistinctFacts DEF IInv
      <4> QED
        BY <1>1, <1>2, <2>1, <4>1, <4>2
    <3>2. PICK g \in Deps(f) : g \notin Placed
      BY <1>0, <1>2, <3>1, WaitingFacts
    <3>3. \A k \in 1 .. n - 1 : order'[k] # g
      BY <1>1, <3>2 DEF Placed
    <3> QED
      BY <2>1, <3>3
  <2>2. CASE i # n
    <3>1. i \in DOMAIN order /\ order'[i] = order[i]
      BY <1>1, <2>2
    <3>2. PICK g \in Deps(f) : \A k \in 1 .. i - 1 : order[k] # g
      BY <1>0, <1>2, <3>1 DEF TieInv
    <3> QED
      BY <1>1, <3>2
  <2> QED
    BY <2>1, <2>2
<1>3. /\ Planned' = Planned /\ at' = "sort"
      /\ \A f : Deps(f)' = Deps(f)
  BY <1>0 DEF Deps, Planned
<1>4. ASSUME NEW f \in (Planned \ Placed)', NEW i \in DOMAIN order',
             (LastAt(files, f) < LastAt(files, order[i]))'
      PROVE  (\E g \in Deps(f) : \A k \in 1 .. i - 1 : order[k] # g)'
  <2>1. LastAt(files, f) < LastAt(files, order'[i])
    BY <1>0, <1>4
  <2>2. \E g \in Deps(f) : \A k \in 1 .. i - 1 : order'[k] # g
    BY <1>1, <1>2, <1>3, <2>1
  <2> QED
    BY <1>3, <2>2
<1> QED
  BY <1>3, <1>4 DEF TieInv

(* The rest is placed in the order of the plan.                            *)
LEMMA TiePlaceRest ==
  ASSUME IInv, TieInv, NEW h \in Planned, PlaceRest(h)
  PROVE  TieInv'
<1>0. /\ UNCHANGED << files, edges, at >> /\ at = "rest" /\ IsFirst(h)
      /\ order \in Seq(Planned) /\ order' = Append(order, h)
      /\ ready \in [Planned -> Nat] /\ ready' = [ready EXCEPT ![h] = @ - 1]
  BY DEF IInv, TypeOK, PlaceRest
<1>n. PICK n \in Nat : n = Len(order) + 1
  BY <1>0, LenProperties
<1>1. /\ DOMAIN order = 1 .. n - 1 /\ DOMAIN order' = 1 .. n
      /\ \A k \in 1 .. n - 1 : order'[k] = order[k]
      /\ order'[n] = h
      /\ \A i \in 1 .. n : i = n \/ i \in 1 .. n - 1
  BY <1>0, <1>n, PlacingAppends
<1>2. ASSUME NEW f \in Planned, ready'[f] > 0, NEW i \in DOMAIN order', RestsOnCycle(order[i])'
      PROVE  LastAt(files, order'[i]) <= LastAt(files, f)
  <2>1. ready[f] > 0
    BY <1>0, <1>2
  <2>2. CASE i = n
    BY <1>0, <1>1, <2>1, <2>2 DEF IsFirst
  <2>3. CASE i # n
    <3>1. i \in DOMAIN order /\ order'[i] = order[i]
      BY <1>1, <2>3
    <3>2. RestsOnCycle(order[i])
      BY <1>0, <1>2, <3>1, PlacingKeeps
    <3> QED
      BY <1>0, <2>1, <3>1, <3>2 DEF TieInv
  <2> QED
    BY <2>2, <2>3
<1>3. Planned' = Planned
  BY <1>0 DEF Planned
<1> QED
  BY <1>0, <1>2, <1>3 DEF TieInv

(* Every step keeps the reason why a file was overtaken.                   *)
LEMMA TieStep ==
  ASSUME IInv, OneStepPerFile, KahnInv, DepsInv, TieInv, [Next]_vars
  PROVE  TieInv'
<1>1. CASE CountEdges
  <2>1. order' = << >> /\ at' = "sort"
    BY <1>1 DEF CountEdges, IInv, RowsInv
  <2>2. << >> \in Seq(Planned) /\ DOMAIN << >> = {}
    BY EmptySeq
  <2> QED
    BY <2>1, <2>2 DEF TieInv
<1>2. CASE Remainder
  <2>1. UNCHANGED << files, edges, order >> /\ at = "sort" /\ at' # "sort"
    BY <1>2 DEF Remainder
  <2>2. \A i \in DOMAIN order : ~RestsOnCycle(order[i])
    BY <2>1 DEF DepsInv
  <2>3. \A i \in DOMAIN order' : ~RestsOnCycle(order[i])'
    BY <2>1, <2>2 DEF RestsOnCycle, Deps, Planned
  <2> QED
    BY <2>1, <2>3 DEF TieInv
<1>3. ASSUME NEW f \in Planned, Place(f) PROVE TieInv'
  BY <1>3, TiePlace
<1>4. ASSUME NEW f \in Planned, PlaceRest(f) PROVE TieInv'
  BY <1>4, TiePlaceRest
<1>5. CASE EndOfRest \/ Number \/ Insert \/ Stored
  BY <1>5 DEF EndOfRest, Number, Insert, Stored, TieInv
<1>6. CASE UNCHANGED vars
  <2>1. UNCHANGED << files, edges, order, ready, at >>
    BY <1>6 DEF vars
  <2> QED
    BY <2>1 DEF TieInv, RestsOnCycle, Deps, Planned, Placed
<1> QED
  BY <1>1, <1>2, <1>3, <1>4, <1>5, <1>6 DEF Next

(* Only a step that waits for another, or for the rest, is overtaken by a  *)
(* later one of the plan.                                                  *)
LEMMA TiesPlaced ==
  ASSUME IInv, OneStepPerFile, KahnInv, DepsInv, TieInv, PlanBreaksTies,
         NEW f \in Planned, Place(f) \/ PlaceRest(f)
  PROVE  PlanBreaksTies'
<1>0. /\ UNCHANGED << files, edges >> /\ IsFirst(f)
      /\ files \in Seq(Files) /\ order \in Seq(Planned) /\ order' = Append(order, f)
      /\ ready[f] > 0
  BY DEF IInv, TypeOK, Place, PlaceRest, IsFirst
<1>n. PICK n \in Nat : n = Len(order) + 1
  BY <1>0, LenProperties
<1>1. /\ DOMAIN order = 1 .. n - 1 /\ DOMAIN order' = 1 .. n
      /\ \A k \in 1 .. n - 1 : order'[k] = order[k]
      /\ order'[n] = f
      /\ \A i \in 1 .. n : i = n \/ i \in 1 .. n - 1
      /\ \A i \in 1 .. n - 1 : i .. n - 1 \subseteq 1 .. n - 1
      /\ \A i \in 1 .. n - 1 : \A k \in 1 .. n - 1 : k \in 1 .. i - 1 \/ k \in i .. n - 1
      /\ order \in [DOMAIN order -> Planned]
  BY <1>0, <1>n, PlacingAppends, LenProperties
<1>2. ASSUME NEW i \in 1 .. n - 1, LastAt(files, f) < LastAt(files, order[i])
      PROVE  (\E k \in i .. n - 1 : order[k] \in Deps(f)) \/ (RestsOnCycle(f) /\ ~RestsOnCycle(order[i]))
  <2>1. CASE Place(f)
    <3>1. at = "sort"
      BY <2>1 DEF Place
    <3>2. f \notin Placed /\ Deps(f) \subseteq Placed
      BY <1>0, <3>1, ReadyFacts
    <3>3. PICK g \in Deps(f) : \A k \in 1 .. i - 1 : order[k] # g
      BY <1>1, <1>2, <3>1, <3>2 DEF TieInv
    <3>4. PICK k \in 1 .. n - 1 : order[k] = g
      BY <1>1, <3>2, <3>3 DEF Placed
    <3>5. k \in i .. n - 1
      BY <1>1, <3>3, <3>4
    <3> QED
      BY <3>4, <3>5
  <2>2. CASE PlaceRest(f)
    <3>1. at = "rest"
      BY <2>2 DEF PlaceRest
    <3>2. RestsOnCycle(f)
      BY <1>0, <3>1 DEF DepsInv
    <3>3. RestsOnCycle(order[i]) => LastAt(files, order[i]) <= LastAt(files, f)
      BY <1>0, <1>1, <3>1 DEF TieInv
    <3>4. LastAt(files, order[i]) \in Nat /\ LastAt(files, f) \in Nat
      BY <1>0, <1>1, DistinctFacts DEF IInv
    <3> QED
      BY <1>2, <3>2, <3>3, <3>4
  <2> QED
    BY <2>1, <2>2
<1>3. ASSUME NEW i \in DOMAIN order', NEW j \in DOMAIN order', i < j,
             (LastAt(files, order[j]) < LastAt(files, order[i]))'
      PROVE  \/ (\E k \in i .. j - 1 : order[k] \in Deps(order[j]))'
             \/ (RestsOnCycle(order[j]) /\ ~RestsOnCycle(order[i]))'
  <2>1. i \in 1 .. n - 1 /\ order'[i] = order[i]
    BY <1>1, <1>3
  <2>2. LastAt(files, order'[j]) < LastAt(files, order'[i])
    BY <1>0, <1>3
  <2>3. CASE j = n
    <3>1. LastAt(files, f) < LastAt(files, order[i])
      BY <1>1, <2>1, <2>2, <2>3
    <3>2. CASE \E k \in i .. n - 1 : order[k] \in Deps(f)
      <4>1. PICK k \in i .. n - 1 : order[k] \in Deps(f)
        BY <3>2
      <4>2. order'[k] = order[k] /\ order'[j] = f /\ k \in i .. j - 1
        BY <1>1, <2>1, <2>3, <4>1
      <4>3. order'[k] \in Deps(order[j])'
        BY <1>0, <4>1, <4>2 DEF Deps, Planned
      <4> QED
        BY <4>2, <4>3
    <3>3. CASE RestsOnCycle(f) /\ ~RestsOnCycle(order[i])
      <4>1. RestsOnCycle(order[j])'
        <5>1. order'[j] = f /\ RestsOnCycle(f)
          BY <1>1, <2>3, <3>3
        <5>2. UNCHANGED << files, edges >>
          BY <1>0
        <5>3. RestsOnCycle(f)'
          BY <5>1, <5>2, CyclesKept
        <5> QED
          BY <5>1, <5>3 DEF RestsOnCycle, Deps, Planned
      <4>2. ~RestsOnCycle(order[i])'
        BY <1>0, <1>1, <2>1, <3>3, PlacingKeeps
      <4> QED
        BY <4>1, <4>2
    <3> QED
      BY <1>2, <2>1, <3>1, <3>2, <3>3
  <2>4. CASE j # n
    <3>1. j \in 1 .. n - 1 /\ order'[j] = order[j]
      BY <1>1, <2>4
    <3>2. \/ \E k \in i .. j - 1 : order[k] \in Deps(order[j])
          \/ RestsOnCycle(order[j]) /\ ~RestsOnCycle(order[i])
      BY <1>1, <1>3, <2>1, <2>2, <3>1 DEF PlanBreaksTies
    <3>3. CASE \E k \in i .. j - 1 : order[k] \in Deps(order[j])
      <4>1. PICK k \in i .. j - 1 : order[k] \in Deps(order[j])
        BY <3>3
      <4>2. k \in 1 .. n - 1
        BY <1>n, <2>1, <3>1
      <4>3. order'[k] = order[k]
        BY <1>1, <4>2
      <4>4. order'[k] \in Deps(order[j])'
        BY <1>0, <3>1, <4>1, <4>3 DEF Deps, Planned
      <4> QED
        BY <4>1, <4>4
    <3>4. CASE RestsOnCycle(order[j]) /\ ~RestsOnCycle(order[i])
      BY <1>0, <1>1, <2>1, <3>1, <3>4, PlacingKeeps
    <3> QED
      BY <3>2, <3>3, <3>4
  <2> QED
    BY <2>3, <2>4
<1> QED
  BY <1>3 DEF PlanBreaksTies

(* Where nothing is placed, nobody is overtaken.                           *)
LEMMA TiesKept ==
  ASSUME PlanBreaksTies, OneStepPerFile, UNCHANGED << files, edges, order >>
  PROVE  PlanBreaksTies'
<1>1. ASSUME NEW i \in DOMAIN order', NEW j \in DOMAIN order', i < j,
             (LastAt(files, order[j]) < LastAt(files, order[i]))'
      PROVE  \/ (\E k \in i .. j - 1 : order[k] \in Deps(order[j]))'
             \/ (RestsOnCycle(order[j]) /\ ~RestsOnCycle(order[i]))'
  <2>1. LastAt(files, order[j]) < LastAt(files, order[i])
    BY <1>1
  <2>2. \/ \E k \in i .. j - 1 : order[k] \in Deps(order[j])
        \/ RestsOnCycle(order[j]) /\ ~RestsOnCycle(order[i])
    BY <1>1, <2>1 DEF PlanBreaksTies
  <2> QED
    BY <2>2 DEF RestsOnCycle, Deps, Planned
<1> QED
  BY <1>1 DEF PlanBreaksTies

(* Every step keeps what holds of plans of one step per file.              *)
LEMMA DistinctStep == IInv /\ DistinctInv /\ [Next]_vars => DistinctInv'
<1> SUFFICES ASSUME IInv, DistinctInv, [Next]_vars, OneStepPerFile
             PROVE  KahnInv' /\ DepsInv' /\ TieInv' /\ PlanBreaksTies'
  BY PlanKept DEF DistinctInv
<1>0. KahnInv /\ DepsInv /\ TieInv /\ PlanBreaksTies
  BY DEF DistinctInv
<1>1. KahnInv' /\ DepsInv' /\ TieInv'
  BY <1>0, KahnStep, DepsStep, TieStep
<1>2. ASSUME NEW f \in Planned, Place(f) \/ PlaceRest(f) PROVE PlanBreaksTies'
  BY <1>0, <1>2, TiesPlaced
<1>3. ASSUME UNCHANGED << files, edges, order >> PROVE PlanBreaksTies'
  BY <1>0, <1>3, TiesKept
<1> QED
  BY <1>1, <1>2, <1>3
     DEF Next, vars, CountEdges, Remainder, EndOfRest, Number, Insert, Stored

(* At the start no file is placed.                                         *)
LEMMA DistinctInit == Init => DistinctInv
<1> SUFFICES ASSUME Init PROVE KahnInv /\ DepsInv /\ TieInv /\ PlanBreaksTies
  BY DEF DistinctInv
<1>1. order = << >> /\ at = "plan"
  BY DEF Init
<1>2. << >> \in Seq(Planned) /\ DOMAIN << >> = {}
  BY EmptySeq
<1> QED
  BY <1>1, <1>2 DEF KahnInv, DepsInv, TieInv, PlanBreaksTies

(* In every order the plan is the tie-breaker and nothing more, whatever   *)
(* the graph is.                                                           *)
THEOREM TiesAreThePlans == Spec => []PlanBreaksTies
<1>1. DistinctInv => PlanBreaksTies
  BY DEF DistinctInv, PlanBreaksTies
<1> QED
  BY <1>1, InitHolds, StepHolds, DistinctInit, DistinctStep, PTL DEF Spec

(* When all is stored, the rows show the order of the sort.                *)
LEMMA SortedDependencies == IInv /\ DistinctInv => DependenciesFirst
<1> SUFFICES ASSUME IInv, DistinctInv, at = "stored", OneStepPerFile,
                    NEW f \in Planned, NEW g \in Deps(f), ~RestsOnCycle(f)
             PROVE  rows[RowOf(g)].index < rows[RowOf(f)].index
  BY DEF DependenciesFirst
<1>1. /\ DOMAIN rows = DOMAIN order /\ Placed = Planned
      /\ \A i \in DOMAIN rows :
           rows[i].index = i - 1 /\ rows[i].step = LastAt(files, order[i])
  BY StoredRows
<1>2. /\ files \in Seq(Files) /\ order \in [DOMAIN order -> Planned]
      /\ Len(order) \in Nat /\ DOMAIN order = 1 .. Len(order)
      /\ \A i, j \in DOMAIN order : order[i] = order[j] => i = j
  BY DistinctFacts DEF IInv, TypeOK
<1>3. \A i \in DOMAIN rows : files[rows[i].step] = order[i]
  BY <1>1, <1>2, PlanFacts
<1>4. ASSUME NEW h \in Planned, NEW i \in DOMAIN order, order[i] = h
      PROVE  RowOf(h) = i
  <2>1. \A j \in DOMAIN rows : files[rows[j].step] = h <=> j = i
    BY <1>1, <1>2, <1>3, <1>4
  <2> QED
    BY <1>1, <2>1 DEF RowOf
<1>5. PICK i \in DOMAIN order : order[i] = f
  BY <1>1 DEF Placed
<1>6. AfterDeps(i)
  BY <1>5 DEF DistinctInv, DepsInv
<1>7. PICK k \in 1 .. i - 1 : order[k] = g
  BY <1>5, <1>6 DEF AfterDeps
<1>8. k \in DOMAIN order /\ k < i /\ k \in Nat /\ i \in Nat
  BY <1>2, <1>7
<1>9. g \in Planned
  BY DEF Deps
<1>10. RowOf(f) = i /\ RowOf(g) = k
  BY <1>4, <1>5, <1>7, <1>8, <1>9
<1> QED
  BY <1>1, <1>8, <1>10

(* Steps are executed after those they depend on, unless they rest on a    *)
(* cycle: Kahn's sort survives the way to the table steps.                 *)
THEOREM DependenciesComeFirst == Spec => []DependenciesFirst
BY InitHolds, StepHolds, DistinctInit, DistinctStep, SortedDependencies, PTL DEF Spec

=============================================================================
