------------------------------ MODULE PackageProofs ------------------------------
(***************************************************************************)
(* Proofs about the trees of Merkle, for every sequence of entries, about  *)
(* PackageHandling, and about the packages EvidenceExport makes of the     *)
(* store's records.  The functions of Merkle are recursive on the size of a *)
(* subtree; that each exists, and so satisfies its defining equation, is   *)
(* proved once, for any step that looks only at smaller sizes.  What they  *)
(* compute follows by induction on the size.                               *)
(***************************************************************************)
EXTENDS PackageHandling, EvidenceExport, EvidenceStoreProofs, WellFoundedInduction

--------------------------------------------------------------------------------
(* Induction *)

Less == {ss \in Nat \X Nat : ss[1] < ss[2]}

(* No sequence of numbers decreases for ever. *)
LEMMA LessWellFounded == IsWellFoundedOn(Less, Nat)
  BY NatLessThanWellFounded DEF OpToRel, Less

(* A nonempty set of natural numbers has a least element. *)
LEMMA Least ==
  ASSUME NEW T, T \subseteq Nat, T # {}
  PROVE  \E x \in T : \A y \in T : x <= y
<1>1. PICK x \in T : \A y \in SetLessThan(x, Less, Nat) : y \notin T
  BY LessWellFounded, WFMin DEF SetLessThan
<1>2. ASSUME NEW y \in T PROVE x <= y
  <2>1. <<y, x>> \in Nat \X Nat /\ <<y, x>>[1] = y /\ <<y, x>>[2] = x
    OBVIOUS
  <2>2. ~(y < x)
    BY <1>1, <2>1 DEF SetLessThan, Less
  <2> QED BY <2>2
<1> QED BY <1>2

(* Course-of-values induction, over a set in place of a formula. *)
LEMMA SetInduction ==
  ASSUME NEW S, \A n \in Nat : (\A m \in Nat : m < n => m \in S) => n \in S
  PROVE  \A n \in Nat : n \in S
<1> SUFFICES ASSUME Nat \ S # {} PROVE FALSE
  OBVIOUS
<1>1. PICK x \in Nat \ S : \A y \in Nat \ S : x <= y
  BY Least
<1>2. \A m \in Nat : m < x => m \in S
  BY <1>1
<1> QED BY <1>1, <1>2

--------------------------------------------------------------------------------
(* Recursion *)

\* One step of each recursive function of Merkle: its value at n, given as g what
\* it is below n.
PowerStep(g, n) == IF n = 0 THEN 1 ELSE 2 * g[n - 1]
DigitsStep(g, n) == IF n = 0 THEN 0 ELSE 1 + g[n \div 2]
RootStep(entries, g, n) ==
  [lo \in Nat |->
     IF n = 0 THEN EmptyRoot
     ELSE IF n = 1 THEN Leaf(entries[lo + 1])
     ELSE Node(g[Split(n)][lo], g[n - Split(n)][lo + Split(n)])]
PathStep(entries, index, g, n) ==
  [lo \in Nat |->
     IF n <= 1 THEN <<>>
     ELSE IF index < lo + Split(n)
          THEN Append(g[Split(n)][lo], Roots(entries)[n - Split(n)][lo + Split(n)])
          ELSE Append(g[n - Split(n)][lo + Split(n)], Roots(entries)[Split(n)][lo])]
DepthStep(g, n) ==
  [i \in Nat |->
     IF n <= 1 THEN 0
     ELSE 1 + (IF i < Split(n) THEN g[Split(n)][i] ELSE g[n - Split(n)][i - Split(n)])]
RebuildStep(entry, path, g, n) ==
  [i \in Nat |->
     IF n <= 1 THEN [hash |-> Leaf(entry), used |-> 0]
     ELSE IF i < Split(n) THEN Absorb(g[Split(n)][i], path, "left")
                          ELSE Absorb(g[n - Split(n)][i - Split(n)], path, "right")]

Step(f, g, n) ==
  IF f.name = "power" THEN PowerStep(g, n)
  ELSE IF f.name = "digits" THEN DigitsStep(g, n)
  ELSE IF f.name = "root" THEN RootStep(f.entries, g, n)
  ELSE IF f.name = "path" THEN PathStep(f.entries, f.index, g, n)
  ELSE IF f.name = "depth" THEN DepthStep(g, n)
  ELSE RebuildStep(f.entry, f.path, g, n)

\* A step that looks at smaller sizes only.
Local(f) == \A n \in Nat : \A g, h : (\A m \in 0 .. n - 1 : g[m] = h[m]) => Step(f, g, n) = Step(f, h, n)

(* A recursive function whose steps are local exists. *)
LEMMA Recursion == ASSUME NEW f, Local(f) PROVE \E r : r = [n \in Nat |-> Step(f, r, n)]
<1> DEFINE Good(g, n) == \A k \in 0 .. n : g[k] = Step(f, g, k)
<1>1. \A n \in Nat : \E g : Good(g, n)
  <2> DEFINE S == {n \in Nat : \E g : Good(g, n)}
  <2>1. ASSUME NEW n \in Nat, \A m \in Nat : m < n => m \in S PROVE n \in S
    <3>1. PICK g : \A k \in 0 .. n - 1 : g[k] = Step(f, g, k)
      <4>1. CASE n = 0
        BY <4>1
      <4>2. CASE n # 0
        <5>1. n - 1 \in S
          BY <2>1, <4>2
        <5> QED BY <5>1
      <4> QED BY <4>1, <4>2
    <3> DEFINE h == [k \in 0 .. n |-> IF k < n THEN g[k] ELSE Step(f, g, n)]
    <3>2. \A k \in 0 .. n - 1 : h[k] = g[k]
      OBVIOUS
    <3>3. h[n] = Step(f, g, n)
      OBVIOUS
    <3> HIDE DEF h
    <3>4. \A k \in 0 .. n : Step(f, h, k) = Step(f, g, k)
      <4> SUFFICES ASSUME NEW k \in 0 .. n PROVE Step(f, h, k) = Step(f, g, k)
        OBVIOUS
      <4>1. k \in Nat /\ \A m \in 0 .. k - 1 : h[m] = g[m]
        BY <3>2
      <4> QED BY <4>1 DEF Local
    <3>5. \A k \in 0 .. n : h[k] = Step(f, h, k)
      <4> SUFFICES ASSUME NEW k \in 0 .. n PROVE h[k] = Step(f, h, k)
        OBVIOUS
      <4>1. k = n \/ k \in 0 .. n - 1
        OBVIOUS
      <4> QED BY <3>1, <3>2, <3>3, <3>4, <4>1
    <3> QED BY <3>5
  <2> HIDE DEF S
  <2>2. \A n \in Nat : n \in S
    BY <2>1, SetInduction
  <2> QED BY <2>2 DEF S
<1>2. ASSUME NEW g, NEW h, NEW n \in Nat, Good(g, n), Good(h, n) PROVE \A k \in 0 .. n : g[k] = h[k]
  <2> DEFINE S == {k \in Nat : k <= n => g[k] = h[k]}
  <2>1. ASSUME NEW k \in Nat, \A m \in Nat : m < k => m \in S PROVE k \in S
    <3> SUFFICES ASSUME k <= n PROVE g[k] = h[k]
      OBVIOUS
    <3>1. \A m \in 0 .. k - 1 : g[m] = h[m]
      BY <2>1
    <3>2. Step(f, g, k) = Step(f, h, k)
      BY <3>1 DEF Local
    <3> QED BY <1>2, <3>2
  <2> HIDE DEF S
  <2>2. \A k \in Nat : k \in S
    BY <2>1, SetInduction
  <2> QED BY <2>2 DEF S
<1> DEFINE G(n) == CHOOSE g : Good(g, n)
           r == [n \in Nat |-> G(n)[n]]
<1>3. \A n \in Nat : Good(G(n), n)
  BY <1>1
<1> HIDE DEF G
<1>4. ASSUME NEW n \in Nat PROVE r[n] = Step(f, r, n)
  <2>1. r[n] = G(n)[n] /\ G(n)[n] = Step(f, G(n), n)
    BY <1>3
  <2>2. \A m \in 0 .. n - 1 : r[m] = G(n)[m]
    <3> SUFFICES ASSUME NEW m \in 0 .. n - 1 PROVE r[m] = G(n)[m]
      OBVIOUS
    <3>1. m \in Nat /\ r[m] = G(m)[m]
      OBVIOUS
    <3>2. Good(G(n), m) /\ Good(G(m), m)
      BY <1>3, <3>1
    <3>3. G(n)[m] = G(m)[m]
      BY <1>2, <3>1, <3>2
    <3> QED BY <3>1, <3>3
  <2> HIDE DEF r
  <2>3. Step(f, r, n) = Step(f, G(n), n)
    BY <2>2 DEF Local
  <2> QED BY <2>1, <2>3
<1>5. r = [n \in Nat |-> r[n]]
  OBVIOUS
<1> HIDE DEF r
<1>6. r = [n \in Nat |-> Step(f, r, n)]
  BY <1>4, <1>5
<1> QED BY <1>6

(* 1 << k doubles with every k. *)
LEMMA PowerEquation ==
  /\ Power2(0) = 1
  /\ \A k \in Nat : Power2(k + 1) = 2 * Power2(k)
<1> DEFINE f == [name |-> "power"]
           r == CHOOSE g : g = [n \in Nat |-> PowerStep(g, n)]
<1>1. \A g : \A n \in Nat : Step(f, g, n) = PowerStep(g, n)
  BY DEF Step
<1> HIDE DEF f
<1>2. Local(f)
  BY <1>1 DEF Local, PowerStep
<1>3. PICK p : p = [n \in Nat |-> Step(f, p, n)]
  BY <1>2, Recursion
<1>4. p = [n \in Nat |-> PowerStep(p, n)]
  BY <1>1, <1>3
<1>5. r = [n \in Nat |-> PowerStep(r, n)]
  BY <1>4
<1>6. \A n : Power2(n) = r[n]
  BY DEF Power2, PowerStep
<1> HIDE DEF r
<1>7. \A n \in Nat : r[n] = PowerStep(r, n)
  BY <1>5
<1> QED BY <1>6, <1>7 DEF PowerStep

(* bits.Len64 counts one digit more than half the number has. *)
LEMMA DigitsEquation ==
  /\ Len64(0) = 0
  /\ \A n \in Nat \ {0} : Len64(n) = 1 + Len64(n \div 2)
<1> DEFINE f == [name |-> "digits"]
           r == CHOOSE g : g = [n \in Nat |-> DigitsStep(g, n)]
<1>1. \A g : \A n \in Nat : Step(f, g, n) = DigitsStep(g, n)
  BY DEF Step
<1> HIDE DEF f
<1>2. Local(f)
  <2>1. \A n \in Nat \ {0} : n \div 2 \in 0 .. n - 1
    OBVIOUS
  <2> QED BY <1>1, <2>1 DEF Local, DigitsStep
<1>3. PICK p : p = [n \in Nat |-> Step(f, p, n)]
  BY <1>2, Recursion
<1>4. p = [n \in Nat |-> DigitsStep(p, n)]
  BY <1>1, <1>3
<1>5. r = [n \in Nat |-> DigitsStep(r, n)]
  BY <1>4
<1>6. \A n : Len64(n) = r[n]
  BY DEF Len64, DigitsStep
<1> HIDE DEF r
<1>7. \A n \in Nat : r[n] = DigitsStep(r, n)
  BY <1>5
<1> QED BY <1>6, <1>7 DEF DigitsStep

(* Powers of two are positive and grow. *)
LEMMA PowersPositive == \A k \in Nat : Power2(k) \in Nat \ {0}
<1> DEFINE S == {k \in Nat : Power2(k) \in Nat \ {0}}
<1>1. ASSUME NEW n \in Nat, \A m \in Nat : m < n => m \in S PROVE n \in S
  <2>1. CASE n = 0
    BY <2>1, PowerEquation
  <2>2. CASE n # 0
    <3>1. n - 1 \in Nat /\ n - 1 \in S /\ n = (n - 1) + 1
      BY <1>1, <2>2
    <3>2. Power2(n) = 2 * Power2(n - 1)
      BY <3>1, PowerEquation
    <3> QED BY <3>1, <3>2
  <2> QED BY <2>1, <2>2
<1> HIDE DEF S
<1>2. \A n \in Nat : n \in S
  BY <1>1, SetInduction
<1> QED BY <1>2 DEF S

(* And strictly so. *)
LEMMA PowersGrow == ASSUME NEW a \in Nat, NEW b \in Nat, a < b PROVE Power2(a) < Power2(b)
<1> DEFINE S == {k \in Nat : a < k => Power2(a) < Power2(k)}
<1>1. ASSUME NEW n \in Nat, \A m \in Nat : m < n => m \in S PROVE n \in S
  <2> SUFFICES ASSUME a < n PROVE Power2(a) < Power2(n)
    OBVIOUS
  <2>1. n - 1 \in Nat /\ n - 1 \in S /\ n = (n - 1) + 1
    BY <1>1
  <2>2. Power2(n) = 2 * Power2(n - 1)
    BY <2>1, PowerEquation
  <2>3. Power2(n - 1) \in Nat \ {0} /\ Power2(a) \in Nat
    BY <2>1, PowersPositive
  <2>4. a = n - 1 \/ Power2(a) < Power2(n - 1)
    BY <2>1
  <2> QED BY <2>2, <2>3, <2>4
<1> HIDE DEF S
<1>2. \A n \in Nat : n \in S
  BY <1>1, SetInduction
<1> QED BY <1>2 DEF S

(* The digits of n are the powers of two around it. *)
LEMMA DigitsBound ==
  \A n \in Nat \ {0} : Len64(n) \in Nat \ {0} /\ Power2(Len64(n) - 1) <= n /\ n < Power2(Len64(n))
<1> DEFINE Around(n) == Len64(n) \in Nat \ {0} /\ Power2(Len64(n) - 1) <= n /\ n < Power2(Len64(n))
           S == {n \in Nat : n # 0 => Around(n)}
<1>1. ASSUME NEW n \in Nat, \A m \in Nat : m < n => m \in S PROVE n \in S
  <2> SUFFICES ASSUME n # 0 PROVE Around(n)
    OBVIOUS
  <2> DEFINE h == n \div 2
  <2>1. h \in Nat /\ h < n /\ (n = 2 * h \/ n = 2 * h + 1)
    OBVIOUS
  <2>2. Len64(n) = 1 + Len64(h)
    BY DigitsEquation
  <2> HIDE DEF h
  <2>3. CASE h = 0
    <3>1. Len64(n) = 1 /\ n = 1
      BY <2>1, <2>2, <2>3, DigitsEquation
    <3>2. Power2(0) = 1 /\ Power2(0 + 1) = 2 * Power2(0)
      BY PowerEquation
    <3> QED BY <3>1, <3>2
  <2>4. CASE h # 0
    <3>1. Around(h)
      BY <1>1, <2>1, <2>4
    <3> DEFINE d == Len64(h)
    <3>2. d \in Nat \ {0} /\ Power2(d - 1) <= h /\ h < Power2(d)
      BY <3>1
    <3> HIDE DEF d
    <3>3. d - 1 \in Nat /\ d = (d - 1) + 1
      BY <3>2
    <3>4. Power2(d) = 2 * Power2(d - 1) /\ Power2(d + 1) = 2 * Power2(d)
      BY <3>2, <3>3, PowerEquation
    <3>5. Power2(d - 1) \in Nat /\ Power2(d) \in Nat
      BY <3>2, <3>3, PowersPositive
    <3>6. Len64(n) = d + 1
      BY <2>2, <3>2 DEF d
    <3>7. Power2(d) <= n /\ n < Power2(d + 1)
      BY <2>1, <3>2, <3>4, <3>5
    <3> QED BY <3>2, <3>6, <3>7
  <2> QED BY <2>3, <2>4
<1> HIDE DEF S
<1>2. \A n \in Nat : n \in S
  BY <1>1, SetInduction
<1> QED BY <1>2 DEF S

(* split returns a power of two below the size and at least half of it. *)
LEMMA SplitBounds ==
  ASSUME NEW n \in Nat, n > 1
  PROVE  /\ Split(n) \in 1 .. n - 1
         /\ n - Split(n) \in 1 .. n - 1
         /\ n <= 2 * Split(n)
         /\ Len64(n - 1) - 1 \in Nat
         /\ Split(n) = Power2(Len64(n - 1) - 1)
<1> DEFINE d == Len64(n - 1)
<1>1. d \in Nat \ {0} /\ Power2(d - 1) <= n - 1 /\ n - 1 < Power2(d)
  BY DigitsBound
<1>2. Split(n) = Power2(d - 1)
  BY DEF Split
<1> HIDE DEF d
<1>3. d - 1 \in Nat /\ d = (d - 1) + 1
  BY <1>1
<1>4. Power2(d) = 2 * Power2(d - 1)
  BY <1>3, PowerEquation
<1>5. Power2(d - 1) \in Nat \ {0}
  BY <1>3, PowersPositive
<1>6. Split(n) \in 1 .. n - 1 /\ n - Split(n) \in 1 .. n - 1 /\ n <= 2 * Split(n)
  BY <1>1, <1>2, <1>4, <1>5
<1> QED BY <1>2, <1>3, <1>6 DEF d

--------------------------------------------------------------------------------
(* The equations of the recursive functions *)

(* The root of a tree is made of those of its two parts. *)
LEMMA RootsEquation ==
  ASSUME NEW entries
  PROVE  \A n \in Nat : Roots(entries)[n] = RootStep(entries, Roots(entries), n)
<1> DEFINE f == [name |-> "root", entries |-> entries]
           r == CHOOSE g : g = [n \in Nat |-> RootStep(entries, g, n)]
<1>1. \A g : \A n \in Nat : Step(f, g, n) = RootStep(entries, g, n)
  BY DEF Step
<1> HIDE DEF f
<1>2. Local(f)
  <2> SUFFICES ASSUME NEW n \in Nat, NEW g, NEW h, \A m \in 0 .. n - 1 : g[m] = h[m]
               PROVE  RootStep(entries, g, n) = RootStep(entries, h, n)
    BY <1>1 DEF Local
  <2>1. CASE n = 0 \/ n = 1
    BY <2>1 DEF RootStep
  <2>2. CASE n > 1
    <3>1. g[Split(n)] = h[Split(n)] /\ g[n - Split(n)] = h[n - Split(n)]
      BY <2>2, SplitBounds
    <3> QED BY <3>1 DEF RootStep
  <2> QED BY <2>1, <2>2
<1>3. PICK p : p = [n \in Nat |-> Step(f, p, n)]
  BY <1>2, Recursion
<1>4. p = [n \in Nat |-> RootStep(entries, p, n)]
  BY <1>1, <1>3
<1>5. r = [n \in Nat |-> RootStep(entries, r, n)]
  BY <1>4
<1>6. Roots(entries) = r
  BY DEF Roots, RootStep
<1> HIDE DEF r
<1>7. \A n \in Nat : r[n] = RootStep(entries, r, n)
  BY <1>5
<1> QED BY <1>6, <1>7

(* A path is that of the part with the leaf, and then the other part's root. *)
LEMMA PathsEquation ==
  ASSUME NEW entries, NEW index
  PROVE  \A n \in Nat : Paths(entries, index)[n] = PathStep(entries, index, Paths(entries, index), n)
<1> DEFINE f == [name |-> "path", entries |-> entries, index |-> index]
           r == CHOOSE g : g = [n \in Nat |-> PathStep(entries, index, g, n)]
<1>1. \A g : \A n \in Nat : Step(f, g, n) = PathStep(entries, index, g, n)
  BY DEF Step
<1> HIDE DEF f
<1>2. Local(f)
  <2> SUFFICES ASSUME NEW n \in Nat, NEW g, NEW h, \A m \in 0 .. n - 1 : g[m] = h[m]
               PROVE  PathStep(entries, index, g, n) = PathStep(entries, index, h, n)
    BY <1>1 DEF Local
  <2>1. CASE n = 0 \/ n = 1
    BY <2>1 DEF PathStep
  <2>2. CASE n > 1
    <3>1. g[Split(n)] = h[Split(n)] /\ g[n - Split(n)] = h[n - Split(n)]
      BY <2>2, SplitBounds
    <3> QED BY <3>1 DEF PathStep
  <2> QED BY <2>1, <2>2
<1>3. PICK p : p = [n \in Nat |-> Step(f, p, n)]
  BY <1>2, Recursion
<1>4. p = [n \in Nat |-> PathStep(entries, index, p, n)]
  BY <1>1, <1>3
<1>5. r = [n \in Nat |-> PathStep(entries, index, r, n)]
  BY <1>4
<1>6. Paths(entries, index) = r
  BY DEF Paths, PathStep
<1> HIDE DEF r
<1>7. \A n \in Nat : r[n] = PathStep(entries, index, r, n)
  BY <1>5
<1> QED BY <1>6, <1>7

(* pathLength goes down the same way. *)
LEMMA DepthsEquation ==
  \A n \in Nat : Depths[n] = DepthStep(Depths, n)
<1> DEFINE f == [name |-> "depth"]
           r == CHOOSE g : g = [n \in Nat |-> DepthStep(g, n)]
<1>1. \A g : \A n \in Nat : Step(f, g, n) = DepthStep(g, n)
  BY DEF Step
<1> HIDE DEF f
<1>2. Local(f)
  <2> SUFFICES ASSUME NEW n \in Nat, NEW g, NEW h, \A m \in 0 .. n - 1 : g[m] = h[m]
               PROVE  DepthStep(g, n) = DepthStep(h, n)
    BY <1>1 DEF Local
  <2>1. CASE n = 0 \/ n = 1
    BY <2>1 DEF DepthStep
  <2>2. CASE n > 1
    <3>1. g[Split(n)] = h[Split(n)] /\ g[n - Split(n)] = h[n - Split(n)]
      BY <2>2, SplitBounds
    <3> QED BY <3>1 DEF DepthStep
  <2> QED BY <2>1, <2>2
<1>3. PICK p : p = [n \in Nat |-> Step(f, p, n)]
  BY <1>2, Recursion
<1>4. p = [n \in Nat |-> DepthStep(p, n)]
  BY <1>1, <1>3
<1>5. r = [n \in Nat |-> DepthStep(r, n)]
  BY <1>4
<1>6. Depths = r
  BY DEF Depths, DepthStep
<1> HIDE DEF r
<1>7. \A n \in Nat : r[n] = DepthStep(r, n)
  BY <1>5
<1> QED BY <1>6, <1>7

(* Rebuilding takes one node of the path on the way up. *)
LEMMA RebuildsEquation ==
  ASSUME NEW entry, NEW path
  PROVE  \A n \in Nat : Rebuilds(entry, path)[n] = RebuildStep(entry, path, Rebuilds(entry, path), n)
<1> DEFINE f == [name |-> "rebuild", entry |-> entry, path |-> path]
           r == CHOOSE g : g = [n \in Nat |-> RebuildStep(entry, path, g, n)]
<1>1. \A g : \A n \in Nat : Step(f, g, n) = RebuildStep(entry, path, g, n)
  BY DEF Step
<1> HIDE DEF f
<1>2. Local(f)
  <2> SUFFICES ASSUME NEW n \in Nat, NEW g, NEW h, \A m \in 0 .. n - 1 : g[m] = h[m]
               PROVE  RebuildStep(entry, path, g, n) = RebuildStep(entry, path, h, n)
    BY <1>1 DEF Local
  <2>1. CASE n = 0 \/ n = 1
    BY <2>1 DEF RebuildStep
  <2>2. CASE n > 1
    <3>1. g[Split(n)] = h[Split(n)] /\ g[n - Split(n)] = h[n - Split(n)]
      BY <2>2, SplitBounds
    <3> QED BY <3>1 DEF RebuildStep
  <2> QED BY <2>1, <2>2
<1>3. PICK p : p = [n \in Nat |-> Step(f, p, n)]
  BY <1>2, Recursion
<1>4. p = [n \in Nat |-> RebuildStep(entry, path, p, n)]
  BY <1>1, <1>3
<1>5. r = [n \in Nat |-> RebuildStep(entry, path, r, n)]
  BY <1>4
<1>6. Rebuilds(entry, path) = r
  BY DEF Rebuilds, RebuildStep
<1> HIDE DEF r
<1>7. \A n \in Nat : r[n] = RebuildStep(entry, path, r, n)
  BY <1>5
<1> QED BY <1>6, <1>7

--------------------------------------------------------------------------------
(* Depths and paths *)

(* A leaf of a tree is a leaf of one of its parts. *)
LEMMA PartOf ==
  ASSUME NEW n \in Nat, n > 1, NEW i \in 0 .. n - 1
  PROVE  /\ i < Split(n) => i \in 0 .. Split(n) - 1
         /\ ~(i < Split(n)) => i - Split(n) \in 0 .. n - Split(n) - 1
  BY SplitBounds

(* pathLength is positive where there is a sibling, and no greater than b in a
   tree of at most 1 << b leaves. *)
LEMMA DepthBound ==
  ASSUME NEW b \in Nat, NEW n \in 1 .. Power2(b), NEW i \in 0 .. n - 1
  PROVE  Depths[n][i] \in 0 .. b /\ (n > 1 => Depths[n][i] > 0)
<1> DEFINE Bounded(m, c) == \A j \in 0 .. m - 1 : Depths[m][j] \in 0 .. c /\ (m > 1 => Depths[m][j] > 0)
           S == {c \in Nat : \A m \in 1 .. Power2(c) : Bounded(m, c)}
<1>1. ASSUME NEW c \in Nat, \A d \in Nat : d < c => d \in S PROVE c \in S
  <2> SUFFICES ASSUME NEW m \in 1 .. Power2(c), NEW j \in 0 .. m - 1
               PROVE  Depths[m][j] \in 0 .. c /\ (m > 1 => Depths[m][j] > 0)
    OBVIOUS
  <2>0. Power2(c) \in Nat /\ m \in Nat /\ j \in Nat
    BY PowersPositive
  <2>1. Depths[m][j] = DepthStep(Depths, m)[j]
    BY <2>0, DepthsEquation
  <2>2. CASE m = 1
    BY <2>0, <2>1, <2>2 DEF DepthStep
  <2>3. CASE m > 1
    <3> DEFINE e == Len64(m - 1) - 1
               s == Split(m)
    <3>1. /\ s \in 1 .. m - 1 /\ m - s \in 1 .. m - 1 /\ m <= 2 * s
          /\ e \in Nat /\ s = Power2(e)
      BY <2>0, <2>3, SplitBounds
    <3>2. (j < s => j \in 0 .. s - 1) /\ (~(j < s) => j - s \in 0 .. m - s - 1)
      BY <2>0, <2>3, PartOf
    <3>3. Depths[m][j] = 1 + (IF j < s THEN Depths[s][j] ELSE Depths[m - s][j - s])
      BY <2>0, <2>1, <2>3 DEF DepthStep
    <3> HIDE DEF e, s
    <3>4. e < c
      <4>1. ~(c < e) /\ c # e
        BY <2>0, <3>1, PowersGrow
      <4> QED BY <3>1, <4>1
    <3>5. e \in S
      BY <1>1, <3>1, <3>4
    <3>6. s \in 1 .. Power2(e) /\ m - s \in 1 .. Power2(e)
      BY <3>1
    <3>7. j < s => Depths[s][j] \in 0 .. e
      BY <3>2, <3>5, <3>6
    <3>8. ~(j < s) => Depths[m - s][j - s] \in 0 .. e
      BY <3>2, <3>5, <3>6
    <3> QED BY <3>1, <3>3, <3>4, <3>7, <3>8
  <2> QED BY <2>0, <2>2, <2>3
<1> HIDE DEF S
<1>2. b \in S
  BY <1>1, SetInduction
<1> QED BY <1>2 DEF S

(* Every number is below some power of two. *)
LEMMA PowerAbove == ASSUME NEW n \in Nat \ {0} PROVE \E b \in Nat : n \in 1 .. Power2(b)
  BY DigitsBound, PowersPositive

(* pathLength is a number. *)
LEMMA DepthIsNat == ASSUME NEW n \in Nat, NEW i \in 0 .. n - 1 PROVE Depths[n][i] \in Nat
<1>1. PICK b \in Nat : n \in 1 .. Power2(b)
  BY PowerAbove
<1> QED BY <1>1, DepthBound

\* The hashes of a tree.
Hashes(entries) == {Roots(entries)[n][lo] : n \in Nat, lo \in Nat}

\* A path is of hashes of the tree, as many as pathLength says.
ShapedPath(entries, index, n, lo) ==
  /\ Paths(entries, index)[n][lo] \in Seq(Hashes(entries))
  /\ Len(Paths(entries, index)[n][lo]) = Depths[n][index - lo]

(* Path returns a path of this shape in every subtree with the leaf. *)
LEMMA PathShape ==
  ASSUME NEW entries, NEW index \in Nat, NEW n \in Nat, NEW lo \in Nat, lo <= index, index < lo + n
  PROVE  ShapedPath(entries, index, n, lo)
<1> DEFINE P == Paths(entries, index)
           H == Hashes(entries)
           Shaped(m, l) == P[m][l] \in Seq(H) /\ Len(P[m][l]) = Depths[m][index - l]
           S == {m \in Nat : \A l \in Nat : l <= index /\ index < l + m => Shaped(m, l)}
<1>1. ASSUME NEW m \in Nat, \A k \in Nat : k < m => k \in S PROVE m \in S
  <2> SUFFICES ASSUME NEW l \in Nat, l <= index, index < l + m PROVE Shaped(m, l)
    OBVIOUS
  <2>1. P[m][l] = PathStep(entries, index, P, m)[l]
    BY PathsEquation
  <2>2. index - l \in 0 .. m - 1 /\ Depths[m][index - l] = DepthStep(Depths, m)[index - l]
    BY DepthsEquation
  <2>3. CASE m = 1
    <3>1. P[m][l] = <<>>
      BY <2>1, <2>3 DEF PathStep
    <3>2. Depths[m][index - l] = 0
      BY <2>2, <2>3 DEF DepthStep
    <3> QED BY <3>1, <3>2
  <2>4. CASE m > 1
    <3> DEFINE s == Split(m)
    <3>1. s \in 1 .. m - 1 /\ m - s \in 1 .. m - 1
      BY <2>4, SplitBounds
    <3>2. P[m][l] = IF index < l + s THEN Append(P[s][l], Roots(entries)[m - s][l + s])
                                     ELSE Append(P[m - s][l + s], Roots(entries)[s][l])
      BY <2>1, <2>4 DEF PathStep
    <3>3. Depths[m][index - l] =
            1 + (IF index < l + s THEN Depths[s][index - l] ELSE Depths[m - s][index - (l + s)])
      <4>1. Depths[m][index - l] =
              1 + (IF index - l < s THEN Depths[s][index - l] ELSE Depths[m - s][(index - l) - s])
        BY <2>2, <2>4 DEF DepthStep
      <4>2. (index - l) - s = index - (l + s) /\ (index - l < s <=> index < l + s)
        BY <3>1
      <4> QED BY <4>1, <4>2
    <3>4. Roots(entries)[m - s][l + s] \in H /\ Roots(entries)[s][l] \in H
      BY <3>1 DEF Hashes
    <3> HIDE DEF s, P, H
    <3>5. CASE index < l + s
      <4>1. Shaped(s, l)
        <5>1. s \in Nat /\ s < m /\ index < l + s
          BY <3>1, <3>5
        <5>2. s \in S
          BY <1>1, <5>1
        <5> QED BY <5>1, <5>2
      <4>2. Len(P[m][l]) = Len(P[s][l]) + 1 /\ P[m][l] \in Seq(H)
        BY <3>2, <3>4, <3>5, <4>1
      <4> QED BY <3>3, <3>5, <4>1, <4>2
    <3>6. CASE ~(index < l + s)
      <4>1. Shaped(m - s, l + s)
        <5>1. m - s \in Nat /\ m - s < m /\ l + s \in Nat /\ l + s <= index
              /\ index < (l + s) + (m - s)
          BY <3>1, <3>6
        <5>2. m - s \in S
          BY <1>1, <5>1
        <5> QED BY <5>1, <5>2
      <4>2. Len(P[m][l]) = Len(P[m - s][l + s]) + 1 /\ P[m][l] \in Seq(H)
        BY <3>2, <3>4, <3>6, <4>1
      <4> QED BY <3>3, <3>6, <4>1, <4>2
    <3> QED BY <3>5, <3>6
  <2> QED BY <2>3, <2>4
<1> HIDE DEF S
<1>2. n \in S
  BY <1>1, SetInduction
<1>3. Shaped(n, lo)
  BY <1>2 DEF S
<1> QED BY <1>3 DEF ShapedPath

--------------------------------------------------------------------------------
(* Verification *)

(* Hashing is injective. *)
LEMMA HashesInjective ==
  /\ \A x, y : Leaf(x) = Leaf(y) => x = y
  /\ \A a, b, c, d : Node(a, b) = Node(c, d) <=> a = c /\ b = d
<1>1. ASSUME NEW x, NEW y, Leaf(x) = Leaf(y) PROVE x = y
  <2>1. Leaf(x).leaf = x /\ Leaf(y).leaf = y
    BY DEF Leaf
  <2> QED BY <1>1, <2>1
<1>2. ASSUME NEW a, NEW b, NEW c, NEW d, Node(a, b) = Node(c, d) PROVE a = c /\ b = d
  <2>1. Node(a, b).left = a /\ Node(a, b).right = b /\ Node(c, d).left = c /\ Node(c, d).right = d
    BY DEF Node
  <2> QED BY <1>2, <2>1
<1> QED BY <1>1, <1>2

(* A step of rebuilding takes the next node, if there is one. *)
LEMMA AbsorbTakes ==
  ASSUME NEW T, NEW path \in Seq(T), NEW side, NEW child, NEW depth \in Nat,
         depth > Len(path) => child = Truncated,
         depth <= Len(path) => child.used = depth
  PROVE  /\ depth + 1 > Len(path) => Absorb(child, path, side) = Truncated
         /\ depth + 1 <= Len(path) => Absorb(child, path, side) =
              [hash |-> IF side = "left" THEN Node(child.hash, path[depth + 1])
                                         ELSE Node(path[depth + 1], child.hash),
               used |-> depth + 1]
<1>1. Len(path) \in Nat /\ Truncated.used = -1
  BY DEF Truncated
<1>2. CASE depth > Len(path)
  BY <1>1, <1>2 DEF Absorb
<1>3. CASE depth <= Len(path)
  <2>1. child.used = depth /\ child # Truncated
    BY <1>1, <1>3
  <2>2. depth >= Len(path) <=> depth + 1 > Len(path)
    BY <1>1
  <2> QED BY <1>3, <2>1, <2>2 DEF Absorb
<1> QED BY <1>1, <1>2, <1>3

\* A path begins with the nodes of q.
Agrees(path, q) == \A j \in 1 .. Len(q) : path[j] = q[j]

(* A path agrees with a longer one if it does up to the last node, and there. *)
LEMMA AgreesAppend ==
  ASSUME NEW H, NEW q \in Seq(H), NEW x \in H, NEW path
  PROVE  /\ Agrees(path, Append(q, x)) <=> Agrees(path, q) /\ path[Len(q) + 1] = x
         /\ Len(Append(q, x)) = Len(q) + 1
<1>1. Append(q, x)[Len(q) + 1] = x /\ \A j \in 1 .. Len(q) : Append(q, x)[j] = q[j]
  OBVIOUS
<1>2. Len(q) \in Nat /\ Len(Append(q, x)) = Len(q) + 1
  OBVIOUS
<1>3. 1 .. Len(q) + 1 = (1 .. Len(q)) \cup {Len(q) + 1}
  BY <1>2
<1>4. (\A j \in 1 .. Len(q) + 1 : path[j] = Append(q, x)[j])
        <=> (\A j \in 1 .. Len(q) : path[j] = q[j]) /\ path[Len(q) + 1] = x
  BY <1>1, <1>3, Zenon
<1> QED BY <1>2, <1>4 DEF Agrees

\* Rebuilding from the leaf at index runs out of nodes, or takes as many as the
\* subtree is deep; then it comes to the root of the subtree if and only if the
\* entry is the one at index and the nodes are those of its path.
RebuiltExactly(entries, entry, path, index, n, lo) ==
  LET depth == Depths[n][index - lo]
      built == Rebuilds(entry, path)[n][index - lo]
  IN /\ depth > Len(path) => built = Truncated
     /\ depth <= Len(path) =>
          /\ built.used = depth
          /\ built.hash = Roots(entries)[n][lo] <=>
               /\ entry = entries[index + 1]
               /\ \A j \in 1 .. depth : path[j] = Paths(entries, index)[n][lo][j]

(* Rebuilding is exact in every subtree with the leaf. *)
LEMMA RebuildExact ==
  ASSUME NEW entries, NEW entry, NEW T, NEW path \in Seq(T),
         NEW index \in Nat, NEW n \in Nat, NEW lo \in Nat, lo <= index, index < lo + n
  PROVE  RebuiltExactly(entries, entry, path, index, n, lo)
<1> DEFINE P == Paths(entries, index)
           R == Roots(entries)
           B == Rebuilds(entry, path)
           Same(m, l) == entry = entries[index + 1]
                         /\ \A j \in 1 .. Depths[m][index - l] : path[j] = P[m][l][j]
           Exact(m, l) ==
             /\ Depths[m][index - l] > Len(path) => B[m][index - l] = Truncated
             /\ Depths[m][index - l] <= Len(path) =>
                  /\ B[m][index - l].used = Depths[m][index - l]
                  /\ B[m][index - l].hash = R[m][l] <=> Same(m, l)
           S == {m \in Nat : \A l \in Nat : l <= index /\ index < l + m => Exact(m, l)}
<1>1. ASSUME NEW m \in Nat, \A k \in Nat : k < m => k \in S PROVE m \in S
  <2> SUFFICES ASSUME NEW l \in Nat, l <= index, index < l + m PROVE Exact(m, l)
    OBVIOUS
  <2>1. index - l \in 0 .. m - 1
    OBVIOUS
  <2>2. \A k, h \in Nat : k < m /\ h <= index /\ index < h + k => Exact(k, h)
    <3> HIDE DEF Exact
    <3> QED BY <1>1
  <2>3. \A k, h \in Nat : h <= index /\ index < h + k => ShapedPath(entries, index, k, h)
    BY PathShape
  <2> HIDE DEF S
  <2>4. /\ P[m][l] = PathStep(entries, index, P, m)[l]
        /\ R[m][l] = RootStep(entries, R, m)[l]
        /\ Depths[m][index - l] = DepthStep(Depths, m)[index - l]
        /\ B[m][index - l] = RebuildStep(entry, path, B, m)[index - l]
    BY PathsEquation, RootsEquation, DepthsEquation, RebuildsEquation
  <2>5. CASE m = 1
    <3>1. Depths[m][index - l] = 0 /\ l = index
      BY <2>1, <2>4, <2>5 DEF DepthStep
    <3>2. B[m][index - l] = [hash |-> Leaf(entry), used |-> 0]
      BY <2>1, <2>4, <2>5 DEF RebuildStep
    <3>3. R[m][l] = Leaf(entries[index + 1])
      BY <2>4, <2>5, <3>1 DEF RootStep
    <3>4. B[m][index - l].used = 0 /\ B[m][index - l].hash = Leaf(entry)
      BY <3>2
    <3>5. Same(m, l) <=> entry = entries[index + 1]
      BY <3>1
    <3>6. Len(path) \in Nat
      OBVIOUS
    <3> HIDE DEF Same, R, B
    <3>7. Leaf(entry) = Leaf(entries[index + 1]) <=> entry = entries[index + 1]
      BY HashesInjective
    <3> QED BY <3>1, <3>3, <3>4, <3>5, <3>6, <3>7
  <2>6. CASE m > 1
    <3> DEFINE s == Split(m)
    <3>1. s \in 1 .. m - 1 /\ m - s \in 1 .. m - 1
      BY <2>6, SplitBounds
    <3>2. R[m][l] = Node(R[s][l], R[m - s][l + s])
      BY <2>4, <2>6 DEF RootStep
    <3>3. CASE index < l + s
      <4> DEFINE i == index - l
      <4>1. i < s /\ s < m /\ i \in Nat
        BY <2>1, <3>1, <3>3
      <4>2. /\ Depths[m][i] = Depths[s][i] + 1
            /\ B[m][i] = Absorb(B[s][i], path, "left")
            /\ P[m][l] = Append(P[s][l], R[m - s][l + s])
        <5>1. Depths[m][i] = 1 + Depths[s][i]
          BY <2>4, <2>6, <4>1 DEF DepthStep
        <5>2. B[m][i] = Absorb(B[s][i], path, "left")
          BY <2>4, <2>6, <4>1 DEF RebuildStep
        <5>3. P[m][l] = Append(P[s][l], R[m - s][l + s])
          BY <2>4, <2>6, <3>3 DEF PathStep
        <5>4. Depths[s][i] \in Nat
          BY <3>1, <4>1, DepthIsNat
        <5> QED BY <5>1, <5>2, <5>3, <5>4
      <4>3. Exact(s, l)
        <5>1. s \in Nat
          BY <3>1
        <5> HIDE DEF Exact, s, i
        <5> QED BY <2>2, <3>3, <4>1, <5>1
      <4>4. P[s][l] \in Seq(Hashes(entries)) /\ Len(P[s][l]) = Depths[s][i]
        <5>1. s \in Nat /\ index < l + s
          BY <3>1, <3>3
        <5>2. ShapedPath(entries, index, s, l)
          BY <2>3, <5>1
        <5> QED BY <5>2 DEF ShapedPath
      <4>5. R[m - s][l + s] \in Hashes(entries)
        BY <3>1 DEF Hashes
      <4> DEFINE c == Depths[s][i]
                 x == R[m - s][l + s]
      <4>6. Same(m, l) <=> Same(s, l) /\ path[c + 1] = x
        <5>1. (\A j \in 1 .. c + 1 : path[j] = P[m][l][j])
                <=> (\A j \in 1 .. c : path[j] = P[s][l][j]) /\ path[c + 1] = x
          <6>1. PICK q, y : q = P[s][l] /\ y = x
            OBVIOUS
          <6>2. Len(q) = c /\ P[m][l] = Append(q, y)
            BY <4>2, <4>4, <6>1
          <6>3. PICK H : H = Hashes(entries)
            OBVIOUS
          <6>4. q \in Seq(H) /\ y \in H
            BY <4>4, <4>5, <6>1, <6>3
          <6> HIDE DEF P, c, x
          <6>5. /\ Agrees(path, Append(q, y)) <=> Agrees(path, q) /\ path[Len(q) + 1] = y
                /\ Len(Append(q, y)) = Len(q) + 1
            BY <6>4, AgreesAppend
          <6> QED BY <6>1, <6>2, <6>5 DEF Agrees
        <5> QED BY <4>2, <5>1
      <4>7. c \in Nat
        BY <4>4
      <4>8. /\ c + 1 > Len(path) => B[m][i] = Truncated
            /\ c + 1 <= Len(path) => B[m][i] = [hash |-> Node(B[s][i].hash, path[c + 1]), used |-> c + 1]
        <5>1. (c > Len(path) => B[s][i] = Truncated) /\ (c <= Len(path) => B[s][i].used = c)
          BY <4>3
        <5> HIDE DEF c, B
        <5> QED BY <4>2, <4>7, <5>1, AbsorbTakes
      <4>9. c + 1 <= Len(path) =>
              /\ B[m][i].used = c + 1
              /\ B[m][i].hash = R[m][l] <=> B[s][i].hash = R[s][l] /\ path[c + 1] = x
        <5> HIDE DEF c, B, R
        <5> QED BY <3>2, <4>8, HashesInjective
      <4>10. c + 1 <= Len(path) => (B[s][i].hash = R[s][l] <=> Same(s, l))
        BY <4>3, <4>7
      <4>11. Depths[m][i] = c + 1
        BY <4>2
      <4> HIDE DEF c, B, R, x, Same, i
      <4>12. /\ Depths[m][i] > Len(path) => B[m][i] = Truncated
             /\ Depths[m][i] <= Len(path) =>
                  B[m][i].used = Depths[m][i] /\ (B[m][i].hash = R[m][l] <=> Same(m, l))
        BY <4>6, <4>8, <4>9, <4>10, <4>11
      <4> QED BY <4>12 DEF i
    <3>4. CASE ~(index < l + s)
      <4> DEFINE i == index - l
                 k == m - s
                 h == l + s
      <4>0. k \in Nat /\ k > 0 /\ k < m /\ h \in Nat /\ h <= index /\ index < h + k /\ i - s = index - h
        BY <2>1, <3>1, <3>4
      <4>1. ~(i < s) /\ i \in Nat
        BY <2>1, <3>1, <3>4
      <4>2. /\ Depths[m][i] = Depths[k][index - h] + 1
            /\ B[m][i] = Absorb(B[k][index - h], path, "right")
            /\ P[m][l] = Append(P[k][h], R[s][l])
        <5>1. Depths[m][i] = 1 + Depths[k][i - s]
          BY <2>4, <2>6, <4>1 DEF DepthStep
        <5>2. B[m][i] = Absorb(B[k][i - s], path, "right")
          BY <2>4, <2>6, <4>1 DEF RebuildStep
        <5>3. P[m][l] = Append(P[k][h], R[s][l])
          BY <2>4, <2>6, <3>4 DEF PathStep
        <5>4. Depths[k][index - h] \in Nat
          BY <4>0, DepthIsNat
        <5> HIDE DEF B, k, h, i
        <5> QED BY <4>0, <5>1, <5>2, <5>3, <5>4
      <4> HIDE DEF k, h
      <4>3. Exact(k, h)
        <5> HIDE DEF Exact
        <5> QED BY <2>2, <4>0
      <4>4. P[k][h] \in Seq(Hashes(entries)) /\ Len(P[k][h]) = Depths[k][index - h]
        <5>1. ShapedPath(entries, index, k, h)
          BY <2>3, <4>0
        <5> QED BY <5>1 DEF ShapedPath
      <4>5. R[s][l] \in Hashes(entries)
        BY <3>1 DEF Hashes
      <4> DEFINE c == Depths[k][index - h]
                 x == R[s][l]
      <4>6. Same(m, l) <=> Same(k, h) /\ path[c + 1] = x
        <5>1. (\A j \in 1 .. c + 1 : path[j] = P[m][l][j])
                <=> (\A j \in 1 .. c : path[j] = P[k][h][j]) /\ path[c + 1] = x
          <6>1. PICK q, y : q = P[k][h] /\ y = x
            OBVIOUS
          <6>2. Len(q) = c /\ P[m][l] = Append(q, y)
            BY <4>2, <4>4, <6>1
          <6>3. PICK H : H = Hashes(entries)
            OBVIOUS
          <6>4. q \in Seq(H) /\ y \in H
            BY <4>4, <4>5, <6>1, <6>3
          <6> HIDE DEF P, c, x
          <6>5. /\ Agrees(path, Append(q, y)) <=> Agrees(path, q) /\ path[Len(q) + 1] = y
                /\ Len(Append(q, y)) = Len(q) + 1
            BY <6>4, AgreesAppend
          <6> QED BY <6>1, <6>2, <6>5 DEF Agrees
        <5> QED BY <4>2, <5>1
      <4>7. c \in Nat
        BY <4>4
      <4>8. /\ c + 1 > Len(path) => B[m][i] = Truncated
            /\ c + 1 <= Len(path) =>
                 B[m][i] = [hash |-> Node(path[c + 1], B[k][index - h].hash), used |-> c + 1]
        <5>1. /\ c > Len(path) => B[k][index - h] = Truncated
              /\ c <= Len(path) => B[k][index - h].used = c
          BY <4>3
        <5> HIDE DEF c, B
        <5> QED BY <4>2, <4>7, <5>1, AbsorbTakes
      <4>9. c + 1 <= Len(path) =>
              /\ B[m][i].used = c + 1
              /\ B[m][i].hash = R[m][l] <=> B[k][index - h].hash = R[k][h] /\ path[c + 1] = x
        <5>1. R[m][l] = Node(R[s][l], R[k][h])
          BY <3>2 DEF k, h
        <5> HIDE DEF c, B, R
        <5> QED BY <4>8, <5>1, HashesInjective
      <4>10. c + 1 <= Len(path) => (B[k][index - h].hash = R[k][h] <=> Same(k, h))
        BY <4>3, <4>7
      <4>11. Depths[m][i] = c + 1
        BY <4>2
      <4> HIDE DEF c, B, R, x, Same, i
      <4>12. /\ Depths[m][i] > Len(path) => B[m][i] = Truncated
             /\ Depths[m][i] <= Len(path) =>
                  B[m][i].used = Depths[m][i] /\ (B[m][i].hash = R[m][l] <=> Same(m, l))
        BY <4>6, <4>8, <4>9, <4>10, <4>11
      <4> QED BY <4>12 DEF i
    <3> QED BY <3>3, <3>4
  <2> QED BY <2>5, <2>6
<1> HIDE DEF S
<1>2. n \in S
  BY <1>1, SetInduction
<1>3. Exact(n, lo)
  BY <1>2 DEF S
<1> QED BY <1>3 DEF RebuiltExactly

(* Path returns as many hashes of the tree as pathLength says. *)
LEMMA WholePath ==
  ASSUME NEW entries, Len(entries) \in Nat, NEW index \in Nat, index < Len(entries)
  PROVE  /\ Path(entries, index) \in Seq(Hashes(entries))
         /\ Len(Path(entries, index)) = PathLength(index, Len(entries))
<1>1. PICK n \in Nat : n = Len(entries)
  OBVIOUS
<1>2. \A lo \in Nat : lo <= index /\ index < lo + n => ShapedPath(entries, index, n, lo)
  BY PathShape
<1>3. 0 \in Nat /\ 0 <= index /\ index < 0 + n /\ index - 0 = index
  BY <1>1
<1>4. ShapedPath(entries, index, n, 0)
  BY <1>2, <1>3
<1> QED BY <1>1, <1>3, <1>4 DEF ShapedPath, Path, PathLength

(* Two sequences with the same elements are the same. *)
LEMMA SameSequence ==
  ASSUME NEW U, NEW V, NEW p \in Seq(U), NEW q \in Seq(V), Len(p) = Len(q),
         \A j \in 1 .. Len(p) : p[j] = q[j]
  PROVE  p = q
  OBVIOUS

(* merkle.Verify accepts an entry at a place with a path if and only if the entry
   is the one at that place and the path is the one merkle.Path computes for it. *)
THEOREM VerifyAcceptsExactly ==
  ASSUME NEW entries, Len(entries) \in 1 .. Power2(64),
         NEW entry, NEW index \in Nat, NEW T, NEW path \in Seq(T)
  PROVE  Verify(entry, index, Len(entries), path, Root(entries))
           <=> /\ index < Len(entries)
               /\ entry = entries[index + 1]
               /\ path = Path(entries, index)
<1>0. PICK n, b : n = Len(entries) /\ b = 64
  OBVIOUS
<1>1. n \in 1 .. Power2(b) /\ n \in Nat /\ n # 0 /\ b \in Nat
  <2>1. b \in Nat /\ Power2(b) \in Nat
    BY <1>0, PowersPositive
  <2> QED BY <1>0, <2>1
<1>2. CASE ~(index < n)
  BY <1>0, <1>2 DEF Verify
<1>3. CASE index < n
  <2> DEFINE d == Depths[n][index]
             built == Rebuilds(entry, path)[n][index]
             q == Path(entries, index)
  <2>1. index - 0 = index /\ 0 <= index /\ index < 0 + n
    BY <1>1, <1>3
  <2>2. d \in 0 .. 64
    <3>1. index \in 0 .. n - 1
      BY <1>1, <1>3
    <3>2. d \in 0 .. b
      BY <1>1, <3>1, DepthBound
    <3> QED BY <1>0, <3>2
  <2>3. q = Paths(entries, index)[n][0] /\ Root(entries) = Roots(entries)[n][0]
    BY <1>0 DEF Path, Root
  <2>4. q \in Seq(Hashes(entries)) /\ Len(q) = d
    <3>1. Len(entries) \in Nat /\ index < Len(entries)
      BY <1>0, <1>1, <1>3
    <3>2. q \in Seq(Hashes(entries)) /\ Len(q) = PathLength(index, Len(entries))
      BY <3>1, WholePath
    <3> QED BY <1>0, <3>2 DEF PathLength
  <2>5. /\ d > Len(path) => built = Truncated
        /\ d <= Len(path) =>
             /\ built.used = d
             /\ built.hash = Root(entries) <=>
                  entry = entries[index + 1] /\ \A j \in 1 .. d : path[j] = q[j]
    <3>1. \A lo \in Nat : lo <= index /\ index < lo + n => RebuiltExactly(entries, entry, path, index, n, lo)
      BY <1>1, RebuildExact
    <3>2. index - 0 = index /\ 0 \in Nat
      BY <2>1
    <3>3. RebuiltExactly(entries, entry, path, index, n, 0)
      BY <2>1, <3>1
    <3> QED BY <2>1, <2>3, <3>2, <3>3 DEF RebuiltExactly
  <2>6. Verify(entry, index, Len(entries), path, Root(entries))
          <=> Len(path) <= 64 /\ built.used = Len(path) /\ built.hash = Root(entries)
    BY <1>0, <1>1, <1>3 DEF Verify, UsesAll
  <2>7. Truncated.used = -1 /\ Len(path) \in Nat
    BY DEF Truncated
  <2>8. Len(path) = d /\ (\A j \in 1 .. d : path[j] = q[j]) <=> path = q
    <3>1. PICK H : H = Hashes(entries)
      OBVIOUS
    <3>2. q \in Seq(H)
      BY <2>4, <3>1
    <3> HIDE DEF q, d
    <3> QED BY <2>4, <3>2, SameSequence
  <2> HIDE DEF d, built
  <2> QED BY <1>0, <1>3, <2>2, <2>5, <2>6, <2>7, <2>8
<1> QED BY <1>2, <1>3

(* The manifest of any admitted size has a tree no deeper than Verify allows. *)
LEMMA ManifestFits ==
  /\ MaxPath \in Nat
  /\ MaxManifest \in Nat \ {0}
  /\ \A n \in 1 .. MaxManifest : n \in 1 .. Power2(MaxPath) /\ n \in 1 .. Power2(64)
<1>1. MaxPath \in Nat /\ 64 \in Nat /\ MaxManifest \in 1 .. Power2(MaxPath)
  BY PackageAssumption
<1>2. Power2(MaxPath) \in Nat /\ Power2(64) \in Nat
  BY <1>1, PowersPositive
<1>3. Power2(MaxPath) <= Power2(64)
  <2>1. CASE MaxPath = 64
    BY <1>2, <2>1
  <2>2. CASE MaxPath < 64
    <3>1. \A k \in Nat : MaxPath < k => Power2(MaxPath) < Power2(k)
      BY <1>1, PowersGrow
    <3>2. Power2(MaxPath) < Power2(64)
      BY <2>2, <3>1
    <3> QED BY <1>2, <3>2
  <2> QED BY <2>1, <2>2, PackageAssumption
<1> QED BY <1>1, <1>2, <1>3

--------------------------------------------------------------------------------
(* The tree of a batch *)

(* A commitment hides nothing that tells two members of a batch apart. *)
LEMMA CommitInjective ==
  ASSUME NEW v, NEW w, IsWitness(v), IsWitness(w), Commit(v) = Commit(w)
  PROVE  v = w
<1>1. \A x : /\ Commit(x).representation = x.representation
             /\ Commit(x).digest = x.digest
             /\ Commit(x).nonce = x.nonce
  BY DEF Commit
<1>2. v.representation = w.representation /\ v.digest = w.digest /\ v.nonce = w.nonce
  BY <1>1
<1> QED BY <1>2 DEF IsWitness

(* The commitments of a batch: one for every member, all different. *)
LEMMA EntriesOfBatch ==
  ASSUME batch \in Batches
  PROVE  /\ Len(batch) \in 1 .. MaxManifest
         /\ DOMAIN batch = 1 .. Len(batch)
         /\ Len(Entries) = Len(batch)
         /\ \A i \in 1 .. Len(batch) : Entries[i] = Commit(batch[i]) /\ IsWitness(batch[i])
         /\ \A i, j \in 1 .. Len(batch) : Entries[i] = Entries[j] => i = j
<1>1. PICK b, n : b = batch /\ n = Len(batch)
  OBVIOUS
<1>2. /\ b = [i \in 1 .. n |-> b[i]] /\ n \in 1 .. MaxManifest
      /\ \A i \in 1 .. n : IsWitness(b[i])
      /\ \A i, j \in 1 .. n : b[i] = b[j] => i = j
  BY <1>1, HandlingAssumption
<1>3. DOMAIN b = 1 .. n /\ n \in Nat
  BY <1>2, ManifestFits
<1>4. Entries = [i \in 1 .. n |-> Commit(b[i])]
  BY <1>1, <1>3 DEF Entries
<1>5. Len(Entries) = n
  BY <1>3, <1>4
<1>6. \A i \in 1 .. n : Entries[i] = Commit(b[i]) /\ IsWitness(b[i])
  BY <1>2, <1>4
<1>7. \A i, j \in 1 .. n : Entries[i] = Entries[j] => i = j
  BY <1>2, <1>6, CommitInjective
<1> QED BY <1>1, <1>2, <1>3, <1>5, <1>6, <1>7

(* merkle.Verify over the commitments of a batch. *)
LEMMA VerifyMembers ==
  ASSUME batch \in Batches, NEW entry, NEW index \in Nat, NEW T, NEW path \in Seq(T)
  PROVE  Verify(entry, index, Len(batch), path, Tree)
           <=> /\ index < Len(batch)
               /\ entry = Entries[index + 1]
               /\ path = Path(Entries, index)
<1>1. PICK e : e = Entries
  OBVIOUS
<1>2. Len(e) = Len(batch) /\ Len(e) \in 1 .. Power2(64)
  BY <1>1, EntriesOfBatch, ManifestFits
<1>3. Verify(entry, index, Len(e), path, Root(e))
           <=> /\ index < Len(e)
               /\ entry = e[index + 1]
               /\ path = Path(e, index)
  BY <1>2, VerifyAcceptsExactly
<1> QED BY <1>1, <1>2, <1>3 DEF Tree

(* The path of a member. *)
LEMMA PathOfMember ==
  ASSUME batch \in Batches, NEW index \in 0 .. Len(batch) - 1
  PROVE  /\ Path(Entries, index) \in Seq(Hashes(Entries))
         /\ Len(Path(Entries, index)) = PathLength(index, Len(batch))
<1>1. PICK e : e = Entries
  OBVIOUS
<1>2. Len(e) = Len(batch) /\ Len(e) \in Nat /\ index \in Nat /\ index < Len(e)
  BY <1>1, EntriesOfBatch, ManifestFits
<1>3. Path(e, index) \in Seq(Hashes(e)) /\ Len(Path(e, index)) = PathLength(index, Len(e))
  BY <1>2, WholePath
<1> QED BY <1>1, <1>2, <1>3

(* The paths VerifyExact tries are sequences of hashes of the tree. *)
LEMMA VariantsAreSequences ==
  ASSUME NEW H, NEW p \in Seq(H), NEW path \in Variants(p)
  PROVE  path \in Seq(H)
<1>1. CASE path = p
  BY <1>1
<1>2. ASSUME NEW i \in DOMAIN p, path = Without(p, i) PROVE path \in Seq(H)
  <2>1. i \in 1 .. Len(p) /\ Len(p) \in Nat
    OBVIOUS
  <2>2. SubSeq(p, 1, i - 1) \in Seq(H)
    BY <2>1
  <2>3. SubSeq(p, i + 1, Len(p)) \in Seq(H)
    BY <2>1
  <2> QED BY <1>2, <2>2, <2>3 DEF Without
<1>3. ASSUME NEW i \in DOMAIN p, path = Append(p, p[i]) PROVE path \in Seq(H)
  BY <1>3
<1>4. ASSUME NEW i \in 1 .. Len(p) - 1, path = Swapped(p, i) PROVE path \in Seq(H)
  <2>1. i \in 1 .. Len(p) /\ i + 1 \in 1 .. Len(p) /\ p[i] \in H /\ p[i + 1] \in H
    OBVIOUS
  <2> QED BY <1>4, <2>1 DEF Swapped
<1> QED BY <1>1, <1>2, <1>3, <1>4 DEF Variants

(* merkle.Verify is exact on every batch. *)
LEMMA VerifyExactOfBatch == batch \in Batches => VerifyExact
<1> SUFFICES ASSUME batch \in Batches,
                    NEW index \in 0 .. Len(batch) - 1,
                    NEW path \in Variants(Path(Entries, index)),
                    NEW at \in 0 .. Len(batch)
             PROVE  Verify(Entries[index + 1], at, Len(batch), path, Tree)
                      <=> at = index /\ path = Path(Entries, index)
  BY DEF VerifyExact
<1>1. Len(batch) \in Nat
  BY EntriesOfBatch, ManifestFits
<1>2. path \in Seq(Hashes(Entries))
  BY PathOfMember, VariantsAreSequences
<1>3. Verify(Entries[index + 1], at, Len(batch), path, Tree)
        <=> at < Len(batch) /\ Entries[index + 1] = Entries[at + 1] /\ path = Path(Entries, at)
  <2>1. PICK H : H = Hashes(Entries)
    OBVIOUS
  <2> QED BY <1>1, <1>2, <2>1, VerifyMembers
<1>4. at < Len(batch) /\ Entries[index + 1] = Entries[at + 1] => at = index
  <2> SUFFICES ASSUME at < Len(batch), Entries[index + 1] = Entries[at + 1] PROVE at = index
    OBVIOUS
  <2>1. index + 1 \in 1 .. Len(batch) /\ at + 1 \in 1 .. Len(batch)
    BY <1>1
  <2>2. index + 1 = at + 1
    BY <2>1, EntriesOfBatch
  <2> QED BY <1>1, <2>2
<1>5. index < Len(batch)
  BY <1>1
<1> QED BY <1>3, <1>4, <1>5

(* pathLength agrees with Path, and its bound holds at every admitted size. *)
LEMMA PathLengthOfBatch == batch \in Batches => PathLengthAgrees
<1> SUFFICES ASSUME batch \in Batches
             PROVE  /\ \A index \in 0 .. Len(batch) - 1 :
                         PathLength(index, Len(batch)) = Len(Path(Entries, index))
                    /\ \A n \in BoundarySizes : \A i \in {0, n \div 2 - 1, n \div 2, n - 2, n - 1} :
                         PathLength(i, n) \in 1 .. MaxPath
  BY DEF PathLengthAgrees
<1>1. \A index \in 0 .. Len(batch) - 1 : PathLength(index, Len(batch)) = Len(Path(Entries, index))
  BY PathOfMember
<1>2. ASSUME NEW n \in BoundarySizes, NEW i \in {0, n \div 2 - 1, n \div 2, n - 2, n - 1}
      PROVE  PathLength(i, n) \in 1 .. MaxPath
  <2>1. n \in 2 .. MaxManifest
    BY HandlingAssumption
  <2>2. n \in Nat /\ n > 1 /\ n \in 1 .. Power2(MaxPath) /\ MaxPath \in Nat
    BY <2>1, ManifestFits
  <2>3. i \in 0 .. n - 1
    BY <2>2
  <2>4. Depths[n][i] \in 0 .. MaxPath /\ Depths[n][i] > 0
    BY <2>2, <2>3, DepthBound
  <2> QED BY <2>2, <2>4 DEF PathLength
<1> QED BY <1>1, <1>2

(* No number reaches the power of two it counts. *)
LEMMA PowerExceeds == \A k \in Nat : k < Power2(k)
<1> DEFINE S == {k \in Nat : k < Power2(k)}
<1>1. ASSUME NEW n \in Nat, \A m \in Nat : m < n => m \in S PROVE n \in S
  <2>1. CASE n = 0
    BY <2>1, PowerEquation
  <2>2. CASE n # 0
    <3>1. n - 1 \in Nat /\ n - 1 \in S /\ n = (n - 1) + 1
      BY <1>1, <2>2
    <3>2. Power2(n) = 2 * Power2(n - 1) /\ Power2(n - 1) \in Nat
      BY <3>1, PowerEquation, PowersPositive
    <3> QED BY <3>1, <3>2
  <2> QED BY <2>1, <2>2
<1> HIDE DEF S
<1>2. \A n \in Nat : n \in S
  BY <1>1, SetInduction
<1> QED BY <1>2 DEF S

(* split finds the largest complete tree below the size. *)
LEMMA SplitIsLargestComplete ==
  ASSUME NEW n \in Nat, n > 1
  PROVE  LargestComplete(n) = Split(n)
<1> DEFINE d == Len64(n - 1) - 1
           s == Split(n)
           Largest(k) == Complete(k) /\ \A j \in k + 1 .. n - 1 : ~Complete(j)
<1>1. s \in 1 .. n - 1 /\ n <= 2 * s /\ d \in Nat /\ s = Power2(d)
  BY SplitBounds
<1> HIDE DEF d, s
<1>2. Complete(s)
  <2>1. d \in 0 .. s
    BY <1>1, PowerExceeds
  <2> QED BY <1>1, <2>1 DEF Complete
<1>3. ASSUME NEW j \in s + 1 .. n - 1, Complete(j) PROVE FALSE
  <2>1. PICK e \in 0 .. j : j = Power2(e)
    BY <1>3 DEF Complete
  <2>2. e \in Nat /\ j \in Nat /\ s < j /\ j < n
    BY <1>1
  <2>3. d < e
    <3>1. ~(e < d) /\ e # d
      BY <1>1, <2>1, <2>2, PowersGrow
    <3> QED BY <1>1, <2>2, <3>1
  <2>4. Power2(d + 1) = 2 * s /\ d + 1 \in Nat
    BY <1>1, PowerEquation
  <2>5. 2 * s <= j
    <3>1. CASE e = d + 1
      BY <1>1, <2>1, <2>2, <2>4, <3>1
    <3>2. CASE d + 1 < e
      <4>1. Power2(d + 1) < Power2(e)
        BY <2>2, <2>4, <3>2, PowersGrow
      <4> QED BY <1>1, <2>1, <2>2, <2>4, <4>1
    <3> QED BY <1>1, <2>2, <2>3, <3>1, <3>2
  <2> QED BY <1>1, <2>2, <2>5
<1>4. ASSUME NEW k \in 1 .. n - 1, Largest(k) PROVE k = s
  <2>1. ~(s \in k + 1 .. n - 1)
    BY <1>2, <1>4
  <2>2. ~(k \in s + 1 .. n - 1)
    BY <1>3, <1>4
  <2> QED BY <1>1, <2>1, <2>2
<1>5. \E k \in 1 .. n - 1 : Largest(k)
  BY <1>1, <1>2, <1>3
<1>6. LargestComplete(n) = CHOOSE k \in 1 .. n - 1 : Largest(k)
  BY DEF LargestComplete
<1> HIDE DEF Largest
<1>7. LargestComplete(n) \in 1 .. n - 1 /\ Largest(LargestComplete(n))
  BY <1>5, <1>6
<1>8. LargestComplete(n) = s
  BY <1>4, <1>7
<1> QED BY <1>8 DEF s

(* The tree merkle.Root builds over any entries is the tree of RFC 6962: splitting at
   the digits of the size finds the largest complete tree below it. *)
THEOREM RootIsReferenceTree ==
  ASSUME NEW entries, Len(entries) \in Nat
  PROVE  Root(entries) = Reference(entries)
<1> DEFINE R == Roots(entries)
           RefStep(g, n) ==
             [lo \in Nat |->
                IF n = 0 THEN [empty |-> TRUE]
                ELSE IF n = 1 THEN [leaf |-> entries[lo + 1]]
                ELSE [left |-> g[LargestComplete(n)][lo],
                      right |-> g[n - LargestComplete(n)][lo + LargestComplete(n)]]]
           t == CHOOSE g : g = [n \in Nat |-> RefStep(g, n)]
<1>1. ASSUME NEW g, NEW n \in Nat PROVE RefStep(g, n) = RootStep(entries, g, n)
  <2>1. CASE n = 0
    BY <2>1 DEF RootStep, EmptyRoot
  <2>2. CASE n = 1
    BY <2>2 DEF RootStep, Leaf
  <2>3. CASE n > 1
    <3>1. LargestComplete(n) = Split(n)
      BY <2>3, SplitIsLargestComplete
    <3> QED BY <2>3, <3>1 DEF RootStep, Node
  <2> QED BY <2>1, <2>2, <2>3
<1>2. Reference(entries) = t[Len(entries)][0]
  BY DEF Reference
<1> HIDE DEF RefStep
<1>3. \A n \in Nat : R[n] = RootStep(entries, R, n)
  BY RootsEquation
<1>4. \E g : g = [n \in Nat |-> RefStep(g, n)]
  <2> DEFINE g == [n \in Nat |-> R[n]]
  <2>1. \A n \in Nat : g[n] = R[n]
    OBVIOUS
  <2>2. g = [n \in Nat |-> g[n]]
    OBVIOUS
  <2> HIDE DEF g, R
  <2>3. ASSUME NEW n \in Nat PROVE g[n] = RefStep(g, n)
    <3>1. RootStep(entries, g, n) = RootStep(entries, R, n)
      <4>1. CASE n = 0 \/ n = 1
        BY <4>1 DEF RootStep
      <4>2. CASE n > 1
        <5>0. Split(n) \in 1 .. n - 1 /\ n - Split(n) \in 1 .. n - 1
          BY <4>2, SplitBounds
        <5>1. g[Split(n)] = R[Split(n)] /\ g[n - Split(n)] = R[n - Split(n)]
          BY <2>1, <5>0
        <5> QED BY <4>2, <5>1 DEF RootStep
      <4> QED BY <4>1, <4>2
    <3> QED BY <1>1, <1>3, <2>1, <3>1
  <2>4. g = [n \in Nat |-> RefStep(g, n)]
    BY <2>2, <2>3
  <2> QED BY <2>4
<1>5. t = [n \in Nat |-> RefStep(t, n)]
  BY <1>4
<1> HIDE DEF t, R
<1>6. \A n \in Nat : t[n] = RootStep(entries, t, n)
  BY <1>1, <1>5
<1> DEFINE S == {n \in Nat : t[n] = R[n]}
<1>7. ASSUME NEW n \in Nat, \A m \in Nat : m < n => m \in S PROVE n \in S
  <2>1. RootStep(entries, t, n) = RootStep(entries, R, n)
    <3>1. CASE n = 0 \/ n = 1
      BY <3>1 DEF RootStep
    <3>2. CASE n > 1
      <4>0. Split(n) \in 1 .. n - 1 /\ n - Split(n) \in 1 .. n - 1
        BY <3>2, SplitBounds
      <4>1. t[Split(n)] = R[Split(n)] /\ t[n - Split(n)] = R[n - Split(n)]
        BY <1>7, <4>0
      <4> QED BY <3>2, <4>1 DEF RootStep
    <3> QED BY <3>1, <3>2
  <2> QED BY <1>3, <1>6, <2>1
<1> HIDE DEF S
<1>8. \A n \in Nat : n \in S
  BY <1>7, SetInduction
<1>9. Root(entries) = R[Len(entries)][0]
  BY DEF Root, R
<1> QED BY <1>2, <1>8, <1>9 DEF S

(* The tree of a batch is the reference tree. *)
LEMMA RootOfBatch == batch \in Batches => RootIsReference
<1> SUFFICES ASSUME batch \in Batches PROVE Tree = Reference(Entries)
  BY DEF RootIsReference
<1>1. PICK e : e = Entries
  OBVIOUS
<1>2. Len(e) \in Nat
  BY <1>1, EntriesOfBatch, ManifestFits
<1>3. Root(e) = Reference(e)
  BY <1>2, RootIsReferenceTree
<1> QED BY <1>1, <1>3 DEF Tree

--------------------------------------------------------------------------------
(* The verdicts *)

\* The first of Parse's checks that does not hold is the i-th; the tenth is none.
FirstFailure(c, i) == (\A j \in 1 .. i - 1 : c[j].holds) /\ (i <= 9 => ~c[i].holds)

(* Parse's verdict is that of the first check that does not hold. *)
LEMMA ParseOfFirst ==
  ASSUME NEW x
  PROVE  /\ Len(Checks(x)) = 9
         /\ Parse(x) = LET i == CHOOSE i \in 1 .. 10 : FirstFailure(Checks(x), i)
                       IN IF i > 9 THEN "verified" ELSE Checks(x)[i].verdict
<1>1. Len(Checks(x)) = 9
  BY DEF Checks
<1> QED BY <1>1 DEF Parse, FirstFailure

\* All that Parse checks.
Parses(x) ==
  /\ x.framed /\ x.version = 1 /\ x.count <= MaxPath /\ x.count = Len(x.package.path)
  /\ x.anchors = 0 /\ x.profile /\ x.domains
  /\ ManifestValid(x.package.manifest) /\ x.package.index < x.package.manifest.size
  /\ x.count = PathLength(x.package.index, x.package.manifest.size)

(* Parse's verdict on every combination of its checks: what has no package's length
   has failed, what is foreign is unsupported whatever a later check would say. *)
LEMMA ParseSays ==
  ASSUME NEW x
  PROVE  /\ Parse(x) = "verified" <=> Parses(x)
         /\ ~Delimited(x) => Parse(x) = "failed"
         /\ Delimited(x) /\ Foreign(x) => Parse(x) = "unsupported"
         /\ Delimited(x) /\ ~Foreign(x) => Parse(x) \in {"verified", "failed"}
<1> DEFINE c == Checks(x)
           First(i) == FirstFailure(c, i)
           T == {i \in 1 .. 10 : i <= 9 => ~c[i].holds}
<1>1. \A k \in 1 .. 10 : k \in {1, 2, 3, 4, 5, 6, 7, 8, 9, 10}
  OBVIOUS
<1>2. /\ c[1].holds <=> x.framed
      /\ c[2].holds <=> x.version = 1
      /\ c[3].holds <=> x.count <= MaxPath /\ x.count = Len(x.package.path)
      /\ c[4].holds <=> x.anchors = 0
      /\ c[5].holds <=> x.profile
      /\ c[6].holds <=> x.domains
      /\ c[7].holds <=> ManifestValid(x.package.manifest)
      /\ c[8].holds <=> x.package.index < x.package.manifest.size
      /\ c[9].holds <=> x.count = PathLength(x.package.index, x.package.manifest.size)
  BY Zenon DEF Checks
<1>3. /\ c[1].verdict = "failed" /\ c[2].verdict = "unsupported" /\ c[3].verdict = "failed"
      /\ c[4].verdict = "unsupported" /\ c[5].verdict = "unsupported" /\ c[6].verdict = "failed"
      /\ c[7].verdict = "failed" /\ c[8].verdict = "failed" /\ c[9].verdict = "failed"
  BY DEF Checks
<1>4. Parse(x) = LET i == CHOOSE i \in 1 .. 10 : First(i)
                 IN IF i > 9 THEN "verified" ELSE c[i].verdict
  BY ParseOfFirst DEF c
<1> DEFINE i == CHOOSE i \in 1 .. 10 : First(i)
<1> HIDE DEF c
<1>5. \E k \in 1 .. 10 : First(k)
  <2>1. 10 \in T
    OBVIOUS
  <2>2. PICK k \in T : \A y \in T : k <= y
    BY <2>1, Least
  <2>3. \A j \in 1 .. k - 1 : c[j].holds
    BY <2>2
  <2> QED BY <2>2, <2>3 DEF FirstFailure
<1>6. i \in 1 .. 10 /\ First(i)
  BY <1>5, Zenon
<1>7. Parse(x) = IF i > 9 THEN "verified" ELSE c[i].verdict
  BY <1>4
<1> HIDE DEF i, First
<1>8. (\A j \in 1 .. i - 1 : c[j].holds) /\ (i <= 9 => ~c[i].holds)
  BY <1>6 DEF First, FirstFailure
<1>9. /\ i = 10 => \A j \in 1 .. 9 : c[j].holds
      /\ i # 10 => ~c[i].holds /\ Parse(x) = c[i].verdict
      /\ i = 10 => Parse(x) = "verified"
  BY <1>6, <1>7, <1>8
<1>a. i \in {1, 2, 3, 4, 5, 6, 7, 8, 9, 10}
  BY <1>1, <1>6
<1>b. Parse(x) = "verified" <=> Parses(x)
  <2>1. i = 10 => c[1].holds /\ c[2].holds /\ c[3].holds /\ c[4].holds /\ c[5].holds
                  /\ c[6].holds /\ c[7].holds /\ c[8].holds /\ c[9].holds
    BY <1>9
  <2> QED BY <1>2, <1>3, <1>9, <1>a, <2>1 DEF Parses
<1>c. ~Delimited(x) => Parse(x) = "failed"
  <2>1. i \in {2, 3, 4, 5, 6, 7, 8, 9, 10} => c[1].holds
    BY <1>8
  <2>2. i \in {3, 4, 5, 6, 7, 8, 9, 10} => c[2].holds
    BY <1>8
  <2>3. i \in {4, 5, 6, 7, 8, 9, 10} => c[3].holds
    BY <1>8
  <2> QED BY <1>2, <1>3, <1>9, <1>a, <2>1, <2>2, <2>3 DEF Delimited
<1>d. Delimited(x) /\ Foreign(x) => Parse(x) = "unsupported"
  <2>1. i \in {3, 4, 5, 6, 7, 8, 9, 10} => c[2].holds
    BY <1>8
  <2>2. i \in {6, 7, 8, 9, 10} => c[4].holds /\ c[5].holds
    BY <1>8
  <2> QED BY <1>2, <1>3, <1>9, <1>a, <2>1, <2>2 DEF Delimited, Foreign
<1>e. Delimited(x) /\ ~Foreign(x) => Parse(x) \in {"verified", "failed"}
  BY <1>2, <1>3, <1>9, <1>a DEF Delimited, Foreign
<1> QED BY <1>b, <1>c, <1>d, <1>e

(* Integrity relative to the exported manifest is that of a member. *)
LEMMA VerifiedPackageIsMember == HandlingInvariant => VerifiedIsMember
<1> SUFFICES ASSUME HandlingInvariant,
                    received.package.manifest = exported.manifest,
                    IntegrityVerified(Report(document, received))
             PROVE  /\ received.package =
                         NewPackage(batch[received.package.index + 1], Entries, received.package.index)
                    /\ document = batch[received.package.index + 1].digest
  BY DEF VerifiedIsMember
<1> DEFINE p == received.package
<1>1. /\ document = p.witness.digest
      /\ Verify(Commit(p.witness), p.index, p.manifest.size, p.path, p.manifest.root)
  BY DEF IntegrityVerified, Report, Status
<1>2. batch \in Batches /\ IsPackage(p) /\ p.manifest = NewManifest(Entries)
  BY DEF HandlingInvariant
<1> HIDE DEF p
<1>3. p.manifest.size = Len(batch) /\ p.manifest.root = Tree
  BY <1>2, EntriesOfBatch DEF NewManifest, Tree
<1>4. PICK i \in 0 .. Len(batch) - 1 : p.path = Path(Entries, i)
  BY <1>2 DEF IsPackage
<1>5. p.path \in Seq(Hashes(Entries)) /\ p.index \in Nat
  BY <1>2, <1>4, PathOfMember DEF IsPackage
<1>6. /\ p.index < Len(batch)
      /\ Commit(p.witness) = Entries[p.index + 1]
      /\ p.path = Path(Entries, p.index)
  <2>1. PICK H, q, k, x : H = Hashes(Entries) /\ q = p.path /\ k = p.index /\ x = Commit(p.witness)
    OBVIOUS
  <2>2. q \in Seq(H) /\ k \in Nat
    BY <1>5, <2>1
  <2>3. Verify(x, k, Len(batch), q, Tree)
    BY <1>1, <1>3, <2>1
  <2>4. k < Len(batch) /\ x = Entries[k + 1] /\ q = Path(Entries, k)
    BY <1>2, <2>2, <2>3, VerifyMembers
  <2> QED BY <2>1, <2>4
<1>7. p.index + 1 \in 1 .. Len(batch)
  BY <1>2, <1>5, <1>6, EntriesOfBatch, ManifestFits
<1>8. p.witness = batch[p.index + 1]
  <2>1. Entries[p.index + 1] = Commit(batch[p.index + 1]) /\ IsWitness(batch[p.index + 1])
    BY <1>2, <1>7, EntriesOfBatch
  <2>2. IsWitness(p.witness)
    BY <1>2 DEF IsPackage
  <2> QED BY <1>6, <2>1, <2>2, CommitInjective
<1>9. p = NewPackage(batch[p.index + 1], Entries, p.index)
  BY <1>2, <1>6, <1>8 DEF IsPackage, NewPackage
<1> QED BY <1>1, <1>8, <1>9 DEF p

(* The package of any member of any batch a manifest may have is written, is
   admitted by Parse, and verifies with the member's document. *)
THEOREM PackagesVerify ==
  ASSUME NEW entries, Len(entries) \in 1 .. MaxManifest,
         NEW index \in 0 .. Len(entries) - 1, NEW w, Commit(w) = entries[index + 1]
  PROVE  LET p == NewPackage(w, entries, index) IN
         Marshals(p) /\ IntegrityVerified(Report(w.digest, Encode(p)))
<1> DEFINE p == NewPackage(w, entries, index)
           x == Encode(p)
           q == Path(entries, index)
<1>1. PICK n \in Nat : n = Len(entries) /\ n \in 1 .. MaxManifest
  BY ManifestFits
<1>2. index \in Nat /\ index < n /\ index \in 0 .. n - 1
  BY <1>1
<1>3. q \in Seq(Hashes(entries)) /\ Len(q) = PathLength(index, n)
  <2>1. Len(entries) \in Nat /\ index < Len(entries)
    BY <1>1, <1>2
  <2>2. q \in Seq(Hashes(entries)) /\ Len(q) = PathLength(index, Len(entries))
    BY <1>2, <2>1, WholePath
  <2> QED BY <1>1, <2>2
<1>4. PathLength(index, n) \in 0 .. MaxPath
  <2>1. n \in 1 .. Power2(MaxPath) /\ MaxPath \in Nat
    BY <1>1, ManifestFits
  <2> QED BY <1>2, <2>1, DepthBound DEF PathLength
<1>5. Verify(Commit(w), index, n, q, Root(entries))
  <2>1. Len(entries) \in 1 .. Power2(64)
    BY <1>1, ManifestFits
  <2>2. PICK H, r, c : H = Hashes(entries) /\ r = q /\ c = Commit(w)
    OBVIOUS
  <2>3. r \in Seq(H)
    BY <1>3, <2>2
  <2> HIDE DEF q
  <2>4. Verify(c, index, Len(entries), r, Root(entries))
          <=> index < Len(entries) /\ c = entries[index + 1] /\ r = Path(entries, index)
    BY <1>2, <2>1, <2>3, VerifyAcceptsExactly
  <2> QED BY <1>1, <1>2, <2>2, <2>4 DEF q
<1>6. /\ p.witness = w /\ p.index = index /\ p.path = q
      /\ p.manifest.size = n /\ p.manifest.root = Root(entries)
  BY <1>1 DEF NewPackage, NewManifest
<1>7. /\ x.framed /\ x.version = 1 /\ x.count = Len(p.path) /\ x.anchors = 0
      /\ x.profile /\ x.domains /\ x.package = p
  BY DEF Encode
<1> HIDE DEF p, x, q
<1>8. Marshals(p)
  BY <1>1, <1>2, <1>3, <1>6 DEF Marshals, ManifestValid
<1>9. Parse(x) = "verified"
  <2>1. x.count <= MaxPath /\ x.count = Len(x.package.path)
    BY <1>3, <1>4, <1>6, <1>7, PackageAssumption
  <2>2. ManifestValid(x.package.manifest) /\ x.package.index < x.package.manifest.size
    BY <1>1, <1>2, <1>6, <1>7 DEF ManifestValid
  <2>3. x.count = PathLength(x.package.index, x.package.manifest.size)
    BY <1>3, <1>6, <1>7
  <2>4. Parses(x)
    BY <1>7, <2>1, <2>2, <2>3 DEF Parses
  <2> QED BY <2>4, ParseSays
<1>10. IntegrityVerified(Report(w.digest, x))
  BY <1>5, <1>6, <1>7, <1>9 DEF IntegrityVerified, Report, Status
<1> QED BY <1>8, <1>10 DEF p, x

(* A member's package as written, with its own document, has its integrity
   verified and nothing foreign in it. *)
LEMMA GenuineVerifies ==
  HandlingInvariant /\ Genuine => IntegrityVerified(Report(document, received)) /\ ~Foreign(received)
<1> SUFFICES ASSUME HandlingInvariant, Genuine
             PROVE  IntegrityVerified(Report(document, received)) /\ ~Foreign(received)
  OBVIOUS
<1>1. PICK i \in 0 .. Len(batch) - 1 :
        received = Encode(NewPackage(batch[i + 1], Entries, i)) /\ document = batch[i + 1].digest
  BY DEF Genuine
<1>2. batch \in Batches
  BY DEF HandlingInvariant
<1>3. PICK e, w, d : e = Entries /\ w = batch[i + 1] /\ d = document
  OBVIOUS
<1>4. Len(e) = Len(batch) /\ Len(e) \in 1 .. MaxManifest /\ i \in 0 .. Len(e) - 1
  BY <1>2, <1>3, EntriesOfBatch, ManifestFits
<1>5. Commit(w) = e[i + 1]
  BY <1>2, <1>3, <1>4, EntriesOfBatch, ManifestFits
<1>6. IntegrityVerified(Report(w.digest, Encode(NewPackage(w, e, i))))
  BY <1>4, <1>5, PackagesVerify
<1>7. ~Foreign(received)
  BY <1>1 DEF Foreign, Encode
<1> QED BY <1>1, <1>3, <1>6, <1>7

(* A package verified under the exported manifest is a member's, byte for byte. *)
LEMMA VerifiedIsGenuine ==
  /\ HandlingInvariant
  /\ received.package.manifest = exported.manifest
  /\ IntegrityVerified(Report(document, received))
  => Genuine
<1> SUFFICES ASSUME HandlingInvariant,
                    received.package.manifest = exported.manifest,
                    IntegrityVerified(Report(document, received))
             PROVE  Genuine
  OBVIOUS
<1> DEFINE p == received.package
           i == p.index
<1>1. p = NewPackage(batch[i + 1], Entries, i) /\ document = batch[i + 1].digest
  BY VerifiedPackageIsMember DEF VerifiedIsMember
<1>2. i \in 0 .. Len(batch) - 1
  <2>1. batch \in Batches /\ i \in Nat
    BY DEF HandlingInvariant, IsPackage
  <2>2. Parses(received)
    BY ParseSays DEF IntegrityVerified, Report
  <2>3. p.manifest.size = Len(batch)
    BY <2>1, EntriesOfBatch DEF HandlingInvariant, NewManifest
  <2>4. i < Len(batch) /\ Len(batch) \in Nat
    BY <2>1, <2>2, <2>3, EntriesOfBatch, ManifestFits DEF Parses
  <2> QED BY <2>1, <2>4
<1>3. received = Encode(p)
  <2>1. Parses(received)
    BY ParseSays DEF IntegrityVerified, Report
  <2>2. /\ received.framed = TRUE /\ received.profile = TRUE /\ received.domains = TRUE
        /\ received.version = 1 /\ received.anchors = 0 /\ received.count = Len(p.path)
    BY <2>1 DEF Parses, HandlingInvariant
  <2>3. received = [framed |-> received.framed, version |-> received.version,
                    count |-> received.count, anchors |-> received.anchors,
                    profile |-> received.profile, domains |-> received.domains,
                    package |-> received.package]
    BY DEF HandlingInvariant
  <2> QED BY <2>2, <2>3 DEF Encode
<1> QED BY <1>1, <1>2, <1>3 DEF Genuine

(* The exit code is the promised one. *)
LEMMA ExitCodesOfHandling == HandlingInvariant => ExitCodesMean
<1> SUFFICES ASSUME HandlingInvariant, NEW offline \in BOOLEAN, NEW written \in BOOLEAN
             PROVE  LET code == ExitCode(Report(document, received), offline, written) IN
                    /\ ~written \/ ~Delimited(received) => code = 1
                    /\ written /\ Delimited(received) /\ Foreign(received) => code = 3
                    /\ written /\ Delimited(received) /\ ~Foreign(received)
                         /\ received.package.manifest = exported.manifest
                         => code = IF ~Genuine THEN 1 ELSE IF offline THEN 0 ELSE 3
  BY DEF ExitCodesMean
<1> DEFINE r == Report(document, received)
<1>1. r.format = Parse(received)
  BY DEF Report
<1>2. /\ ~Delimited(received) => r.format = "failed"
      /\ Delimited(received) /\ Foreign(received) => r.format = "unsupported"
      /\ Delimited(received) /\ ~Foreign(received) => r.format \in {"verified", "failed"}
  BY <1>1, ParseSays
<1>3. received.package.manifest = exported.manifest => (IntegrityVerified(r) <=> Genuine)
  BY GenuineVerifies, VerifiedIsGenuine
<1>4. IntegrityVerified(r) => r.format = "verified"
  BY DEF IntegrityVerified
<1> HIDE DEF r
<1>5. /\ ~written \/ ~Delimited(received) => ExitCode(r, offline, written) = 1
      /\ written /\ Delimited(received) /\ Foreign(received) => ExitCode(r, offline, written) = 3
  BY <1>2, <1>4 DEF ExitCode
<1>6. written /\ Delimited(received) /\ ~Foreign(received) /\ received.package.manifest = exported.manifest
        => ExitCode(r, offline, written) = IF ~Genuine THEN 1 ELSE IF offline THEN 0 ELSE 3
  BY <1>2, <1>3 DEF ExitCode
<1> QED BY <1>5, <1>6 DEF r

--------------------------------------------------------------------------------
(* Changes *)

(* The package as exported is one of the batch. *)
LEMMA InitEstablishesHandling == HandlingInit => HandlingInvariant
<1> SUFFICES ASSUME HandlingInit PROVE HandlingInvariant
  OBVIOUS
<1>1. batch \in Batches /\ received = Encode(exported)
  BY DEF HandlingInit
<1>2. PICK i \in 0 .. Len(batch) - 1 : exported = NewPackage(batch[i + 1], Entries, i)
  BY DEF HandlingInit
<1>3. Len(batch) \in Nat /\ i \in Nat /\ i + 1 \in 1 .. Len(batch)
  BY <1>1, EntriesOfBatch, ManifestFits
<1>4. /\ exported.manifest = NewManifest(Entries) /\ exported.witness = batch[i + 1]
      /\ exported.index = i /\ exported.path = Path(Entries, i)
  BY <1>2 DEF NewPackage
<1>5. IsWitness(batch[i + 1])
  BY <1>1, <1>3, EntriesOfBatch
<1>6. IsPackage(exported)
  <2>1. exported = [witness |-> exported.witness, manifest |-> exported.manifest,
                    index |-> exported.index, path |-> exported.path]
    BY <1>2 DEF NewPackage
  <2>2. exported.manifest = [size |-> exported.manifest.size, root |-> exported.manifest.root]
    BY <1>4 DEF NewManifest
  <2> QED BY <1>3, <1>4, <1>5, <2>1, <2>2 DEF IsPackage
<1>7. received.package = exported
  BY <1>1 DEF Encode
<1>8. /\ received = [framed |-> received.framed, version |-> received.version,
                     count |-> received.count, anchors |-> received.anchors,
                     profile |-> received.profile, domains |-> received.domains,
                     package |-> received.package]
      /\ {received.framed, received.profile, received.domains} \subseteq BOOLEAN
  BY <1>1 DEF Encode
<1> QED BY <1>1, <1>4, <1>6, <1>7, <1>8 DEF HandlingInvariant

(* A change keeps the batch and the shape of the package. *)
LEMMA ChangeKeepsHandling == HandlingInvariant /\ Change => HandlingInvariant'
<1> SUFFICES ASSUME HandlingInvariant, Change PROVE HandlingInvariant'
  OBVIOUS
<1>1. batch' = batch /\ exported' = exported
  BY DEF Change
<1>2. Entries' = Entries
  BY <1>1 DEF Entries
<1> DEFINE Shaped(r) == /\ r = [framed |-> r.framed, version |-> r.version, count |-> r.count,
                                anchors |-> r.anchors, profile |-> r.profile, domains |-> r.domains,
                                package |-> r.package]
                        /\ {r.framed, r.profile, r.domains} \subseteq BOOLEAN
<1>3. batch \in Batches /\ Shaped(received) /\ IsPackage(received.package)
  BY DEF HandlingInvariant
<1>4. SUFFICES Shaped(received') /\ IsPackage(received'.package)
  <2>1. IsPackage(received.package)' <=> IsPackage(received'.package)
    BY <1>1, <1>2 DEF IsPackage
  <2> QED BY <1>1, <1>2, <1>4, <2>1 DEF HandlingInvariant, NewManifest
<1>5. PICK r : r = received
  OBVIOUS
<1>6. Shaped(r) /\ IsPackage(r.package)
  BY <1>3, <1>5
<1>7. Len(batch) \in Nat
  BY <1>3, EntriesOfBatch, ManifestFits
<1> HIDE DEF HandlingInvariant
<1> DEFINE p == r.package
<1>8. p = [witness |-> p.witness, manifest |-> p.manifest, index |-> p.index, path |-> p.path]
  BY <1>6 DEF IsPackage
<1>9. p.manifest = [size |-> p.manifest.size, root |-> p.manifest.root]
  BY <1>6 DEF IsPackage
<1>a. IsWitness(p.witness)
  BY <1>6 DEF IsPackage
<1>b. CASE Framing
  <2>1. Shaped(received') /\ received'.package = r.package
    BY <1>5, <1>6, <1>b DEF Framing
  <2> QED BY <1>6, <2>1
<1>c. CASE Index
  <2>1. PICK i \in 0 .. Len(batch) : received' = [r EXCEPT !.package.index = i]
    BY <1>5, <1>c DEF Index
  <2>2. /\ Shaped(received')
        /\ received'.package = [witness |-> p.witness, manifest |-> p.manifest, index |-> i, path |-> p.path]
    BY <1>6, <1>8, <2>1
  <2> QED BY <1>6, <1>7, <2>2 DEF IsPackage
<1>d. CASE Size
  <2>1. PICK n : received' = [r EXCEPT !.package.manifest.size = n]
    BY <1>5, <1>d DEF Size
  <2>2. /\ Shaped(received')
        /\ received'.package = [witness |-> p.witness,
                                manifest |-> [size |-> n, root |-> p.manifest.root],
                                index |-> p.index, path |-> p.path]
    BY <1>6, <1>8, <1>9, <2>1
  <2> QED BY <1>6, <2>2 DEF IsPackage
<1>e. CASE Member
  <2>1. PICK i \in DOMAIN batch : received' = [r EXCEPT !.package.witness = batch[i]]
    BY <1>5, <1>e DEF Member
  <2>2. IsWitness(batch[i])
    BY <1>3, <2>1, EntriesOfBatch
  <2>3. /\ Shaped(received')
        /\ received'.package = [witness |-> batch[i], manifest |-> p.manifest, index |-> p.index, path |-> p.path]
    BY <1>6, <1>8, <2>1
  <2> QED BY <1>6, <2>2, <2>3 DEF IsPackage
<1>f. CASE Represented
  <2>1. PICK rep : received' = [r EXCEPT !.package.witness.representation = rep]
    BY <1>5, <1>f DEF Represented
  <2> DEFINE w == [representation |-> rep, digest |-> p.witness.digest, nonce |-> p.witness.nonce]
  <2>2. IsWitness(w)
    BY DEF IsWitness
  <2>3. p.witness = [representation |-> p.witness.representation, digest |-> p.witness.digest, nonce |-> p.witness.nonce]
    BY <1>a DEF IsWitness
  <2>4. [p.witness EXCEPT !.representation = rep] = w
    BY <2>3
  <2>5. /\ Shaped(received')
        /\ received'.package = [witness |-> [p.witness EXCEPT !.representation = rep],
                                manifest |-> p.manifest, index |-> p.index, path |-> p.path]
    BY <1>6, <1>8, <2>1
  <2> QED BY <1>6, <2>2, <2>4, <2>5 DEF IsPackage
<1>g. CASE Siblings
  <2>1. PICK i \in 0 .. Len(batch) - 1 :
          received' = [r EXCEPT !.package.path = Path(Entries, i), !.count = Len(Path(Entries, i))]
    BY <1>5, <1>g DEF Siblings
  <2>2. /\ Shaped(received')
        /\ received'.package = [witness |-> p.witness, manifest |-> p.manifest, index |-> p.index,
                                path |-> Path(Entries, i)]
    BY <1>6, <1>8, <2>1
  <2> QED BY <1>6, <2>2 DEF IsPackage
<1>h. CASE UNCHANGED received
  BY <1>3, <1>h
<1> QED BY <1>b, <1>c, <1>d, <1>e, <1>f, <1>g, <1>h DEF Change

(* Whatever is changed, what is verified has the shape of a package, and its path
   is that of some member of the batch. *)
THEOREM HandlingInvariance == HandlingSpec => []HandlingInvariant
<1>1. HandlingInvariant /\ [HandlingNext]_handlingVars => HandlingInvariant'
  <2> SUFFICES ASSUME HandlingInvariant, [HandlingNext]_handlingVars PROVE HandlingInvariant'
    OBVIOUS
  <2>1. CASE Change
    BY <2>1, ChangeKeepsHandling
  <2>2. CASE UNCHANGED handlingVars
    <3>1. Entries' = Entries
      BY <2>2 DEF handlingVars, Entries
    <3> QED BY <2>2, <3>1 DEF handlingVars, HandlingInvariant, IsPackage, NewManifest
  <2> QED BY <2>1, <2>2 DEF HandlingNext
<1> QED BY <1>1, InitEstablishesHandling, PTL DEF HandlingSpec

(* merkle.Verify accepts, of all the paths tried, the one merkle.Path computes,
   with the leaf at its own place. *)
THEOREM VerifyAlwaysExact == HandlingSpec => []VerifyExact
<1>1. HandlingInvariant => VerifyExact
  BY VerifyExactOfBatch DEF HandlingInvariant
<1> QED BY <1>1, HandlingInvariance, PTL

(* merkle.Root builds the tree of RFC 6962. *)
THEOREM RootAlwaysReference == HandlingSpec => []RootIsReference
<1>1. HandlingInvariant => RootIsReference
  BY RootOfBatch DEF HandlingInvariant
<1> QED BY <1>1, HandlingInvariance, PTL

(* pathLength in package.go is the length of the path in merkle.go, and Parse
   admits it at the sizes at the boundary. *)
THEOREM PathLengthAlwaysAgrees == HandlingSpec => []PathLengthAgrees
<1>1. HandlingInvariant => PathLengthAgrees
  BY PathLengthOfBatch DEF HandlingInvariant
<1> QED BY <1>1, HandlingInvariance, PTL

(* Relative to the manifest of the export, proof.Verify reports integrity for the
   package and document of a member and for nothing else. *)
THEOREM VerifiedAlwaysMember == HandlingSpec => []VerifiedIsMember
  BY VerifiedPackageIsMember, HandlingInvariance, PTL

(* Every exit code is the one the table of exit codes promises. *)
THEOREM ExitCodesAlways == HandlingSpec => []ExitCodesMean
<1>1. HandlingInvariant => ExitCodesMean
  BY ExitCodesOfHandling
<1> QED BY <1>1, HandlingInvariance, PTL

--------------------------------------------------------------------------------
(* What the store exports *)

(* The commitments UnanchoredPackage collects: one for every member. *)
LEMMA CommitmentsOf ==
  ASSUME StoreInvariant, NEW b \in DOMAIN batches
  PROVE  /\ Len(MembersOf(b)) \in 1 .. MaxManifest
         /\ DOMAIN MembersOf(b) = 1 .. Len(MembersOf(b))
         /\ Len(MemberCommitments(b)) = Len(MembersOf(b))
         /\ \A i \in 1 .. Len(MembersOf(b)) :
              MemberCommitments(b)[i] = Commit(evidence[MembersOf(b)[i]].witness)
<1>1. TypeOK /\ BatchesSound
  BY DEF StoreInvariant
<1>2. PICK s, n : s = MembersOf(b) /\ n = Len(s)
  OBVIOUS
<1>3. s \in Seq(EvidenceIDs) /\ batches[b].limit \in 1 .. MaxBatchEntries
  BY <1>1, <1>2 DEF TypeOK, IsBucket, FrozenBatch, Limits, MembersOf
<1>4. n \in 1 .. batches[b].limit
  BY <1>1, <1>2 DEF BatchesSound, MembersOf
<1>5. n \in 1 .. MaxManifest
  BY <1>3, <1>4, ManifestFits, StoreAssumption, ExportAssumption
<1>6. DOMAIN s = 1 .. n /\ n \in Nat
  BY <1>2, <1>3
<1>7. MemberCommitments(b) = [i \in 1 .. n |-> Commit(evidence[s[i]].witness)]
  BY <1>2, <1>6 DEF MemberCommitments
<1>8. Len(MemberCommitments(b)) = n
  BY <1>6, <1>7
<1> QED BY <1>2, <1>5, <1>6, <1>7, <1>8

(* The place of a frozen record in its batch. *)
LEMMA PlaceOf ==
  ASSUME StoreInvariant, NEW id \in DOMAIN evidence, Batched(id)
  PROVE  /\ evidence[id].batch \in DOMAIN batches
         /\ evidence[id].index \in 0 .. Len(MembersOf(evidence[id].batch)) - 1
         /\ MembersOf(evidence[id].batch)[evidence[id].index + 1] = id
<1>1. TypeOK /\ BatchesSound
  BY DEF StoreInvariant
<1>2. evidence[id] \in Evidence
  BY <1>1 DEF TypeOK, IsBucket
<1>3. /\ evidence[id].batch \in DOMAIN batches
      /\ evidence[id].index < Len(MembersOf(evidence[id].batch))
      /\ MembersOf(evidence[id].batch)[evidence[id].index + 1] = id
  BY <1>1 DEF BatchesSound, MembersOf
<1>4. evidence[id].index \in Nat
  BY <1>2 DEF Evidence
<1>5. Len(MembersOf(evidence[id].batch)) \in Nat
  BY <1>3, CommitmentsOf, ManifestFits
<1> QED BY <1>3, <1>4, <1>5

(* A frozen record's package is written and verifies. *)
LEMMA PackageOf ==
  ASSUME StoreInvariant, NEW id \in DOMAIN evidence, Batched(id)
  PROVE  /\ Marshals(UnanchoredPackage(id))
         /\ IntegrityVerified(Report(evidence[id].witness.digest, Encode(UnanchoredPackage(id))))
<1>1. PICK x, i, w : x = MemberCommitments(evidence[id].batch) /\ i = evidence[id].index
                     /\ w = evidence[id].witness
  OBVIOUS
<1>2. Len(x) \in 1 .. MaxManifest /\ i \in 0 .. Len(x) - 1 /\ Commit(w) = x[i + 1]
  <2>1. Len(x) \in 1 .. MaxManifest /\ Len(x) = Len(MembersOf(evidence[id].batch))
    BY <1>1, PlaceOf, CommitmentsOf
  <2>2. i \in 0 .. Len(x) - 1 /\ MembersOf(evidence[id].batch)[i + 1] = id
    BY <1>1, <2>1, PlaceOf
  <2>3. i + 1 \in 1 .. Len(x)
    BY <2>1, <2>2, ManifestFits
  <2>4. x[i + 1] = Commit(evidence[MembersOf(evidence[id].batch)[i + 1]].witness)
    BY <1>1, <2>1, <2>3, PlaceOf, CommitmentsOf
  <2> QED BY <1>1, <2>1, <2>2, <2>4
<1>3. Marshals(NewPackage(w, x, i)) /\ IntegrityVerified(Report(w.digest, Encode(NewPackage(w, x, i))))
  BY <1>2, PackagesVerify
<1> QED BY <1>1, <1>3 DEF UnanchoredPackage

(* Every frozen record exports a package that proves its document and no other. *)
LEMMA InvariantExports == StoreInvariant => ExportsProve
<1> SUFFICES ASSUME StoreInvariant, NEW id \in DOMAIN evidence, Batched(id)
             PROVE  /\ Exportable(id)
                    /\ Marshals(UnanchoredPackage(id))
                    /\ \A d \in Documents : Accepts(d, id) <=> evidence[id].witness.digest = Digest(d)
  BY DEF ExportsProve
<1>1. Exportable(id)
  BY InvariantNeverCorrupt DEF NeverCorrupt, Exportable, Batched
<1>2. Marshals(UnanchoredPackage(id))
  BY PackageOf
<1>3. ASSUME NEW d \in Documents
      PROVE  Accepts(d, id) <=> evidence[id].witness.digest = Digest(d)
  <2> DEFINE x == Encode(UnanchoredPackage(id))
             g == evidence[id].witness.digest
  <2>1. x.package.witness.digest = g
    BY DEF Encode, UnanchoredPackage, NewPackage
  <2>2. IntegrityVerified(Report(g, x))
    BY PackageOf
  <2> HIDE DEF x, g
  <2>3. IntegrityVerified(Report(Digest(d), x)) <=> g = Digest(d)
    BY <2>1, <2>2 DEF IntegrityVerified, Report, Status
  <2>4. Report(Digest(d), x).format = "verified"
    BY <2>2 DEF IntegrityVerified, Report
  <2>5. ExitCode(Report(Digest(d), x), TRUE, TRUE) = 0 <=> g = Digest(d)
    BY <2>3, <2>4 DEF ExitCode
  <2> QED BY <2>5 DEF Accepts, x, g
<1> QED BY <1>1, <1>2, <1>3

(* A submitted manifest covers the records that name its batch, each at a place
   of its own. *)
LEMMA InvariantCovers == StoreInvariant => ManifestCovers
<1> SUFFICES ASSUME StoreInvariant, NEW b \in DOMAIN outbox
             PROVE  LET members == {id \in DOMAIN evidence : evidence[id].batch = b} IN
                    /\ outbox[b].size = Cardinality(members)
                    /\ \A id \in members : UnanchoredPackage(id).manifest = Submitted(outbox[b])
                    /\ {UnanchoredPackage(id).index : id \in members} = 0 .. outbox[b].size - 1
  BY DEF ManifestCovers
<1> DEFINE M == {id \in DOMAIN evidence : evidence[id].batch = b}
           s == MembersOf(b)
           n == Len(s)
<1>1. TypeOK /\ OutboxExact /\ BatchesSound
  BY DEF StoreInvariant
<1>2. b \in DOMAIN batches /\ outbox[b] = batches[b].manifest
  BY <1>1 DEF OutboxExact
<1>3. n \in Nat /\ DOMAIN s = 1 .. n
  BY <1>2, CommitmentsOf, ManifestFits
<1>4. \A i \in 1 .. n : s[i] \in M /\ evidence[s[i]].index = i - 1
  BY <1>1, <1>2 DEF BatchesSound, MembersOf
<1>5. \A id \in M : evidence[id].index \in 0 .. n - 1 /\ s[evidence[id].index + 1] = id
  <2> SUFFICES ASSUME NEW id \in M
               PROVE  evidence[id].index \in 0 .. n - 1 /\ s[evidence[id].index + 1] = id
    OBVIOUS
  <2>1. Batched(id)
    BY <1>1, <1>2, StoreAssumption DEF Batched, TypeOK, IsBucket
  <2> QED BY <2>1, PlaceOf
<1>6. /\ outbox[b].size = n
      /\ outbox[b].root.leaves = [i \in 1 .. n |-> Compute(evidence[s[i]].witness)]
  <2>1. PICK cs : cs = [i \in 1 .. n |-> Compute(evidence[s[i]].witness)]
    OBVIOUS
  <2>2. outbox[b] = Manifest(cs)
    BY <1>1, <1>2, <2>1 DEF BatchesSound, MembersOf
  <2>3. Len(cs) = n
    <3>1. PICK k \in Nat : k = n
      BY <1>3
    <3>2. cs = [i \in 1 .. k |-> cs[i]]
      BY <2>1, <3>1
    <3> QED BY <3>1, <3>2
  <2> HIDE DEF s, n
  <2>4. outbox[b].size = Len(cs) /\ outbox[b].root.leaves = cs
    BY <2>2 DEF Manifest
  <2> QED BY <2>1, <2>3, <2>4
<1>7. Submitted(outbox[b]) = NewManifest(MemberCommitments(b))
  <2> DEFINE leaves == outbox[b].root.leaves
  <2>1. DOMAIN leaves = 1 .. n /\ \A i \in 1 .. n : leaves[i].commits = evidence[s[i]].witness
    BY <1>6 DEF Compute
  <2>2. MemberCommitments(b) = [i \in 1 .. n |-> Commit(evidence[s[i]].witness)]
    BY <1>3 DEF MemberCommitments
  <2> HIDE DEF leaves, s, n
  <2>3. [i \in DOMAIN leaves |-> Commit(leaves[i].commits)] = MemberCommitments(b)
    BY <2>1, <2>2
  <2> QED BY <2>3 DEF Submitted, leaves
<1>8. \A id \in M : UnanchoredPackage(id).manifest = Submitted(outbox[b])
  BY <1>7 DEF UnanchoredPackage, NewPackage
<1>9. \A id \in M : UnanchoredPackage(id).index = evidence[id].index
  BY DEF UnanchoredPackage, NewPackage
<1>10. {UnanchoredPackage(id).index : id \in M} = 0 .. n - 1
  <2> HIDE DEF M, s, n
  <2>1. ASSUME NEW j \in 0 .. n - 1 PROVE \E id \in M : UnanchoredPackage(id).index = j
    <3>1. j + 1 \in 1 .. n /\ (j + 1) - 1 = j
      BY <1>3
    <3> QED BY <1>4, <1>9, <3>1
  <2>2. \A id \in M : UnanchoredPackage(id).index \in 0 .. n - 1
    BY <1>5, <1>9
  <2> QED BY <2>1, <2>2
<1>11. Cardinality(M) = n
  <2> DEFINE f == [i \in 1 .. n |-> s[i]]
  <2> HIDE DEF M, s, n
  <2>1. f \in Bijection(1 .. n, M)
    <3>1. f \in [1 .. n -> M]
      BY <1>4
    <3>2. \A i, j \in 1 .. n : f[i] = f[j] => i = j
      <4> SUFFICES ASSUME NEW i \in 1 .. n, NEW j \in 1 .. n, f[i] = f[j] PROVE i = j
        OBVIOUS
      <4>1. i - 1 = j - 1
        BY <1>4
      <4> QED BY <1>3, <4>1
    <3>3. \A id \in M : \E i \in 1 .. n : f[i] = id
      <4> SUFFICES ASSUME NEW id \in M PROVE \E i \in 1 .. n : f[i] = id
        OBVIOUS
      <4>1. evidence[id].index + 1 \in 1 .. n /\ s[evidence[id].index + 1] = id
        BY <1>3, <1>5
      <4> QED BY <4>1
    <3> HIDE DEF f
    <3> QED BY <3>1, <3>2, <3>3 DEF Bijection, Injection, Surjection, IsInjective
  <2>2. IsFiniteSet(1 .. n) /\ Cardinality(1 .. n) = n
    BY <1>3, FS_Interval
  <2>3. Cardinality(M) = Cardinality(1 .. n)
    <3>1. ExistsBijection(1 .. n, M)
      BY <2>1 DEF ExistsBijection
    <3> QED BY <2>2, <3>1, FS_Bijection
  <2> QED BY <2>2, <2>3
<1> QED BY <1>6, <1>8, <1>10, <1>11

(* A package once exported is exported again just so. *)
LEMMA PackagesKept == ASSUME StoreInvariant, Next PROVE KeepsPackages
<1>1. StoreInvariant'
  BY NextInvariant
<1>2. KeepsEvidence /\ KeepsFreezes
  BY EvidenceKept, FreezesKept
<1>3. NeverCorrupt'
  <2>1. StoreInvariant' => NeverCorrupt'
    BY InvariantNeverCorrupt, PTL
  <2> QED BY <1>1, <2>1
<1> SUFFICES ASSUME NEW id \in DOMAIN evidence, Exportable(id)
             PROVE  Exportable(id)' /\ UnanchoredPackage(id)' = UnanchoredPackage(id)
  BY DEF KeepsPackages
<1>4. Batched(id) /\ id \in DOMAIN evidence' /\ evidence'[id] = evidence[id]
  BY <1>2 DEF Exportable, Batched, KeepsEvidence
<1>5. Exportable(id)'
  BY <1>3, <1>4 DEF Exportable, NeverCorrupt, Batched
<1>6. PICK b \in DOMAIN batches : b = evidence[id].batch
  BY <1>4, PlaceOf
<1>7. MembersOf(b)' = MembersOf(b)
  BY <1>2 DEF KeepsFreezes, MembersOf
<1>8. \A i \in DOMAIN MembersOf(b) : evidence'[MembersOf(b)[i]].witness = evidence[MembersOf(b)[i]].witness
  <2>1. \A i \in DOMAIN MembersOf(b) : MembersOf(b)[i] \in DOMAIN evidence
    <3>1. BatchesSound
      BY DEF StoreInvariant
    <3> QED BY <3>1, CommitmentsOf DEF BatchesSound, MembersOf
  <2> QED BY <1>2, <2>1 DEF KeepsEvidence
<1>9. MemberCommitments(b)' = MemberCommitments(b)
  BY <1>7, <1>8 DEF MemberCommitments
<1> QED BY <1>4, <1>5, <1>6, <1>9 DEF UnanchoredPackage

(* From the moment it is frozen, every record exports a package that can be encoded
   and that "sigmaproof verify" accepts offline, for its own document only. *)
THEOREM ExportsAlwaysProve == Spec => []ExportsProve
  BY Invariance, InvariantExports, PTL

(* The manifest handed over for submission counts exactly the records that name its
   batch, and their packages carry it. *)
THEOREM ManifestAlwaysCovers == Spec => []ManifestCovers
  BY Invariance, InvariantCovers, PTL

(* UnanchoredPackage exports the same package for ever. *)
THEOREM ExportsNeverChange == Spec => ExportStable
<1>1. StoreInvariant /\ [Next]_vars => [KeepsPackages]_vars
  BY PackagesKept
<1> QED BY <1>1, Invariance, PTL DEF Spec, ExportStable

(* Whatever is read as a package, "verify" reports integrity relative to the
   manifest of a batch for nothing but a record frozen in it: its witness, its
   place, its path and its document. *)
THEOREM AcceptedIsFrozen ==
  ASSUME StoreInvariant, NEW b \in DOMAIN batches,
         NEW x, IsWitness(x.package.witness), x.package.index \in Nat,
         NEW T, x.package.path \in Seq(T),
         x.package.manifest = NewManifest(MemberCommitments(b)),
         NEW digest, IntegrityVerified(Report(digest, x))
  PROVE  \E id \in DOMAIN evidence :
           /\ evidence[id].batch = b
           /\ x.package.witness = evidence[id].witness
           /\ x.package.index = evidence[id].index
           /\ x.package.path = UnanchoredPackage(id).path
           /\ digest = evidence[id].witness.digest
<1> DEFINE s == MembersOf(b)
           c == MemberCommitments(b)
           p == x.package
<1>1. PICK i, w, q : i = p.index /\ w = p.witness /\ q = p.path
  OBVIOUS
<1>2. digest = w.digest /\ Verify(Commit(w), i, p.manifest.size, q, p.manifest.root)
  BY <1>1 DEF IntegrityVerified, Report, Status
<1>3. p.manifest.size = Len(c) /\ p.manifest.root = Root(c)
  BY DEF NewManifest
<1>4. /\ Len(s) \in 1 .. MaxManifest /\ Len(c) = Len(s)
      /\ \A j \in 1 .. Len(s) : c[j] = Commit(evidence[s[j]].witness)
  BY CommitmentsOf
<1>5. i < Len(c) /\ Commit(w) = c[i + 1] /\ q = Path(c, i)
  <2>1. Len(c) \in 1 .. Power2(64) /\ i \in Nat /\ q \in Seq(T)
    BY <1>1, <1>4, ManifestFits
  <2>2. Verify(Commit(w), i, Len(c), q, Root(c))
    BY <1>2, <1>3
  <2> HIDE DEF c
  <2> QED BY <2>1, <2>2, VerifyAcceptsExactly
<1>6. i \in Nat /\ i + 1 \in 1 .. Len(s)
  BY <1>1, <1>4, <1>5, ManifestFits
<1>7. PICK id : id = s[i + 1]
  OBVIOUS
<1>8. /\ id \in DOMAIN evidence /\ evidence[id].batch = b /\ evidence[id].index = i
      /\ IsWitness(evidence[id].witness)
  <2>1. BatchesSound /\ TypeOK
    BY DEF StoreInvariant
  <2>2. id \in DOMAIN evidence /\ evidence[id].batch = b /\ evidence[id].index = (i + 1) - 1
    BY <1>6, <1>7, <2>1 DEF BatchesSound, MembersOf
  <2>3. evidence[id].witness \in Witnesses
    BY <2>1, <2>2 DEF TypeOK, IsBucket, Evidence
  <2> QED BY <1>6, <2>2, <2>3 DEF Witnesses, IsWitness
<1>9. w = evidence[id].witness
  <2>1. Commit(w) = Commit(evidence[id].witness) /\ IsWitness(w)
    BY <1>1, <1>4, <1>5, <1>6, <1>7
  <2> QED BY <1>8, <2>1, CommitInjective
<1>10. q = UnanchoredPackage(id).path
  BY <1>5, <1>8 DEF UnanchoredPackage, NewPackage
<1> QED BY <1>1, <1>2, <1>8, <1>9, <1>10
=================================================================================
