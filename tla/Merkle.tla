--------------------------------- MODULE Merkle ---------------------------------
(***************************************************************************)
(* The Merkle trees of pkg/proof/merkle/merkle.go: root, inclusion path and *)
(* verification.  SHA-256 with its leaf and node prefixes is a free         *)
(* constructor: two hashes are equal when they hash the same things.       *)
(* Recursion is on the size of a subtree; a subtree is the size entries    *)
(* that follow the first lo.                                               *)
(***************************************************************************)
EXTENDS Integers, Sequences

Leaf(entry) == [leaf |-> entry]
Node(left, right) == [left |-> left, right |-> right]
EmptyRoot == [empty |-> TRUE]

\* 1 << k, and bits.Len64: how many binary digits n has.
Power2(k) == LET power[j \in Nat] == IF j = 0 THEN 1 ELSE 2 * power[j - 1] IN power[k]
Len64(n) == LET digits[m \in Nat] == IF m = 0 THEN 0 ELSE 1 + digits[m \div 2] IN digits[n]

\* The left subtree of a tree of n > 1 leaves: the largest power of two below n.
Split_Halves(n) == n \div 2
Split(n) == Power2(Len64(n - 1) - 1)

\* The root of every subtree, by its size and what comes before it.
Roots(entries) ==
  LET root[n \in Nat] == [lo \in Nat |->
        IF n = 0 THEN EmptyRoot
        ELSE IF n = 1 THEN Leaf(entries[lo + 1])
        ELSE Node(root[Split(n)][lo], root[n - Split(n)][lo + Split(n)])]
  IN root
Root(entries) == Roots(entries)[Len(entries)][0]

\* The sibling hashes from the leaf at index (counted from 0) up to the root of
\* each subtree that contains it.
Paths(entries, index) ==
  LET path[n \in Nat] == [lo \in Nat |->
        IF n <= 1 THEN <<>>
        ELSE IF index < lo + Split(n)
             THEN Append(path[Split(n)][lo], Roots(entries)[n - Split(n)][lo + Split(n)])
             ELSE Append(path[n - Split(n)][lo + Split(n)], Roots(entries)[Split(n)][lo])]
  IN path
Path(entries, index) == Paths(entries, index)[Len(entries)][0]

\* How many siblings a path has, computed without the tree (package.go).
Depths ==
  LET depth[n \in Nat] == [i \in Nat |->
        IF n <= 1 THEN 0
        ELSE 1 + (IF i < Split(n) THEN depth[Split(n)][i] ELSE depth[n - Split(n)][i - Split(n)])]
  IN depth
PathLength_Balanced(index, size) == Len64(size - 1)
PathLength(index, size) == Depths[size][index]

\* Rebuilding the root from an entry and a path: the hash it comes to and how
\* many of the path's nodes it used.  Running out of them stops it for good.
Truncated == [hash |-> EmptyRoot, used |-> -1]
Absorb(built, path, side) ==
  IF built = Truncated \/ built.used >= Len(path) THEN Truncated
  ELSE LET sibling == path[built.used + 1] IN
       [hash |-> IF side = "left" THEN Node(built.hash, sibling) ELSE Node(sibling, built.hash),
        used |-> built.used + 1]
Rebuilds(entry, path) ==
  LET rebuild[n \in Nat] == [i \in Nat |->
        IF n <= 1 THEN [hash |-> Leaf(entry), used |-> 0]
        ELSE IF i < Split(n) THEN Absorb(rebuild[Split(n)][i], path, "left")
                             ELSE Absorb(rebuild[n - Split(n)][i - Split(n)], path, "right")]
  IN rebuild

\* Every node of the path must be used, and the root must come out.
UsesAll_Any(built, path) == built # Truncated
UsesAll(built, path) == built.used = Len(path)
Verify(entry, index, size, path, root) ==
  /\ size # 0 /\ index < size
  /\ Len(path) <= 64
  /\ LET built == Rebuilds(entry, path)[size][index] IN
     UsesAll(built, path) /\ built.hash = root
================================================================================
